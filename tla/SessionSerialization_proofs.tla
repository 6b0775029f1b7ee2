-------------------- MODULE SessionSerialization_proofs --------------------
(***************************************************************************)
(* What holds of SessionSerialization for any number of requests and pods, *)
(* any routing, either RECLAIM_ACTION and any combination of faults, but   *)
(* for the theorems that assume Quick, Punctual or Steady.  The invariants *)
(* build on one another, TypeOK first: each is shown inductive together    *)
(* with those before it, one step per action.                              *)
(***************************************************************************)
EXTENDS SessionSerialization, TLAPS

\* The labels of a handler that has been given its own reply.
Replying == {"claim", "take", "retake", "forward", "settle"}

USE DEF rowVars, podVars, agentVars, replyVars, handlerVars, deliveryVars, claimVars,
        Replying

\* What a handler knows where it is: the pod it runs on, the row it has
\* dequeued or waits for, the reply it forwards; and the reply a delivery carries.
PodKnown == \A h \in Requests : pc[h] # "new" => home[h] \in Pods
TargetKnown ==
  \A h \in Requests :
    pc[h] \in {"send", "unsent", "wait", "await", "timedout"}
      => target[h] \in Requests
ReplyKnown ==
  \A h \in Requests : pc[h] \in Replying => result[h] \in Results
CarriedKnown ==
  \A d \in Deliveries : stage[d] \notin {"idle", "gone"} => carried[d] \in Requests

TypeInv == TypeOK /\ PodKnown /\ TargetKnown /\ ReplyKnown /\ CarriedKnown

\* The steps that forward a reply and leave the rows and futures alone: those of its
\* handler, and those of the handlers of events.
ReplyStep(h) ==
  ClaimReply(h) \/ TakeReply(h) \/ ForwardReply(h) \/ SettleReply(h) \/ ReplyFails(h)
EventStep ==
  \/ \E d \in Deliveries :
       \/ \E p \in Pods, r \in Requests : Deliver(d, p, r)
       \/ TakeResponse(d) \/ ForwardResponse(d) \/ SettleResponse(d) \/ ResponseFails(d)
  \/ \E r \in Requests : Age(r)

\* Every initial state is well typed.
LEMMA TypeInit == Init => TypeInv
<1> SUFFICES ASSUME Init PROVE TypeInv
  OBVIOUS
<1>1. TypeOK
  BY ConstantsAssumption
  DEF Init, TypeOK, Statuses, Labels, Critical, Waiting, Ended, Futures, Results, Stages
<1>2. PodKnown /\ TargetKnown /\ ReplyKnown /\ CarriedKnown
  BY DEF Init, PodKnown, TargetKnown, ReplyKnown, CarriedKnown
<1> QED
  BY <1>1, <1>2 DEF TypeInv

\* One future replaced leaves the registry a registry.
LEMMA RegistryUpdate ==
  ASSUME NEW R \in [Pods -> [Requests -> Futures]], NEW p, NEW r, NEW v \in Futures
  PROVE  [R EXCEPT ![p][r] = v] \in [Pods -> [Requests -> Futures]]
<1>1. CASE p \in Pods
  <2>1. [R[p] EXCEPT ![r] = v] \in [Requests -> Futures]
    BY <1>1
  <2> QED
    BY <2>1
<1>2. CASE p \notin Pods
  <2>1. [R EXCEPT ![p][r] = v] = R
    BY <1>2
  <2> QED
    BY <2>1
<1> QED
  BY <1>1, <1>2

\* set_result keeps the types, and moves only handlers that wait.
LEMMA SetResultType ==
  ASSUME TypeInv, NEW p, NEW r, NEW k \in Results, NEW pcs \in [Requests -> Labels],
         \A h \in Requests : pcs[h] \in Replying => pcs[h] = pc[h],
         SetResult(p, r, k, pcs)
  PROVE  /\ pc' \in [Requests -> Labels]
         /\ result' \in [Requests -> {"null"} \union Results]
         /\ registry' \in [Pods -> [Requests -> Futures]]
         /\ ReplyKnown'
         /\ \A h \in Requests : \/ pc'[h] = pcs[h]
                                \/ pc[h] \in Waiting /\ pc'[h] \in {"claim", "lock2"}
<1>1. CASE registry[p][r] = "open"
  <2>1. registry' \in [Pods -> [Requests -> Futures]]
    <3>1. PICK v \in Futures : registry' = [registry EXCEPT ![p][r] = v]
      BY <1>1 DEF SetResult, Futures
    <3>2. registry \in [Pods -> [Requests -> Futures]]
      BY DEF TypeInv, TypeOK
    <3> QED
      BY <3>1, <3>2, RegistryUpdate
  <2>2. pc' \in [Requests -> Labels]
    <3>1. pc' = [h \in Requests |-> IF h \in Waiters(p, r) THEN AfterReply(h, r) ELSE pcs[h]]
      BY <1>1 DEF SetResult
    <3>2. \A h \in Requests : AfterReply(h, r) \in Labels
      BY DEF AfterReply, Labels
    <3> QED
      BY <3>1, <3>2
  <2>3. result' \in [Requests -> {"null"} \union Results]
    <3>1. result' = [h \in Requests |->
                       IF h = r /\ h \in Waiters(p, r) THEN k ELSE result[h]]
      BY <1>1 DEF SetResult
    <3>2. result \in [Requests -> {"null"} \union Results]
      BY DEF TypeInv, TypeOK
    <3> QED
      BY <3>1, <3>2
  <2>4. ReplyKnown'
    <3> SUFFICES ASSUME NEW h \in Requests, pc'[h] \in Replying
                 PROVE  result'[h] \in Results
      BY DEF ReplyKnown
    <3>1. CASE h \in Waiters(p, r)
      BY <1>1, <3>1 DEF SetResult, AfterReply
    <3>2. CASE h \notin Waiters(p, r)
      BY <1>1, <3>2 DEF SetResult, ReplyKnown, TypeInv
    <3> QED
      BY <3>1, <3>2
  <2>5. ASSUME NEW h \in Requests
        PROVE  \/ pc'[h] = pcs[h]
               \/ pc[h] \in Waiting /\ pc'[h] \in {"claim", "lock2"}
    BY <1>1 DEF SetResult, AfterReply, Waiters
  <2> QED
    BY <2>1, <2>2, <2>3, <2>4, <2>5
<1>2. CASE registry[p][r] # "open"
  BY <1>2 DEF SetResult, TypeInv, TypeOK, ReplyKnown
<1> QED
  BY <1>1, <1>2

\* So does the beginning of a wait, which moves its handler only.
LEMMA StartWaitType ==
  ASSUME TypeInv, NEW h \in Requests, NEW r, NEW at \in Waiting, StartWait(h, r, at)
  PROVE  /\ pc' \in [Requests -> Labels]
         /\ result' \in [Requests -> {"null"} \union Results]
         /\ registry' \in [Pods -> [Requests -> Futures]]
         /\ ReplyKnown'
         /\ pc'[h] \in {"claim", "lock2", at}
         /\ \A g \in Requests \ {h} : pc'[g] = pc[g]
<1> DEFINE p == home[h]
           k == registry[p][r]
<1>1. registry' \in [Pods -> [Requests -> Futures]]
  <2>1. PICK v \in Futures : registry' = [registry EXCEPT ![p][r] = v]
    BY DEF StartWait, Futures
  <2>2. registry \in [Pods -> [Requests -> Futures]]
    BY DEF TypeInv, TypeOK
  <2> QED
    BY <2>1, <2>2, RegistryUpdate
<1>2. /\ pc \in [Requests -> Labels]
      /\ result \in [Requests -> {"null"} \union Results]
  BY DEF TypeInv, TypeOK
<1>3. /\ pc' \in [Requests -> Labels]
      /\ result' \in [Requests -> {"null"} \union Results]
      /\ pc'[h] \in {"claim", "lock2", at}
      /\ \A g \in Requests \ {h} : pc'[g] = pc[g]
  BY <1>2 DEF StartWait, AfterReply, Labels, Waiting
<1>4. ReplyKnown'
  <2>1. ReplyKnown /\ \A g \in Requests \ {h} : result'[g] = result[g]
    BY <1>2 DEF StartWait, TypeInv
  <2>2. pc'[h] = "claim" => result'[h] \in Results
    BY <1>2 DEF StartWait, AfterReply, Waiting
  <2> QED
    BY <1>3, <2>1, <2>2 DEF ReplyKnown, Waiting
<1> QED
  BY <1>1, <1>3, <1>4

\* So does a reclaim of the rows.
LEMMA ReclaimStuckType ==
  ASSUME TypeInv, ReclaimStuck
  PROVE  /\ status' \in [Requests -> Statuses]
         /\ owner' \in [Requests -> Pods \union {NoPod}]
         /\ reclaims' \in [Requests -> Nat]
BY DEF TypeInv, TypeOK, ReclaimStuck, ReclaimedStatus, Statuses

\* One component of a function replaced leaves it a function.
LEMMA Replaced ==
  ASSUME NEW S, NEW T, NEW f \in [S -> T], NEW x, NEW v \in T
  PROVE  [f EXCEPT ![x] = v] \in [S -> T]
OBVIOUS

\* What try_claim_event_for_processing sees.
LEMMA SeenType ==
  ASSUME NEW r \in Requests
  PROVE  /\ Seen(r, "done") \in {"take", "retake", "done"}
         /\ Seen(r, "gone") \in {"take", "retake", "gone"}
BY DEF Seen

\* A claim that is taken or settled.
LEMMA ClaimType ==
  ASSUME TypeInv, NEW r \in Requests, NEW c \in {"fresh", "settled"}, SetClaim(r, c)
  PROVE  /\ replyClaim' \in [Requests -> {"none", "fresh", "stale", "settled"}]
         /\ aged' \subseteq Requests
BY DEF SetClaim, TypeInv, TypeOK

\* A reply passed on, or not.
LEMMA ForwardType ==
  ASSUME TypeInv, NEW r \in Requests, NEW k \in Results, Forward(r, k)
  PROVE  forwarded' \in [Requests -> Seq(Results)]
<1>1. forwarded \in [Requests -> Seq(Results)]
  BY DEF TypeInv, TypeOK
<1>2. Append(forwarded[r], k) \in Seq(Results)
  BY <1>1
<1> QED
  BY <1>1, <1>2, Replaced DEF Forward

\* The steps of a handler that forwards its reply move it alone, among the labels
\* of a reply, or to its end.
LEMMA ReplySteps ==
  ASSUME TypeInv, NEW h \in Requests, ReplyStep(h)
  PROVE  /\ UNCHANGED <<rowVars, lock, home, target, result, registry, podVars, agentVars,
                        response, deliveryVars>>
         /\ pc[h] \in Replying
         /\ \E step \in {"take", "retake", "forward", "settle", "done"} :
              pc' = [pc EXCEPT ![h] = step]
<1>1. CASE ClaimReply(h)
  BY <1>1, SeenType DEF ClaimReply
<1>2. CASE TakeReply(h)
  BY <1>2 DEF TakeReply
<1>3. CASE ForwardReply(h) \/ SettleReply(h) \/ ReplyFails(h)
  BY <1>3 DEF ForwardReply, SettleReply, ReplyFails
<1> QED
  BY <1>1, <1>2, <1>3 DEF ReplyStep

\* So no other handler moves.
LEMMA ReplyMoves ==
  ASSUME TypeInv, NEW h \in Requests, ReplyStep(h)
  PROVE  /\ pc' \in [Requests -> Labels]
         /\ pc'[h] \in {"take", "retake", "forward", "settle", "done"}
         /\ \A g \in Requests \ {h} : pc'[g] = pc[g]
<1>1. PICK step \in {"take", "retake", "forward", "settle", "done"} :
        pc' = [pc EXCEPT ![h] = step]
  BY ReplySteps
<1> QED
  BY <1>1 DEF TypeInv, TypeOK, Labels, Ended

\* The steps of the deliveries move no handler of a request.
LEMMA EventSteps ==
  ASSUME EventStep
  PROVE  UNCHANGED <<rowVars, lock, handlerVars, podVars, agentVars>>
BY DEF EventStep, Deliver, TakeResponse, ForwardResponse, SettleResponse, ResponseFails, Age

\* A delivery that goes on, or ends.
LEMMA DeliveryType ==
  ASSUME TypeInv, NEW d \in Deliveries,
         \/ Drop({d})
         \/ \E step \in Stages : stage[d] \notin {"idle", "gone"} /\ GoOn(d, step)
  PROVE  /\ stage' \in [Deliveries -> Stages]
         /\ carried' \in [Deliveries -> Requests \union {NoRequest}]
         /\ carrier' \in [Deliveries -> Pods \union {NoPod}]
         /\ CarriedKnown'
<1>0. /\ stage \in [Deliveries -> Stages]
      /\ carried \in [Deliveries -> Requests \union {NoRequest}]
      /\ carrier \in [Deliveries -> Pods \union {NoPod}]
      /\ CarriedKnown
  BY DEF TypeInv, TypeOK
<1>1. CASE Drop({d})
  BY <1>0, <1>1 DEF Drop, Stages, CarriedKnown
<1>2. ASSUME NEW step \in Stages, stage[d] \notin {"idle", "gone"}, GoOn(d, step)
      PROVE  /\ stage' \in [Deliveries -> Stages] /\ CarriedKnown'
             /\ UNCHANGED <<carried, carrier>>
  BY <1>0, <1>2 DEF GoOn, CarriedKnown
<1> QED
  BY <1>0, <1>1, <1>2

\* The types of what a step of the deliveries changes.
LEMMA EventTypes ==
  ASSUME TypeInv, EventStep
  PROVE  /\ response' \in [Requests -> {"none", "inflight", "gone"}]
         /\ stage' \in [Deliveries -> Stages]
         /\ carried' \in [Deliveries -> Requests \union {NoRequest}]
         /\ carrier' \in [Deliveries -> Pods \union {NoPod}]
         /\ CarriedKnown'
         /\ replyClaim' \in [Requests -> {"none", "fresh", "stale", "settled"}]
         /\ aged' \subseteq Requests
         /\ forwarded' \in [Requests -> Seq(Results)]
<1> DEFINE Goal == /\ response' \in [Requests -> {"none", "inflight", "gone"}]
                   /\ stage' \in [Deliveries -> Stages]
                   /\ carried' \in [Deliveries -> Requests \union {NoRequest}]
                   /\ carrier' \in [Deliveries -> Pods \union {NoPod}]
                   /\ CarriedKnown'
                   /\ replyClaim' \in [Requests -> {"none", "fresh", "stale", "settled"}]
                   /\ aged' \subseteq Requests
                   /\ forwarded' \in [Requests -> Seq(Results)]
<1>0. /\ response \in [Requests -> {"none", "inflight", "gone"}]
      /\ stage \in [Deliveries -> Stages]
      /\ carried \in [Deliveries -> Requests \union {NoRequest}]
      /\ carrier \in [Deliveries -> Pods \union {NoPod}]
      /\ replyClaim \in [Requests -> {"none", "fresh", "stale", "settled"}]
      /\ aged \subseteq Requests
      /\ forwarded \in [Requests -> Seq(Results)]
      /\ CarriedKnown
  BY DEF TypeInv, TypeOK
<1>c. ASSUME NEW d \in Deliveries, stage[d] \notin {"idle", "gone"}
      PROVE  carried[d] \in Requests
  BY <1>0, <1>c DEF CarriedKnown
<1>1. ASSUME NEW d \in Deliveries, NEW p \in Pods, NEW r \in Requests, Deliver(d, p, r)
      PROVE  Goal
  <2>1. response' \in [Requests -> {"none", "inflight", "gone"}]
    BY <1>0, <1>1 DEF Deliver
  <2>2. UNCHANGED <<claimVars, forwarded>>
    BY <1>1 DEF Deliver
  <2>3. CASE Drop({d})
    BY <1>0, <2>1, <2>2, <2>3, DeliveryType
  <2>4. CASE ~Drop({d})
    <3>1. /\ Seen(r, "gone") \in {"take", "retake"}
          /\ stage' = [stage EXCEPT ![d] = Seen(r, "gone")]
          /\ carried' = [carried EXCEPT ![d] = r]
          /\ carrier' = [carrier EXCEPT ![d] = p]
      BY <1>1, <2>4, SeenType DEF Deliver
    <3>2. PICK step \in {"take", "retake"} : stage' = [stage EXCEPT ![d] = step]
      BY <3>1
    <3>3. /\ stage' \in [Deliveries -> Stages]
          /\ carried' \in [Deliveries -> Requests \union {NoRequest}]
          /\ carrier' \in [Deliveries -> Pods \union {NoPod}]
      BY <1>0, <3>1, <3>2 DEF Stages
    <3>4. CarriedKnown'
      BY <1>0, <3>1, <3>2 DEF CarriedKnown
    <3> QED
      BY <1>0, <2>1, <2>2, <3>3, <3>4
  <2> QED
    BY <2>3, <2>4
<1>2. ASSUME NEW d \in Deliveries, TakeResponse(d) PROVE Goal
  <2>1. carried[d] \in Requests
    BY <1>c, <1>2 DEF TakeResponse
  <2>2. Drop({d}) \/ GoOn(d, "store")
    BY <1>2 DEF TakeResponse
  <2>3. /\ replyClaim' \in [Requests -> {"none", "fresh", "stale", "settled"}]
        /\ aged' \subseteq Requests
    BY <1>0, <1>2, <2>1, ClaimType DEF TakeResponse, TakeIfGranted
  <2>4. UNCHANGED <<response, forwarded>>
    BY <1>2 DEF TakeResponse
  <2> QED
    BY <1>0, <1>2, <2>2, <2>3, <2>4, DeliveryType DEF TakeResponse, Stages
<1>3. ASSUME NEW d \in Deliveries, ForwardResponse(d) PROVE Goal
  <2>1. carried[d] \in Requests /\ "answer" \in Results
    BY <1>c, <1>3 DEF ForwardResponse, Results
  <2>2. forwarded' \in [Requests -> Seq(Results)]
    BY <1>3, <2>1, ForwardType DEF ForwardResponse
  <2> QED
    BY <1>0, <1>3, <2>2, DeliveryType DEF ForwardResponse, Stages
<1>4. ASSUME NEW d \in Deliveries, SettleResponse(d) PROVE Goal
  <2>1. carried[d] \in Requests
    BY <1>c, <1>4 DEF SettleResponse
  <2>2. /\ replyClaim' \in [Requests -> {"none", "fresh", "stale", "settled"}]
        /\ aged' \subseteq Requests
    BY <1>4, <2>1, ClaimType DEF SettleResponse
  <2> QED
    BY <1>0, <1>4, <2>2, DeliveryType DEF SettleResponse
<1>5. ASSUME NEW d \in Deliveries, ResponseFails(d) PROVE Goal
  <2>1. carried[d] \in Requests
    BY <1>c, <1>5 DEF ResponseFails
  <2>2. /\ replyClaim' \in [Requests -> {"none", "fresh", "stale", "settled"}]
        /\ aged' \subseteq Requests
    BY <1>0, <1>5, <2>1, ClaimType DEF ResponseFails
  <2> QED
    BY <1>0, <1>5, <2>2, DeliveryType DEF ResponseFails
<1>6. ASSUME NEW r \in Requests, Age(r) PROVE Goal
  <2>1. CarriedKnown'
    BY <1>0, <1>6 DEF Age, CarriedKnown
  <2> QED
    BY <1>0, <1>6, <2>1 DEF Age
<1> QED
  BY <1>1, <1>2, <1>3, <1>4, <1>5, <1>6 DEF EventStep

\* Every step keeps the types.
LEMMA TypeNext == TypeInv /\ [Next]_vars => TypeInv'
<1> SUFFICES ASSUME TypeInv, [Next]_vars PROVE TypeInv'
  OBVIOUS
<1>1. ASSUME NEW h \in Requests, NEW p \in Pods, Arrive(h, p) PROVE TypeInv'
  BY <1>1
  DEF Arrive, TypeInv, TypeOK, CarriedKnown, PodKnown, TargetKnown, ReplyKnown, Labels, Critical,
      Waiting, Ended
<1>2. ASSUME NEW h \in Requests, AcquireLock(h) PROVE TypeInv'
  BY <1>2
  DEF AcquireLock, TypeInv, TypeOK, CarriedKnown, PodKnown, TargetKnown, ReplyKnown, Labels,
      Critical, Waiting, Ended
<1>3. ASSUME NEW h \in Requests, BeginInsert(h) PROVE TypeInv'
  BY <1>3
  DEF BeginInsert, TypeInv, TypeOK, CarriedKnown, PodKnown, TargetKnown, ReplyKnown, Labels,
      Critical, Waiting, Ended
<1>4. ASSUME NEW h \in Requests, CommitInsert(h) PROVE TypeInv'
  <2>1. registry' \in [Pods -> [Requests -> Futures]]
    <3> DEFINE v == IF registry[home[h]][h] = "absent" THEN "open" ELSE registry[home[h]][h]
    <3>1. registry \in [Pods -> [Requests -> Futures]]
      BY DEF TypeInv, TypeOK, CarriedKnown
    <3>2. home[h] \in Pods
      BY <1>4 DEF CommitInsert, TypeInv, PodKnown
    <3>3. v \in Futures
      BY <3>1, <3>2 DEF Futures
    <3>4. registry' = [registry EXCEPT ![home[h]][h] = v]
      BY <1>4, <3>1, <3>2 DEF CommitInsert
    <3> QED
      BY <3>1, <3>3, <3>4, RegistryUpdate
  <2> QED
    BY <1>4, <2>1
    DEF CommitInsert, TypeInv, TypeOK, CarriedKnown, PodKnown, TargetKnown, ReplyKnown, Statuses,
        Labels, Critical
<1>5. ASSUME NEW h \in Requests, ReleaseLock(h) PROVE TypeInv'
  BY <1>5
  DEF ReleaseLock, TypeInv, TypeOK, CarriedKnown, PodKnown, TargetKnown, ReplyKnown, Labels,
      Critical, Waiting, Ended, SomeDequeued
<1>6. ASSUME NEW h \in Requests, LockTimeout(h) PROVE TypeInv'
  <2> DEFINE raised == [pc EXCEPT ![h] = "raised"]
  <2>1. "error" \in Results /\ raised \in [Requests -> Labels]
    BY DEF TypeInv, TypeOK, CarriedKnown, Labels, Ended, Results
  <2>2. PICK pcs \in [Requests -> Labels] : pcs = raised /\ SetResult(home[h], h, "error", pcs)
    BY <1>6, <2>1 DEF LockTimeout
  <2>3. \A g \in Requests : pcs[g] = pc[g] \/ (pcs[g] = "raised" /\ g = h)
    BY <2>2 DEF TypeInv, TypeOK, CarriedKnown
  <2>6. \A g \in Requests : pcs[g] \in Replying => pcs[g] = pc[g]
    BY <2>3
  <2> HIDE DEF raised
  <2>4. /\ pc' \in [Requests -> Labels]
        /\ result' \in [Requests -> {"null"} \union Results]
        /\ registry' \in [Pods -> [Requests -> Futures]]
        /\ ReplyKnown'
        /\ \A g \in Requests : \/ pc'[g] = pcs[g]
                               \/ pc[g] \in Waiting /\ pc'[g] \in {"claim", "lock2"}
    BY <2>1, <2>2, <2>6, SetResultType
  <2>5. PodKnown' /\ TargetKnown'
    BY <1>6, <2>3, <2>4 DEF LockTimeout, TypeInv, PodKnown, TargetKnown, Waiting
  <2>7. /\ status' \in [Requests -> Statuses]
        /\ content' \in [Requests -> {"null"} \union Results]
    BY <1>6 DEF LockTimeout, TypeInv, TypeOK, CarriedKnown, Statuses, Results
  <2> QED
    BY <1>6, <2>4, <2>5, <2>7 DEF LockTimeout, TypeInv, TypeOK, CarriedKnown
<1>7. ASSUME NEW h \in Requests, StatementFails(h) PROVE TypeInv'
  BY <1>7
  DEF StatementFails, TypeInv, TypeOK, CarriedKnown, PodKnown, TargetKnown, ReplyKnown, Labels,
      Critical, Waiting, Ended
<1>8. ASSUME NEW h \in Requests, ReclaimSession(h) PROVE TypeInv'
  BY <1>8, ReclaimStuckType
  DEF ReclaimSession, ReclaimStuck, TypeInv, TypeOK, CarriedKnown, PodKnown, TargetKnown, ReplyKnown,
      Labels, Critical
<1>9. ASSUME NEW h \in Requests, Dequeue(h) PROVE TypeInv'
  <2> PICK r \in Requests : /\ status' = [status EXCEPT ![r] = "processing"]
                           /\ owner' = [owner EXCEPT ![r] = home[h]]
                           /\ dequeues' = [dequeues EXCEPT ![r] = @ + 1]
                           /\ target' = [target EXCEPT ![h] = r]
    BY <1>9 DEF Dequeue
  <2>1. status' \in [Requests -> Statuses] /\ owner' \in [Requests -> Pods \union {NoPod}]
    BY <1>9 DEF Dequeue, TypeInv, TypeOK, CarriedKnown, Statuses, PodKnown
  <2>4. dequeues' \in [Requests -> Nat]
    BY DEF TypeInv, TypeOK, CarriedKnown
  <2>5. target' \in [Requests -> Requests \union {NoRequest}] /\ pc' \in [Requests -> Labels]
    BY <1>9 DEF Dequeue, TypeInv, TypeOK, CarriedKnown, Labels, Critical
  <2>2. TypeOK'
    BY <1>9, <2>1, <2>4, <2>5 DEF Dequeue, TypeInv, TypeOK, CarriedKnown
  <2>3. PodKnown' /\ TargetKnown' /\ ReplyKnown' /\ CarriedKnown'
    BY <1>9 DEF Dequeue, TypeInv, TypeOK, PodKnown, TargetKnown, ReplyKnown, CarriedKnown
  <2> QED
    BY <2>2, <2>3 DEF TypeInv
<1>10. ASSUME NEW h \in Requests, NothingPending(h) PROVE TypeInv'
  BY <1>10
  DEF NothingPending, TypeInv, TypeOK, CarriedKnown, PodKnown, TargetKnown, ReplyKnown, Labels,
      Critical, Waiting, Ended
<1>11. ASSUME NEW h \in Requests, Join(h) PROVE TypeInv'
  <2>1. /\ pc' \in [Requests -> Labels]
        /\ result' \in [Requests -> {"null"} \union Results]
        /\ registry' \in [Pods -> [Requests -> Futures]]
        /\ ReplyKnown'
        /\ pc'[h] \in {"claim", "lock2", "await"}
        /\ \A g \in Requests \ {h} : pc'[g] = pc[g]
    BY <1>11, StartWaitType DEF Join, Waiting
  <2>2. PodKnown' /\ TargetKnown'
    BY <1>11, <2>1 DEF Join, TypeInv, TypeOK, CarriedKnown, PodKnown, TargetKnown
  <2> QED
    BY <1>11, <2>1, <2>2 DEF Join, TypeInv, TypeOK, CarriedKnown, TargetKnown
<1>12. ASSUME NEW h \in Requests, Send(h) PROVE TypeInv'
  <2>1. /\ pc' \in [Requests -> Labels]
        /\ result' \in [Requests -> {"null"} \union Results]
        /\ registry' \in [Pods -> [Requests -> Futures]]
        /\ ReplyKnown'
        /\ pc'[h] \in {"claim", "lock2", "wait"}
        /\ \A g \in Requests \ {h} : pc'[g] = pc[g]
    BY <1>12, StartWaitType DEF Send, Waiting
  <2>2. PodKnown' /\ TargetKnown'
    BY <1>12, <2>1 DEF Send, TypeInv, TypeOK, CarriedKnown, PodKnown, TargetKnown
  <2> QED
    BY <1>12, <2>1, <2>2 DEF Send, TypeInv, TypeOK, CarriedKnown, TargetKnown
<1>13. ASSUME NEW h \in Requests, SendFails(h) PROVE TypeInv'
  BY <1>13
  DEF SendFails, TypeInv, TypeOK, CarriedKnown, PodKnown, TargetKnown, ReplyKnown, Labels, Critical,
      Waiting, Ended
<1>14. ASSUME NEW h \in Requests, WaitTimeout(h) PROVE TypeInv'
  <2>1. registry' \in [Pods -> [Requests -> Futures]]
    <3>1. registry \in [Pods -> [Requests -> Futures]]
      BY DEF TypeInv, TypeOK, CarriedKnown
    <3> QED
      BY <1>14, <3>1, RegistryUpdate DEF WaitTimeout, Futures
  <2>2. /\ pc' \in [Requests -> Labels]
        /\ \A g \in Requests :
             \/ pc'[g] = pc[g]
             \/ pc[g] \in Waiting /\ pc'[g] \in {"raised", "timedout", "cancelled"}
    BY <1>14 DEF WaitTimeout, TypeInv, TypeOK, CarriedKnown, Labels, Ended, Waiters
  <2> QED
    BY <1>14, <2>1, <2>2
    DEF WaitTimeout, TypeInv, TypeOK, CarriedKnown, PodKnown, TargetKnown, ReplyKnown, Waiting
<1>15. ASSUME NEW h \in Requests, FailTarget(h) PROVE TypeInv'
  <2>1. CASE target[h] = h /\ pc[h] = "timedout"
    <3> DEFINE raised == [pc EXCEPT ![h] = "raised"]
    <3>1. "error" \in Results /\ raised \in [Requests -> Labels]
      BY DEF TypeInv, TypeOK, CarriedKnown, Labels, Ended, Results
    <3>2. PICK pcs \in [Requests -> Labels] : pcs = raised /\ SetResult(home[h], h, "error", pcs)
      BY <1>15, <2>1, <3>1 DEF FailTarget
    <3>3. \A g \in Requests : pcs[g] = pc[g] \/ (pcs[g] = "raised" /\ g = h)
      BY <3>2 DEF TypeInv, TypeOK, CarriedKnown
    <3>6. \A g \in Requests : pcs[g] \in Replying => pcs[g] = pc[g]
      BY <3>3
    <3> HIDE DEF raised
    <3>4. /\ pc' \in [Requests -> Labels]
          /\ result' \in [Requests -> {"null"} \union Results]
          /\ registry' \in [Pods -> [Requests -> Futures]]
          /\ ReplyKnown'
          /\ \A g \in Requests : \/ pc'[g] = pcs[g]
                                 \/ pc[g] \in Waiting /\ pc'[g] \in {"claim", "lock2"}
      BY <3>1, <3>2, <3>6, SetResultType
    <3>5. PodKnown' /\ TargetKnown'
      BY <1>15, <3>3, <3>4 DEF FailTarget, TypeInv, PodKnown, TargetKnown, Waiting
    <3> QED
      BY <1>15, <3>4, <3>5 DEF FailTarget, TypeInv, TypeOK, CarriedKnown, Statuses, Results
  <2>2. CASE ~(target[h] = h /\ pc[h] = "timedout")
    <3>1. /\ pc' = [pc EXCEPT ![h] = IF target[h] = h THEN "raised" ELSE "lock2"]
          /\ UNCHANGED <<registry, result, home, target>>
      BY <1>15, <2>2 DEF FailTarget
    <3>2. /\ status' \in [Requests -> Statuses]
          /\ content' \in [Requests -> {"null"} \union Results]
          /\ pc' \in [Requests -> Labels]
      BY <1>15, <3>1 DEF FailTarget, TypeInv, TypeOK, CarriedKnown, Statuses, Results, Labels, Ended
    <3>3. TypeOK'
      BY <1>15, <3>1, <3>2 DEF FailTarget, TypeInv, TypeOK, CarriedKnown
    <3>4. PodKnown' /\ TargetKnown' /\ ReplyKnown' /\ CarriedKnown'
      BY <1>15, <3>1
      DEF FailTarget, TypeInv, TypeOK, PodKnown, TargetKnown, ReplyKnown, CarriedKnown
    <3> QED
      BY <3>3, <3>4 DEF TypeInv
  <2> QED
    BY <2>1, <2>2
<1>16. ASSUME NEW h \in Requests, ReplyStep(h) PROVE TypeInv'
  <2>1. /\ UNCHANGED <<rowVars, lock, home, target, result, registry, podVars, agentVars,
                      response, deliveryVars>>
        /\ pc[h] \in Replying
    BY <1>16, ReplySteps
  <2>2. /\ pc' \in [Requests -> Labels]
        /\ pc'[h] \in {"take", "retake", "forward", "settle", "done"}
        /\ \A g \in Requests \ {h} : pc'[g] = pc[g]
    BY <1>16, ReplyMoves
  <2>3. /\ replyClaim' \in [Requests -> {"none", "fresh", "stale", "settled"}]
        /\ aged' \subseteq Requests
    <3>1. CASE UNCHANGED claimVars
      BY <3>1 DEF TypeInv, TypeOK, CarriedKnown
    <3>2. CASE SetClaim(h, "fresh") \/ SetClaim(h, "settled")
      BY <3>2, ClaimType
    <3> QED
      BY <1>16, <3>1, <3>2
      DEF ReplyStep, ClaimReply, TakeReply, TakeIfGranted, ForwardReply, SettleReply, ReplyFails
  <2>4. forwarded' \in [Requests -> Seq(Results)]
    <3>1. CASE forwarded' = forwarded
      BY <3>1 DEF TypeInv, TypeOK, CarriedKnown
    <3>2. CASE Forward(h, result[h])
      <4>1. result[h] \in Results
        BY <2>1 DEF TypeInv, ReplyKnown
      <4> QED
        BY <3>2, <4>1, ForwardType
    <3> QED
      BY <1>16, <3>1, <3>2
      DEF ReplyStep, ClaimReply, TakeReply, ForwardReply, SettleReply, ReplyFails
  <2>5. PodKnown' /\ TargetKnown' /\ ReplyKnown' /\ CarriedKnown'
    BY <2>1, <2>2 DEF TypeInv, PodKnown, TargetKnown, ReplyKnown, CarriedKnown
  <2> QED
    BY <2>1, <2>2, <2>3, <2>4, <2>5 DEF TypeInv, TypeOK, CarriedKnown
<1>17. ASSUME EventStep PROVE TypeInv'
  <2>1. UNCHANGED <<rowVars, lock, handlerVars, podVars, agentVars>>
    BY <1>17, EventSteps
  <2>2. PodKnown' /\ TargetKnown' /\ ReplyKnown' /\ CarriedKnown'
    BY <1>17, <2>1, EventTypes DEF TypeInv, PodKnown, TargetKnown, ReplyKnown
  <2> QED
    BY <1>17, <2>1, <2>2, EventTypes DEF TypeInv, TypeOK, CarriedKnown
<1>18. ASSUME NEW p \in Pods, NEW r \in Requests, Poll(p, r) PROVE TypeInv'
  <2>1. "error" \in Results /\ "answer" \in Results
    BY DEF Results
  <2>4. pc \in [Requests -> Labels] /\ content[r] \in Results
    BY <1>18 DEF TypeInv, TypeOK, CarriedKnown, Labels, Ended, Results, Poll, AnsweredRow
  <2>2. /\ pc' \in [Requests -> Labels]
        /\ result' \in [Requests -> {"null"} \union Results]
        /\ registry' \in [Pods -> [Requests -> Futures]]
        /\ ReplyKnown'
        /\ \A g \in Requests : \/ pc'[g] = pc[g]
                               \/ pc[g] \in Waiting /\ pc'[g] \in {"claim", "lock2"}
    BY <1>18, <2>1, <2>4, SetResultType DEF Poll
  <2>3. PodKnown' /\ TargetKnown'
    BY <1>18, <2>2 DEF Poll, TypeInv, TypeOK, CarriedKnown, PodKnown, TargetKnown, Waiting
  <2> QED
    BY <1>18, <2>2, <2>3 DEF Poll, TypeInv, TypeOK, CarriedKnown, Statuses, Results
<1>19. ASSUME NEW p \in Pods, BackgroundReclaim(p) PROVE TypeInv'
  BY <1>19, ReclaimStuckType
  DEF BackgroundReclaim, ReclaimStuck, TypeInv, TypeOK, CarriedKnown, PodKnown, TargetKnown, ReplyKnown
<1>20. ASSUME NEW d \in Deliveries, ResolveResponse(d) PROVE TypeInv'
  <2>1. "answer" \in Results /\ carried[d] \in Requests /\ pc \in [Requests -> Labels]
    BY <1>20 DEF ResolveResponse, Results, TypeInv, TypeOK, CarriedKnown
  <2>2. /\ pc' \in [Requests -> Labels]
        /\ result' \in [Requests -> {"null"} \union Results]
        /\ registry' \in [Pods -> [Requests -> Futures]]
        /\ ReplyKnown'
        /\ \A g \in Requests : \/ pc'[g] = pc[g]
                               \/ pc[g] \in Waiting /\ pc'[g] \in {"claim", "lock2"}
    BY <1>20, <2>1, SetResultType DEF ResolveResponse
  <2>3. PodKnown' /\ TargetKnown'
    BY <1>20, <2>2 DEF ResolveResponse, TypeInv, TypeOK, CarriedKnown, PodKnown, TargetKnown, Waiting
  <2>4. /\ stage' \in [Deliveries -> Stages]
        /\ carried' \in [Deliveries -> Requests \union {NoRequest}]
        /\ carrier' \in [Deliveries -> Pods \union {NoPod}]
        /\ CarriedKnown'
    BY <1>20, DeliveryType DEF ResolveResponse, Stages
  <2> QED
    BY <1>20, <2>2, <2>3, <2>4 DEF ResolveResponse, TypeInv, TypeOK, CarriedKnown
<1>21. ASSUME NEW d \in Deliveries, StoreResponse(d) PROVE TypeInv'
  <2>1. /\ status' \in [Requests -> Statuses]
        /\ content' \in [Requests -> {"null"} \union Results]
    <3>1. /\ status \in [Requests -> Statuses] /\ "completed" \in Statuses
          /\ content \in [Requests -> {"null"} \union Results] /\ "answer" \in Results
          /\ carried[d] \in Requests
      BY <1>21 DEF StoreResponse, TypeInv, TypeOK, CarriedKnown, Statuses, Results
    <3>2. CASE UNCHANGED <<status, content>>
      BY <3>1, <3>2
    <3>3. CASE /\ status' = [status EXCEPT ![carried[d]] = "completed"]
               /\ content' = [content EXCEPT ![carried[d]] = "answer"]
      BY <3>1, <3>3
    <3> QED
      BY <1>21, <3>2, <3>3 DEF StoreResponse
  <2>2. /\ stage' \in [Deliveries -> Stages]
        /\ carried' \in [Deliveries -> Requests \union {NoRequest}]
        /\ carrier' \in [Deliveries -> Pods \union {NoPod}]
        /\ CarriedKnown'
    BY <1>21, DeliveryType DEF StoreResponse, Stages
  <2>3. PodKnown' /\ TargetKnown' /\ ReplyKnown'
    BY <1>21 DEF StoreResponse, TypeInv, PodKnown, TargetKnown, ReplyKnown
  <2> QED
    BY <1>21, <2>1, <2>2, <2>3 DEF StoreResponse, TypeInv, TypeOK, CarriedKnown
<1>22. ASSUME NEW r \in Requests, AgentAnswers(r) PROVE TypeInv'
  <2>1. status' \in [Requests -> Statuses]
    <3>1. \E s \in {"completed", "failed"} : status' = [status EXCEPT ![r] = s]
      BY <1>22 DEF AgentAnswers
    <3> QED
      BY <3>1 DEF TypeInv, TypeOK, CarriedKnown, Statuses
  <2>2. response' \in [Requests -> {"none", "inflight", "gone"}]
    BY <1>22 DEF AgentAnswers, TypeInv, TypeOK, CarriedKnown
  <2> QED
    BY <1>22, <2>1, <2>2
    DEF AgentAnswers, TypeInv, TypeOK, CarriedKnown, PodKnown, TargetKnown, ReplyKnown, Results
<1>23. ASSUME NEW r \in Requests, EventDropped(r) PROVE TypeInv'
  BY <1>23
  DEF EventDropped, TypeInv, TypeOK, CarriedKnown, PodKnown, TargetKnown, ReplyKnown, Labels,
      Critical, Waiting, Ended
<1>24. ASSUME NEW p \in Pods, Heartbeat(p) PROVE TypeInv'
  BY <1>24
  DEF Heartbeat, TypeInv, TypeOK, CarriedKnown, PodKnown, TargetKnown, ReplyKnown, Labels, Critical,
      Waiting, Ended
<1>25. ASSUME NEW p \in Pods, GraceExpires(p) PROVE TypeInv'
  BY <1>25
  DEF GraceExpires, TypeInv, TypeOK, CarriedKnown, PodKnown, TargetKnown, ReplyKnown, Labels,
      Critical, Waiting, Ended
<1>26. ASSUME NEW p \in Pods, Crash(p) PROVE TypeInv'
  <2>1. registry' \in [Pods -> [Requests -> Futures]]
    BY <1>26 DEF Crash, TypeInv, TypeOK, CarriedKnown, Futures
  <2>2. /\ stage' \in [Deliveries -> Stages]
        /\ carried' \in [Deliveries -> Requests \union {NoRequest}]
        /\ carrier' \in [Deliveries -> Pods \union {NoPod}]
        /\ CarriedKnown'
    BY <1>26 DEF Crash, Drop, TypeInv, TypeOK, CarriedKnown, Stages
  <2>3. /\ pc' \in [Requests -> Labels]
        /\ \A h \in Requests : pc'[h] = pc[h] \/ (pc'[h] = "lost" /\ home[h] = p)
    <3>1. pc \in [Requests -> Labels] /\ "lost" \in Labels
      BY DEF TypeInv, TypeOK, CarriedKnown, Labels, Ended
    <3>2. pc' = [h \in Requests |-> IF home[h] = p /\ pc[h] \notin Ended THEN "lost" ELSE pc[h]]
      BY <1>26 DEF Crash
    <3>3. ASSUME NEW h \in Requests
          PROVE  /\ pc'[h] \in Labels
                 /\ pc'[h] = pc[h] \/ (pc'[h] = "lost" /\ home[h] = p)
      BY <3>1, <3>2
    <3> QED
      BY <3>2, <3>3
  <2>4. up' \in [Pods -> BOOLEAN] /\ lock' \in Requests \union {NoRequest}
    BY <1>26 DEF Crash, TypeInv, TypeOK, CarriedKnown
  <2> QED
    BY <1>26, <2>1, <2>2, <2>3, <2>4
    DEF Crash, TypeInv, TypeOK, CarriedKnown, PodKnown, TargetKnown, ReplyKnown
<1>27. CASE UNCHANGED vars
  BY <1>27 DEF vars, TypeInv, TypeOK, PodKnown, TargetKnown, ReplyKnown, CarriedKnown
<1> QED
  BY <1>1, <1>2, <1>3, <1>4, <1>5, <1>6, <1>7, <1>8, <1>9, <1>10, <1>11, <1>12,
     <1>13, <1>14, <1>15, <1>16, <1>17, <1>18, <1>19, <1>20, <1>21, <1>22,
     <1>23, <1>24, <1>25, <1>26, <1>27
  DEF Next, HandlerStep, PodStep, ResponseStep, AgentStep, Environment, ReplyStep,
      EventStep

\* Type correctness, for every value of the constants.
THEOREM TypeCorrect == Spec => []TypeOK
<1>1. Init => TypeInv
  BY TypeInit
<1>2. TypeInv /\ [Next]_vars => TypeInv'
  BY TypeNext
<1>3. TypeInv => TypeOK
  BY DEF TypeInv
<1> QED
  BY <1>1, <1>2, <1>3, PTL DEF Spec

-----------------------------------------------------------------------------
(***************************************************************************)
(* The steps that move several handlers at once move none in or out of a   *)
(* critical section.                                                       *)
(***************************************************************************)
Moved ==
  \A g \in Requests :
    \/ pc'[g] = pc[g]
    \/ pc[g] \in {"lock1", "lock2"} /\ pc'[g] = "raised"
    \/ /\ pc[g] \in {"join", "send", "unsent", "wait", "await", "timedout"}
       /\ pc'[g] \in {"lock2", "claim", "wait", "await", "timedout", "raised",
                      "cancelled"}

\* set_result leaves the others at pcs and sends waiters on.
LEMMA SetResultMoved ==
  ASSUME TypeInv, NEW p, NEW r, NEW k, NEW pcs \in [Requests -> Labels],
         SetResult(p, r, k, pcs), NEW g \in Requests
  PROVE  \/ pc'[g] = pcs[g]
         \/ pc[g] \in {"wait", "await"} /\ pc'[g] \in {"claim", "lock2"}
BY DEF SetResult, AfterReply, Waiters, Waiting

\* A poll wakes waiters only.
LEMMA PollMoved ==
  ASSUME TypeInv, NEW p \in Pods, NEW r \in Requests, Poll(p, r)
  PROVE  Moved
<1>1. pc \in [Requests -> Labels]
  BY DEF TypeInv, TypeOK
<1> QED
  BY <1>1, SetResultMoved DEF Poll, Moved

\* So does the event path.
LEMMA ResolveResponseMoved ==
  ASSUME TypeInv, NEW d \in Deliveries, ResolveResponse(d)
  PROVE  Moved
<1>1. pc \in [Requests -> Labels]
  BY DEF TypeInv, TypeOK
<1> QED
  BY <1>1, SetResultMoved DEF ResolveResponse, Moved

\* A lock timeout ends its handler and may wake waiters.
LEMMA LockTimeoutMoved ==
  ASSUME TypeInv, NEW h \in Requests, LockTimeout(h)
  PROVE  Moved
<1> DEFINE raised == [pc EXCEPT ![h] = "raised"]
<1>1. raised \in [Requests -> Labels]
  BY DEF TypeInv, TypeOK, Labels, Ended
<1>2. PICK pcs \in [Requests -> Labels] : pcs = raised /\ SetResult(home[h], h, "error", pcs)
  BY <1>1 DEF LockTimeout
<1>3. \A g \in Requests : pcs[g] = pc[g] \/ (pcs[g] = "raised" /\ g = h)
  BY <1>2 DEF TypeInv, TypeOK
<1> HIDE DEF raised
<1>4. pc[h] \in {"lock1", "lock2"}
  BY DEF LockTimeout
<1> QED
  BY <1>2, <1>3, <1>4, SetResultMoved DEF Moved

\* So does the failure of the row a handler sent.
LEMMA FailTargetMoved ==
  ASSUME TypeInv, NEW h \in Requests, FailTarget(h)
  PROVE  Moved
<1>1. pc[h] \in {"unsent", "timedout"}
  BY DEF FailTarget
<1>2. CASE target[h] = h /\ pc[h] = "timedout"
  <2> DEFINE raised == [pc EXCEPT ![h] = "raised"]
  <2>1. raised \in [Requests -> Labels]
    BY DEF TypeInv, TypeOK, Labels, Ended
  <2>2. PICK pcs \in [Requests -> Labels] : pcs = raised /\ SetResult(home[h], h, "error", pcs)
    BY <1>2, <2>1 DEF FailTarget
  <2>3. \A g \in Requests : pcs[g] = pc[g] \/ (pcs[g] = "raised" /\ g = h)
    BY <2>2 DEF TypeInv, TypeOK
  <2> HIDE DEF raised
  <2> QED
    BY <1>1, <2>2, <2>3, SetResultMoved DEF Moved
<1>3. CASE ~(target[h] = h /\ pc[h] = "timedout")
  BY <1>1, <1>3 DEF FailTarget, Moved, TypeInv, TypeOK
<1> QED
  BY <1>2, <1>3

\* A wait that times out cancels those that share its future.
LEMMA WaitTimeoutMoved ==
  ASSUME TypeInv, NEW h \in Requests, WaitTimeout(h)
  PROVE  Moved
BY DEF WaitTimeout, Moved, Waiters, Waiting, TypeInv, TypeOK

\* A handler that starts to wait moves alone.
LEMMA StartWaitMoved ==
  ASSUME TypeInv, NEW h \in Requests, Join(h) \/ Send(h)
  PROVE  Moved
BY DEF Join, Send, StartWait, AfterReply, Moved, TypeInv, TypeOK

\* A pod that stops ends its handlers.
LEMMA CrashMoves ==
  ASSUME NEW p \in Pods, Crash(p)
  PROVE  \A h \in Requests : pc'[h] = pc[h] \/ pc'[h] = "lost"
BY DEF Crash

-----------------------------------------------------------------------------
(***************************************************************************)
(* Mutual exclusion.                                                       *)
(***************************************************************************)
\* At first nobody holds the lock.
LEMMA LockHolderInit == Init => LockHolder
<1> SUFFICES ASSUME Init, NEW h \in Requests PROVE ~(pc[h] \in Critical) /\ lock # h
  BY DEF LockHolder
<1> QED
  BY ConstantsAssumption DEF Init, Critical

\* Every step keeps the exclusion, a crash and a failed statement too.
LEMMA LockHolderNext == TypeInv /\ LockHolder /\ [Next]_vars => LockHolder'
<1> SUFFICES ASSUME TypeInv, LockHolder, [Next]_vars PROVE LockHolder'
  OBVIOUS
<1>1. ASSUME NEW h \in Requests, NEW p \in Pods, Arrive(h, p) PROVE LockHolder'
  BY <1>1 DEF Arrive, LockHolder, Critical, Ended, TypeInv, TypeOK
<1>2. ASSUME NEW h \in Requests, AcquireLock(h) PROVE LockHolder'
  BY <1>2, ConstantsAssumption DEF AcquireLock, LockFree, LockHolder, Critical, TypeInv, TypeOK
<1>3. ASSUME NEW h \in Requests, BeginInsert(h) PROVE LockHolder'
  BY <1>3 DEF BeginInsert, LockHolder, Critical, Ended, TypeInv, TypeOK
<1>4. ASSUME NEW h \in Requests, CommitInsert(h) PROVE LockHolder'
  BY <1>4 DEF CommitInsert, LockHolder, Critical, Ended, TypeInv, TypeOK
<1>5. ASSUME NEW h \in Requests, ReleaseLock(h) PROVE LockHolder'
  BY <1>5, ConstantsAssumption DEF ReleaseLock, LockHolder, Critical, TypeInv, TypeOK
<1>6. ASSUME NEW h \in Requests, LockTimeout(h) PROVE LockHolder'
  <2>1. Moved /\ lock' = lock
    BY <1>6, LockTimeoutMoved DEF LockTimeout
  <2> QED
    BY <2>1 DEF LockHolder, Moved, Critical
<1>7. ASSUME NEW h \in Requests, StatementFails(h) PROVE LockHolder'
  BY <1>7, ConstantsAssumption DEF StatementFails, LockHolder, Critical, TypeInv, TypeOK
<1>8. ASSUME NEW h \in Requests, ReclaimSession(h) PROVE LockHolder'
  BY <1>8 DEF ReclaimSession, LockHolder, Critical, Ended, TypeInv, TypeOK
<1>9. ASSUME NEW h \in Requests, Dequeue(h) PROVE LockHolder'
  BY <1>9 DEF Dequeue, LockHolder, Critical, Ended, TypeInv, TypeOK
<1>10. ASSUME NEW h \in Requests, NothingPending(h) PROVE LockHolder'
  BY <1>10 DEF NothingPending, LockHolder, Critical, Ended, TypeInv, TypeOK
<1>11. ASSUME NEW h \in Requests, Join(h) PROVE LockHolder'
  <2>1. Moved /\ lock' = lock
    BY <1>11, StartWaitMoved DEF Join
  <2> QED
    BY <2>1 DEF LockHolder, Moved, Critical
<1>12. ASSUME NEW h \in Requests, Send(h) PROVE LockHolder'
  <2>1. Moved /\ lock' = lock
    BY <1>12, StartWaitMoved DEF Send
  <2> QED
    BY <2>1 DEF LockHolder, Moved, Critical
<1>13. ASSUME NEW h \in Requests, SendFails(h) PROVE LockHolder'
  BY <1>13 DEF SendFails, LockHolder, Critical, Ended, TypeInv, TypeOK
<1>14. ASSUME NEW h \in Requests, WaitTimeout(h) PROVE LockHolder'
  <2>1. Moved /\ lock' = lock
    BY <1>14, WaitTimeoutMoved DEF WaitTimeout
  <2> QED
    BY <2>1 DEF LockHolder, Moved, Critical
<1>15. ASSUME NEW h \in Requests, FailTarget(h) PROVE LockHolder'
  <2>1. Moved /\ lock' = lock
    BY <1>15, FailTargetMoved DEF FailTarget
  <2> QED
    BY <2>1 DEF LockHolder, Moved, Critical
<1>16. ASSUME NEW h \in Requests, ReplyStep(h) PROVE LockHolder'
  <2>1. lock' = lock /\ pc[h] \in Replying
    BY <1>16, ReplySteps
  <2> QED
    BY <1>16, <2>1, ReplyMoves DEF LockHolder, Critical
<1>17. ASSUME EventStep PROVE LockHolder'
  BY <1>17, EventSteps DEF LockHolder
<1>18. ASSUME NEW p \in Pods, NEW r \in Requests, Poll(p, r) PROVE LockHolder'
  <2>1. Moved /\ lock' = lock
    BY <1>18, PollMoved DEF Poll
  <2> QED
    BY <2>1 DEF LockHolder, Moved, Critical
<1>19. ASSUME NEW p \in Pods, BackgroundReclaim(p) PROVE LockHolder'
  BY <1>19 DEF BackgroundReclaim, LockHolder
<1>20. ASSUME NEW d \in Deliveries, ResolveResponse(d) PROVE LockHolder'
  <2>1. Moved /\ lock' = lock
    BY <1>20, ResolveResponseMoved DEF ResolveResponse
  <2> QED
    BY <2>1 DEF LockHolder, Moved, Critical
<1>21. ASSUME NEW d \in Deliveries, StoreResponse(d) PROVE LockHolder'
  BY <1>21 DEF StoreResponse, LockHolder
<1>22. ASSUME NEW r \in Requests, AgentAnswers(r) PROVE LockHolder'
  BY <1>22 DEF AgentAnswers, LockHolder
<1>23. ASSUME NEW r \in Requests, EventDropped(r) PROVE LockHolder'
  BY <1>23 DEF EventDropped, LockHolder
<1>24. ASSUME NEW p \in Pods, Heartbeat(p) PROVE LockHolder'
  BY <1>24 DEF Heartbeat, LockHolder
<1>25. ASSUME NEW p \in Pods, GraceExpires(p) PROVE LockHolder'
  BY <1>25 DEF GraceExpires, LockHolder
<1>26. ASSUME NEW p \in Pods, Crash(p) PROVE LockHolder'
  <2> SUFFICES ASSUME NEW h \in Requests
               PROVE  pc'[h] \in Critical <=> lock' = h
    BY DEF LockHolder
  <2>1. "lost" \notin Critical /\ Critical \intersect Ended = {}
    BY DEF Critical, Ended
  <2>2. pc'[h] = IF home[h] = p /\ pc[h] \notin Ended THEN "lost" ELSE pc[h]
    BY <1>26 DEF Crash
  <2>3. lock' = IF lock \in Requests /\ home[lock] = p THEN NoRequest ELSE lock
    BY <1>26 DEF Crash
  <2> QED
    BY <2>1, <2>2, <2>3, ConstantsAssumption DEF LockHolder
<1>27. CASE UNCHANGED vars
  BY <1>27 DEF vars, LockHolder
<1> QED
  BY <1>1, <1>2, <1>3, <1>4, <1>5, <1>6, <1>7, <1>8, <1>9, <1>10, <1>11, <1>12,
     <1>13, <1>14, <1>15, <1>16, <1>17, <1>18, <1>19, <1>20, <1>21, <1>22,
     <1>23, <1>24, <1>25, <1>26, <1>27
  DEF Next, HandlerStep, PodStep, ResponseStep, AgentStep, Environment, ReplyStep,
      EventStep

\* The handlers in a critical section of the session lock are the one that
\* holds it: with_session_lock excludes, and releases on every exit, whatever
\* times out, raises or crashes.
THEOREM MutualExclusion == Spec => []LockHolder
<1>1. Init => TypeInv /\ LockHolder
  BY TypeInit, LockHolderInit
<1>2. TypeInv /\ LockHolder /\ [Next]_vars => (TypeInv /\ LockHolder)'
  BY TypeNext, LockHolderNext
<1> QED
  BY <1>1, <1>2, PTL DEF Spec

-----------------------------------------------------------------------------
(***************************************************************************)
(* The rows.  A row exists once its handler has passed CommitInsert; until *)
(* then nobody can dequeue, send or answer it.                             *)
(***************************************************************************)
BeforeRow == {"new", "lock1", "insert", "commit"}

RowMissing == \A h \in Requests : pc[h] \in BeforeRow => status[h] = "none"
RowExists ==
  \A h \in Requests : pc[h] \notin BeforeRow \union Ended => status[h] # "none"
MissingUntouched ==
  \A r \in Requests :
    status[r] = "none" => /\ dequeues[r] = 0
                          /\ content[r] = "null"
                          /\ response[r] = "none"
                          /\ \A d \in Deliveries : carried[d] # r
                          /\ r \notin events
                          /\ \A h \in Requests : target[h] # r
\* A row is dequeued once more than it was reclaimed while it is processing.
Counted ==
  \A r \in Requests :
    /\ dequeues[r] <= 1 + reclaims[r]
    /\ status[r] \in {"none", "pending"} => dequeues[r] <= reclaims[r]
    /\ status[r] = "processing" => dequeues[r] > 0

RowInv == RowMissing /\ RowExists /\ MissingUntouched /\ Counted /\ OpenRowUnanswered

\* No handler passes CommitInsert in this step.
NoRowPassed ==
  \A h \in Requests :
    /\ pc'[h] \in BeforeRow => pc[h] \in BeforeRow
    /\ pc'[h] \in BeforeRow \union Ended \/ pc[h] \notin BeforeRow \union Ended

\* The steps that move several handlers pass nobody.
LEMMA MovedPassesNone == Moved => NoRowPassed
BY DEF Moved, NoRowPassed, BeforeRow, Ended

\* A step that leaves the rows alone keeps RowInv if no handler passes
\* CommitInsert and nothing touches a missing row.
LEMMA RowFrame ==
  ASSUME RowInv, UNCHANGED rowVars,
         NoRowPassed,
         \A h \in Requests : \/ target'[h] = target[h]
                             \/ target'[h] = NoRequest
                             \/ status[target'[h]] # "none",
         \A r \in Requests : response'[r] = response[r] \/ status[r] # "none",
         \A d \in Deliveries : \/ carried'[d] = carried[d]
                               \/ carried'[d] = NoRequest
                               \/ status[carried'[d]] # "none",
         \A r \in Requests : r \in events' => r \in events \/ status[r] # "none"
  PROVE  RowInv'
<1>1. RowMissing' /\ RowExists' /\ Counted' /\ OpenRowUnanswered'
  BY DEF NoRowPassed, RowInv, RowMissing, RowExists, Counted, OpenRowUnanswered
<1>2. MissingUntouched'
  BY ConstantsAssumption DEF RowInv, MissingUntouched
<1> QED
  BY <1>1, <1>2 DEF RowInv

\* Every step keeps the rows in order.
LEMMA RowNext == TypeInv /\ RowInv /\ [Next]_vars => RowInv'
<1> SUFFICES ASSUME TypeInv, RowInv, [Next]_vars PROVE RowInv'
  OBVIOUS
<1>1. ASSUME NEW h \in Requests, NEW p \in Pods, Arrive(h, p) PROVE RowInv'
  BY <1>1, RowFrame
  DEF NoRowPassed, Arrive, RowInv, BeforeRow, Ended, TypeInv, TypeOK
<1>2. ASSUME NEW h \in Requests, AcquireLock(h) PROVE RowInv'
  BY <1>2, RowFrame
  DEF NoRowPassed, AcquireLock, RowInv, BeforeRow, Ended, TypeInv, TypeOK
<1>3. ASSUME NEW h \in Requests, BeginInsert(h) PROVE RowInv'
  BY <1>3
  DEF BeginInsert, RowInv, RowMissing, RowExists, MissingUntouched, Counted,
      OpenRowUnanswered, BeforeRow, Ended, TypeInv, TypeOK
<1>4. ASSUME NEW h \in Requests, CommitInsert(h) PROVE RowInv'
  BY <1>4
  DEF CommitInsert, RowInv, RowMissing, RowExists, MissingUntouched, Counted,
      OpenRowUnanswered, BeforeRow, Ended, TypeInv, TypeOK
<1>5. ASSUME NEW h \in Requests, ReleaseLock(h) PROVE RowInv'
  BY <1>5, RowFrame
  DEF NoRowPassed, ReleaseLock, RowInv, BeforeRow, Ended, TypeInv, TypeOK
<1>6. ASSUME NEW h \in Requests, LockTimeout(h) PROVE RowInv'
  <2>1. Moved
    BY <1>6, LockTimeoutMoved
  <2>2. NoRowPassed
    BY <2>1, MovedPassesNone
  <2>3. \A q \in Requests :
          /\ status'[q] = "none" <=> status[q] = "none"
          /\ status'[q] = status[q] \/ status'[q] \in Terminal
          /\ status[q] = "none" => content'[q] = content[q] /\ response'[q] = response[q]
          /\ content'[q] = content[q] \/ status'[q] \in Terminal
    BY <1>6 DEF LockTimeout, Terminal, TypeInv, TypeOK, TargetKnown, RowInv, MissingUntouched
  <2>4. RowMissing' /\ RowExists'
    BY <2>2, <2>3 DEF NoRowPassed, RowInv, RowMissing, RowExists
  <2>5. MissingUntouched'
    BY <1>6, <2>3 DEF LockTimeout, RowInv, MissingUntouched
  <2>6. Counted'
    BY <1>6, <2>3 DEF LockTimeout, RowInv, Counted, Terminal
  <2>7. OpenRowUnanswered'
    BY <2>3 DEF RowInv, OpenRowUnanswered, Terminal
  <2> QED
    BY <2>4, <2>5, <2>6, <2>7 DEF RowInv
<1>7. ASSUME NEW h \in Requests, StatementFails(h) PROVE RowInv'
  BY <1>7, RowFrame
  DEF NoRowPassed, StatementFails, RowInv, BeforeRow, Ended, TypeInv, TypeOK
<1>8. ASSUME NEW h \in Requests, ReclaimSession(h) PROVE RowInv'
  <2>1. \A r \in Requests :
          /\ status'[r] = "none" <=> status[r] = "none"
          /\ status'[r] \in {"pending", "processing"} =>
               status[r] \in {"pending", "processing"}
    BY <1>8, ConstantsAssumption
    DEF ReclaimSession, ReclaimStuck, ReclaimedStatus, Stuck, TypeInv, TypeOK
  <2>2. RowMissing' /\ RowExists' /\ MissingUntouched' /\ OpenRowUnanswered'
    BY <1>8, <2>1
    DEF ReclaimSession, ReclaimStuck, RowInv, RowMissing, RowExists, MissingUntouched,
                  OpenRowUnanswered, BeforeRow, Ended, TypeInv, TypeOK
  <2>3. Counted'
    BY <1>8, ConstantsAssumption
    DEF ReclaimSession, ReclaimStuck, ReclaimedStatus, Stuck, RowInv, Counted, TypeInv,
        TypeOK
  <2> QED
    BY <2>2, <2>3 DEF RowInv
<1>9. ASSUME NEW h \in Requests, Dequeue(h) PROVE RowInv'
  <2>0. PICK q \in Requests :
           /\ OldestPending(q)
           /\ status' = [status EXCEPT ![q] = "processing"]
           /\ dequeues' = [dequeues EXCEPT ![q] = @ + 1]
           /\ target' = [target EXCEPT ![h] = q]
    BY <1>9 DEF Dequeue
  <2>1. status[q] = "pending"
    BY <2>0 DEF OldestPending, Pending
  <2>2. RowMissing' /\ RowExists'
    BY <1>9, <2>0, <2>1 DEF Dequeue, RowInv, RowMissing, RowExists, BeforeRow, Ended, TypeInv, TypeOK
  <2>3. MissingUntouched' /\ OpenRowUnanswered'
    <3>1. /\ MissingUntouched /\ OpenRowUnanswered
          /\ UNCHANGED <<content, response, carried, events>>
      BY <1>9 DEF Dequeue, RowInv, agentVars, replyVars
    <3>2. /\ status'[q] = "processing"
          /\ \A r \in Requests : r # q => status'[r] = status[r] /\ dequeues'[r] = dequeues[r]
      BY <2>0 DEF TypeInv, TypeOK
    <3>3. ASSUME NEW r \in Requests, status'[r] = "none"
          PROVE  /\ dequeues'[r] = 0 /\ content'[r] = "null"
                 /\ response'[r] = "none" /\ \A d \in Deliveries : carried'[d] # r
                 /\ r \notin events' /\ \A g \in Requests : target'[g] # r
      <4>1. r # q
        BY <3>2, <3>3
      <4>2. status[r] = "none" /\ dequeues'[r] = dequeues[r]
        BY <3>2, <3>3, <4>1
      <4>3. \A g \in Requests : target[g] # r
        BY <3>1, <4>2 DEF MissingUntouched
      <4>4. \A g \in Requests : target'[g] # r
        BY <2>0, <4>1, <4>3 DEF TypeInv, TypeOK
      <4> QED
        BY <3>1, <4>2, <4>4 DEF MissingUntouched
    <3>4. OpenRowUnanswered'
      BY <2>1, <3>1, <3>2 DEF OpenRowUnanswered
    <3>5. MissingUntouched'
      BY <3>3 DEF MissingUntouched
    <3> QED
      BY <3>4, <3>5
  <2>4. Counted'
    <3>1. /\ dequeues \in [Requests -> Nat]
          /\ reclaims \in [Requests -> Nat] /\ reclaims' = reclaims
          /\ status \in [Requests -> Statuses]
      BY <1>9 DEF Dequeue, TypeInv, TypeOK
    <3>2. Counted
      BY DEF RowInv
    <3> QED
      BY <2>0, <2>1, <3>1, <3>2 DEF Counted
  <2> QED
    BY <2>2, <2>3, <2>4 DEF RowInv
<1>10. ASSUME NEW h \in Requests, NothingPending(h) PROVE RowInv'
  BY <1>10, RowFrame
  DEF NoRowPassed, NothingPending, RowInv, BeforeRow, Ended, TypeInv, TypeOK
<1>11. ASSUME NEW h \in Requests, Join(h) PROVE RowInv'
  <2>1. Moved /\ status[h] # "none"
    BY <1>11, StartWaitMoved DEF Join, RowInv, RowExists, BeforeRow, Ended
  <2>2. NoRowPassed
    BY <2>1, MovedPassesNone
  <2> QED
    BY <1>11, <2>1, <2>2, RowFrame DEF Join, TypeInv, TypeOK
<1>12. ASSUME NEW h \in Requests, Send(h) PROVE RowInv'
  <2>1. Moved /\ status[target[h]] # "none"
    BY <1>12, StartWaitMoved DEF Send, RowInv, MissingUntouched, TypeInv, TargetKnown
  <2>2. NoRowPassed
    BY <2>1, MovedPassesNone
  <2> QED
    BY <1>12, <2>1, <2>2, RowFrame DEF Send
<1>13. ASSUME NEW h \in Requests, SendFails(h) PROVE RowInv'
  <2>1. status[target[h]] # "none"
    BY <1>13 DEF SendFails, RowInv, MissingUntouched, TypeInv, TargetKnown
  <2> QED
    BY <1>13, <2>1, RowFrame DEF NoRowPassed, SendFails, BeforeRow, Ended, TypeInv, TypeOK
<1>14. ASSUME NEW h \in Requests, WaitTimeout(h) PROVE RowInv'
  <2>1. Moved
    BY <1>14, WaitTimeoutMoved
  <2>2. NoRowPassed
    BY <2>1, MovedPassesNone
  <2> QED
    BY <1>14, <2>2, RowFrame DEF WaitTimeout
<1>15. ASSUME NEW h \in Requests, FailTarget(h) PROVE RowInv'
  <2>1. Moved
    BY <1>15, FailTargetMoved
  <2>2. NoRowPassed
    BY <2>1, MovedPassesNone
  <2>3. \A q \in Requests :
          /\ status'[q] = "none" <=> status[q] = "none"
          /\ status'[q] = status[q] \/ status'[q] \in Terminal
          /\ status[q] = "none" => content'[q] = content[q] /\ response'[q] = response[q]
          /\ content'[q] = content[q] \/ status'[q] \in Terminal
    BY <1>15 DEF FailTarget, Terminal, TypeInv, TypeOK, TargetKnown, RowInv, MissingUntouched
  <2>4. RowMissing' /\ RowExists'
    BY <2>2, <2>3 DEF NoRowPassed, RowInv, RowMissing, RowExists
  <2>5. MissingUntouched'
    BY <1>15, <2>3 DEF FailTarget, RowInv, MissingUntouched
  <2>6. Counted'
    BY <1>15, <2>3 DEF FailTarget, RowInv, Counted, Terminal
  <2>7. OpenRowUnanswered'
    BY <2>3 DEF RowInv, OpenRowUnanswered, Terminal
  <2> QED
    BY <2>4, <2>5, <2>6, <2>7 DEF RowInv
<1>16. ASSUME NEW h \in Requests, ReplyStep(h) PROVE RowInv'
  <2>1. NoRowPassed
    BY <1>16, ReplySteps, ReplyMoves DEF NoRowPassed, BeforeRow, Ended
  <2> QED
    BY <1>16, <2>1, ReplySteps, RowFrame
<1>17. ASSUME EventStep PROVE RowInv'
  <2>1. UNCHANGED <<rowVars, lock, handlerVars, podVars, agentVars>>
    BY <1>17, EventSteps
  <2>2. CASE UNCHANGED <<response, carried>>
    BY <2>1, <2>2, RowFrame DEF NoRowPassed
  <2>3. ASSUME NEW d \in Deliveries, Drop({d}), response' = response PROVE RowInv'
    BY <2>1, <2>3, RowFrame DEF NoRowPassed, Drop
  <2>4. ASSUME NEW d \in Deliveries, NEW p \in Pods, NEW r \in Requests, Deliver(d, p, r)
        PROVE  RowInv'
    <3>1. status[r] # "none"
      BY <2>4 DEF Deliver, RowInv, MissingUntouched
    <3>2. \A q \in Requests : response'[q] = response[q] \/ q = r
      BY <2>4 DEF Deliver, TypeInv, TypeOK
    <3>3. \A e \in Deliveries : carried'[e] \in {carried[e], NoRequest, r}
      BY <2>4 DEF Deliver, Drop, TypeInv, TypeOK
    <3> QED
      BY <2>1, <3>1, <3>2, <3>3, RowFrame DEF NoRowPassed
  <2> QED
    BY <1>17, <2>2, <2>3, <2>4
    DEF EventStep, TakeResponse, ForwardResponse, SettleResponse, ResponseFails, Age, GoOn
<1>18. ASSUME NEW p \in Pods, NEW r \in Requests, Poll(p, r) PROVE RowInv'
  <2>1. Moved
    BY <1>18, PollMoved
  <2>2. NoRowPassed
    BY <2>1, MovedPassesNone
  <2> QED
    BY <1>18, <2>2, RowFrame DEF Poll
<1>19. ASSUME NEW p \in Pods, BackgroundReclaim(p) PROVE RowInv'
  <2>1. \A r \in Requests :
          /\ status'[r] = "none" <=> status[r] = "none"
          /\ status'[r] \in {"pending", "processing"} =>
               status[r] \in {"pending", "processing"}
    BY <1>19, ConstantsAssumption
    DEF BackgroundReclaim, ReclaimStuck, ReclaimedStatus, Stuck, TypeInv, TypeOK
  <2>2. RowMissing' /\ RowExists' /\ MissingUntouched' /\ OpenRowUnanswered'
    BY <1>19, <2>1
    DEF BackgroundReclaim, ReclaimStuck, RowInv, RowMissing, RowExists,
        MissingUntouched,
                  OpenRowUnanswered, BeforeRow, Ended, TypeInv, TypeOK
  <2>3. Counted'
    BY <1>19, ConstantsAssumption
    DEF BackgroundReclaim, ReclaimStuck, ReclaimedStatus, Stuck, RowInv, Counted,
        TypeInv, TypeOK
  <2> QED
    BY <2>2, <2>3 DEF RowInv
<1>20. ASSUME NEW d \in Deliveries, ResolveResponse(d) PROVE RowInv'
  <2>1. NoRowPassed
    BY <1>20, ResolveResponseMoved, MovedPassesNone
  <2> QED
    BY <1>20, <2>1, RowFrame DEF ResolveResponse, GoOn
<1>21. ASSUME NEW d \in Deliveries, StoreResponse(d) PROVE RowInv'
  <2>1. status[carried[d]] # "none" /\ carried[d] \in Requests
    BY <1>21 DEF StoreResponse, RowInv, MissingUntouched, TypeInv, CarriedKnown
  <2>2. UNCHANGED <<handlerVars, dequeues, reclaims, response, carried, events>>
    BY <1>21 DEF StoreResponse, GoOn
  <2>3. \A q \in Requests :
          /\ status'[q] = "none" <=> status[q] = "none"
          /\ status'[q] = status[q] \/ status'[q] \in Terminal
          /\ status[q] = "none" => content'[q] = content[q]
          /\ content'[q] = content[q] \/ status'[q] \in Terminal
    BY <1>21, <2>1 DEF StoreResponse, Terminal, TypeInv, TypeOK
  <2>4. RowMissing' /\ RowExists'
    BY <2>2, <2>3 DEF RowInv, RowMissing, RowExists
  <2>5. MissingUntouched'
    BY <2>2, <2>3 DEF RowInv, MissingUntouched
  <2>6. Counted'
    BY <2>2, <2>3 DEF RowInv, Counted, Terminal
  <2>7. OpenRowUnanswered'
    BY <2>3 DEF RowInv, OpenRowUnanswered, Terminal
  <2> QED
    BY <2>4, <2>5, <2>6, <2>7 DEF RowInv
<1>22. ASSUME NEW r \in Requests, AgentAnswers(r) PROVE RowInv'
  <2>1. status[r] # "none"
    BY <1>22 DEF AgentAnswers, RowInv, MissingUntouched
  <2>2. /\ UNCHANGED <<handlerVars, dequeues, reclaims, carried>>
        /\ \A q \in Requests : response'[q] = response[q] \/ q = r
        /\ events' \subseteq events
    BY <1>22 DEF AgentAnswers, TypeInv, TypeOK
  <2>3. \A q \in Requests :
          /\ status'[q] = "none" <=> status[q] = "none"
          /\ status'[q] = status[q] \/ status'[q] \in Terminal
          /\ status[q] = "none" => content'[q] = content[q]
          /\ content'[q] = content[q] \/ status'[q] \in Terminal
    BY <1>22, <2>1 DEF AgentAnswers, Terminal, TypeInv, TypeOK
  <2>4. RowMissing' /\ RowExists'
    BY <2>2, <2>3 DEF RowInv, RowMissing, RowExists
  <2>5. MissingUntouched'
    BY <2>1, <2>2, <2>3 DEF RowInv, MissingUntouched
  <2>6. Counted'
    BY <2>2, <2>3 DEF RowInv, Counted, Terminal
  <2>7. OpenRowUnanswered'
    BY <2>3 DEF RowInv, OpenRowUnanswered, Terminal
  <2> QED
    BY <2>4, <2>5, <2>6, <2>7 DEF RowInv
<1>23. ASSUME NEW r \in Requests, EventDropped(r) PROVE RowInv'
  BY <1>23, RowFrame DEF NoRowPassed, EventDropped
<1>24. ASSUME NEW p \in Pods, Heartbeat(p) PROVE RowInv'
  BY <1>24, RowFrame DEF NoRowPassed, Heartbeat
<1>25. ASSUME NEW p \in Pods, GraceExpires(p) PROVE RowInv'
  BY <1>25, RowFrame DEF NoRowPassed, GraceExpires
<1>26. ASSUME NEW p \in Pods, Crash(p) PROVE RowInv'
  <2>1. NoRowPassed
    BY <1>26, CrashMoves DEF NoRowPassed, BeforeRow, Ended
  <2>2. \A d \in Deliveries : carried'[d] = carried[d] \/ carried'[d] = NoRequest
    BY <1>26 DEF Crash, Drop
  <2> QED
    BY <1>26, <2>1, <2>2, RowFrame DEF Crash
<1>27. CASE UNCHANGED vars
  BY <1>27, RowFrame DEF NoRowPassed, vars
<1> QED
  BY <1>1, <1>2, <1>3, <1>4, <1>5, <1>6, <1>7, <1>8, <1>9, <1>10, <1>11, <1>12,
     <1>13, <1>14, <1>15, <1>16, <1>17, <1>18, <1>19, <1>20, <1>21, <1>22,
     <1>23, <1>24, <1>25, <1>26, <1>27
  DEF Next, HandlerStep, PodStep, ResponseStep, AgentStep, Environment, ReplyStep,
      EventStep

\* At first there is no row.
LEMMA RowInit == Init => RowInv
BY ConstantsAssumption
DEF Init, RowInv, RowMissing, RowExists, MissingUntouched, Counted, OpenRowUnanswered, BeforeRow, Ended

\* So RowInv holds throughout.
LEMMA RowCorrect == Spec => [](TypeInv /\ RowInv)
<1>1. Init => TypeInv /\ RowInv
  BY TypeInit, RowInit
<1>2. TypeInv /\ RowInv /\ [Next]_vars => (TypeInv /\ RowInv)'
  BY TypeNext, RowNext
<1> QED
  BY <1>1, <1>2, PTL DEF Spec

\* No dequeue of a row is driven twice: a second dequeue takes a reclaim,
\* however the session lock, the background reclaim and late answers interleave.
THEOREM NoSilentRedelivery == Spec => []RedeliveryOnlyAfterReclaim
<1>1. RowInv => RedeliveryOnlyAfterReclaim
  BY DEF RowInv, Counted, RedeliveryOnlyAfterReclaim
<1> QED
  BY <1>1, RowCorrect, PTL

\* A row that waits for its turn or its answer has no response text, so no
\* poller takes the text of an earlier attempt for its answer.
THEOREM OpenRowsUnanswered == Spec => []OpenRowUnanswered
<1>1. RowInv => OpenRowUnanswered
  BY DEF RowInv
<1> QED
  BY <1>1, RowCorrect, PTL

TerminalKept == \A r \in Requests : status[r] \in Terminal => status'[r] \in Terminal

\* No step reopens a finished row.
LEMMA TerminalNext == TypeInv /\ RowInv /\ [Next]_vars => TerminalKept
<1> SUFFICES ASSUME TypeInv, RowInv, [Next]_vars PROVE TerminalKept
  OBVIOUS
<1>1. ASSUME NEW h \in Requests, NEW p \in Pods, Arrive(h, p) PROVE TerminalKept
  BY <1>1 DEF Arrive, TerminalKept
<1>2. ASSUME NEW h \in Requests, AcquireLock(h) PROVE TerminalKept
  BY <1>2 DEF AcquireLock, TerminalKept
<1>3. ASSUME NEW h \in Requests, BeginInsert(h) PROVE TerminalKept
  BY <1>3 DEF BeginInsert, TerminalKept
<1>4. ASSUME NEW h \in Requests, CommitInsert(h) PROVE TerminalKept
  <2>1. status[h] = "none"
    BY <1>4 DEF CommitInsert, TerminalKept, RowInv, RowMissing, BeforeRow
  <2> QED
    BY <1>4, <2>1 DEF CommitInsert, TerminalKept, Terminal, TypeInv, TypeOK
<1>5. ASSUME NEW h \in Requests, ReleaseLock(h) PROVE TerminalKept
  BY <1>5 DEF ReleaseLock, TerminalKept
<1>6. ASSUME NEW h \in Requests, LockTimeout(h) PROVE TerminalKept
  BY <1>6 DEF LockTimeout, TerminalKept, Terminal, TypeInv, TypeOK
<1>7. ASSUME NEW h \in Requests, StatementFails(h) PROVE TerminalKept
  BY <1>7 DEF StatementFails, TerminalKept
<1>8. ASSUME NEW h \in Requests, ReclaimSession(h) PROVE TerminalKept
  BY <1>8 DEF ReclaimSession, TerminalKept, ReclaimStuck, Stuck, Terminal, TypeInv, TypeOK
<1>9. ASSUME NEW h \in Requests, Dequeue(h) PROVE TerminalKept
  BY <1>9 DEF Dequeue, TerminalKept, OldestPending, Pending, Terminal, TypeInv, TypeOK
<1>10. ASSUME NEW h \in Requests, NothingPending(h) PROVE TerminalKept
  BY <1>10 DEF NothingPending, TerminalKept
<1>11. ASSUME NEW h \in Requests, Join(h) PROVE TerminalKept
  BY <1>11 DEF Join, TerminalKept
<1>12. ASSUME NEW h \in Requests, Send(h) PROVE TerminalKept
  BY <1>12 DEF Send, TerminalKept
<1>13. ASSUME NEW h \in Requests, SendFails(h) PROVE TerminalKept
  BY <1>13 DEF SendFails, TerminalKept
<1>14. ASSUME NEW h \in Requests, WaitTimeout(h) PROVE TerminalKept
  BY <1>14 DEF WaitTimeout, TerminalKept
<1>15. ASSUME NEW h \in Requests, FailTarget(h) PROVE TerminalKept
  BY <1>15 DEF FailTarget, TerminalKept, Terminal, TypeInv, TypeOK
<1>16. ASSUME NEW h \in Requests, ReplyStep(h) PROVE TerminalKept
  BY <1>16, ReplySteps DEF TerminalKept
<1>17. ASSUME EventStep PROVE TerminalKept
  BY <1>17, EventSteps DEF TerminalKept
<1>18. ASSUME NEW p \in Pods, NEW r \in Requests, Poll(p, r) PROVE TerminalKept
  BY <1>18 DEF Poll, TerminalKept
<1>19. ASSUME NEW p \in Pods, BackgroundReclaim(p) PROVE TerminalKept
  BY <1>19 DEF BackgroundReclaim, TerminalKept, ReclaimStuck, Stuck, Terminal, TypeInv, TypeOK
<1>20. ASSUME NEW d \in Deliveries, ResolveResponse(d) PROVE TerminalKept
  BY <1>20 DEF ResolveResponse, TerminalKept
<1>21. ASSUME NEW d \in Deliveries, StoreResponse(d) PROVE TerminalKept
  BY <1>21 DEF StoreResponse, TerminalKept, Terminal, TypeInv, TypeOK
<1>22. ASSUME NEW r \in Requests, AgentAnswers(r) PROVE TerminalKept
  BY <1>22 DEF AgentAnswers, TerminalKept, Terminal, TypeInv, TypeOK
<1>23. ASSUME NEW r \in Requests, EventDropped(r) PROVE TerminalKept
  BY <1>23 DEF EventDropped, TerminalKept
<1>24. ASSUME NEW p \in Pods, Heartbeat(p) PROVE TerminalKept
  BY <1>24 DEF Heartbeat, TerminalKept
<1>25. ASSUME NEW p \in Pods, GraceExpires(p) PROVE TerminalKept
  BY <1>25 DEF GraceExpires, TerminalKept
<1>26. ASSUME NEW p \in Pods, Crash(p) PROVE TerminalKept
  BY <1>26 DEF Crash, TerminalKept
<1>27. CASE UNCHANGED vars
  BY <1>27 DEF vars, TerminalKept
<1> QED
  BY <1>1, <1>2, <1>3, <1>4, <1>5, <1>6, <1>7, <1>8, <1>9, <1>10, <1>11, <1>12,
     <1>13, <1>14, <1>15, <1>16, <1>17, <1>18, <1>19, <1>20, <1>21, <1>22,
     <1>23, <1>24, <1>25, <1>26, <1>27
  DEF Next, HandlerStep, PodStep, ResponseStep, AgentStep, Environment, ReplyStep,
      EventStep

\* A completed or failed row is never reopened, by no reclaim, dequeue, late
\* timeout or late answer.
THEOREM TerminalRowsStay == Spec => TerminalStays
<1>1. TypeInv /\ RowInv /\ [Next]_vars => [TerminalKept]_vars
  BY TerminalNext
<1> QED
  BY <1>1, RowCorrect, PTL DEF Spec, TerminalStays, TerminalKept

-----------------------------------------------------------------------------
(***************************************************************************)
(* The order of the session.                                               *)
(***************************************************************************)
\* created_at values are taken from a clock that moves on; a row about to
\* commit is the newest, for the session lock kept other INSERTs out.
ClockAhead == \A r \in Requests : createdAt[r] < clock
CommitsNewest ==
  \A h \in Requests : pc[h] = "commit"
    => \A r \in Requests \ {h} : createdAt[r] < createdAt[h]

OrderInv == ClockAhead /\ CommitsNewest /\ NoOvertaking

\* A step that assigns no created_at, dequeues nothing and adds no row.
LEMMA OrderFrame ==
  ASSUME RowInv, OrderInv, UNCHANGED <<createdAt, clock, dequeues>>,
         \A h \in Requests : pc'[h] = "commit" => pc[h] = "commit",
         \A r \in Requests : \/ status'[r] = status[r]
                             \/ status'[r] \in Terminal
                             \/ status[r] = "processing"
  PROVE  OrderInv'
<1>1. ClockAhead' /\ CommitsNewest'
  BY DEF OrderInv, ClockAhead, CommitsNewest
<1>2. NoOvertaking'
  BY DEF OrderInv, NoOvertaking, RowInv, Counted, Terminal
<1> QED
  BY <1>1, <1>2 DEF OrderInv

\* Every step keeps the order.
LEMMA OrderNext == TypeInv /\ LockHolder /\ RowInv /\ OrderInv /\ [Next]_vars => OrderInv'
<1> SUFFICES ASSUME TypeInv, LockHolder, RowInv, OrderInv, [Next]_vars PROVE OrderInv'
  OBVIOUS
<1>1. ASSUME NEW h \in Requests, NEW p \in Pods, Arrive(h, p) PROVE OrderInv'
  BY <1>1, OrderFrame DEF Arrive, TypeInv, TypeOK
<1>2. ASSUME NEW h \in Requests, AcquireLock(h) PROVE OrderInv'
  BY <1>2, OrderFrame DEF AcquireLock, TypeInv, TypeOK
<1>3. ASSUME NEW h \in Requests, BeginInsert(h) PROVE OrderInv'
  <2>1. /\ createdAt' = [createdAt EXCEPT ![h] = clock] /\ clock' = clock + 1
        /\ createdAt \in [Requests -> Nat] /\ clock \in Nat
        /\ pc \in [Requests -> Labels] /\ pc' = [pc EXCEPT ![h] = "commit"]
    BY <1>3 DEF BeginInsert, TypeInv, TypeOK
  <2>2. ClockAhead'
    BY <2>1 DEF OrderInv, ClockAhead
  <2>3. \A g \in Requests \ {h} : pc[g] # "commit"
    BY <1>3 DEF BeginInsert, LockHolder, Critical
  <2>4. CommitsNewest'
    BY <2>1, <2>3 DEF OrderInv, ClockAhead, CommitsNewest
  <2>5. dequeues[h] = 0 /\ status[h] = "none"
    BY <1>3 DEF BeginInsert, RowInv, RowMissing, MissingUntouched, BeforeRow
  <2>6. NoOvertaking'
    BY <1>3, <2>1, <2>5 DEF BeginInsert, OrderInv, NoOvertaking
  <2> QED
    BY <2>2, <2>4, <2>6 DEF OrderInv
<1>4. ASSUME NEW h \in Requests, CommitInsert(h) PROVE OrderInv'
  <2>1. ClockAhead' /\ CommitsNewest'
    BY <1>4 DEF CommitInsert, OrderInv, ClockAhead, CommitsNewest, TypeInv, TypeOK
  <2>2. dequeues[h] = 0 /\ status[h] = "none"
    BY <1>4 DEF CommitInsert, RowInv, RowMissing, MissingUntouched, BeforeRow
  <2>3. \A r \in Requests \ {h} : ~(createdAt[h] < createdAt[r])
    BY <1>4 DEF CommitInsert, OrderInv, CommitsNewest, TypeInv, TypeOK
  <2>4. \A r \in Requests \ {h} : status'[r] = status[r]
    BY <1>4 DEF CommitInsert, TypeInv, TypeOK
  <2>5. NoOvertaking'
    BY <1>4, <2>2, <2>3, <2>4 DEF CommitInsert, OrderInv, NoOvertaking
  <2> QED
    BY <2>1, <2>5 DEF OrderInv
<1>5. ASSUME NEW h \in Requests, ReleaseLock(h) PROVE OrderInv'
  BY <1>5, OrderFrame DEF ReleaseLock, TypeInv, TypeOK
<1>6. ASSUME NEW h \in Requests, LockTimeout(h) PROVE OrderInv'
  <2>1. \A g \in Requests : pc'[g] = "commit" => pc[g] = "commit"
    BY <1>6, LockTimeoutMoved DEF Moved
  <2> QED
    BY <1>6, <2>1, OrderFrame DEF LockTimeout, Terminal, TypeInv, TypeOK
<1>7. ASSUME NEW h \in Requests, StatementFails(h) PROVE OrderInv'
  BY <1>7, OrderFrame DEF StatementFails, TypeInv, TypeOK
<1>8. ASSUME NEW h \in Requests, ReclaimSession(h) PROVE OrderInv'
  BY <1>8, OrderFrame DEF ReclaimSession, ReclaimStuck, Stuck, TypeInv, TypeOK
<1>9. ASSUME NEW h \in Requests, Dequeue(h) PROVE OrderInv'
  <2> PICK q \in Requests : /\ OldestPending(q)
                           /\ status' = [status EXCEPT ![q] = "processing"]
                           /\ dequeues' = [dequeues EXCEPT ![q] = @ + 1]
    BY <1>9 DEF Dequeue
  <2>1. ClockAhead' /\ CommitsNewest'
    BY <1>9 DEF Dequeue, OrderInv, ClockAhead, CommitsNewest, TypeInv, TypeOK
  <2>2. /\ status \in [Requests -> Statuses] /\ dequeues \in [Requests -> Nat]
        /\ createdAt \in [Requests -> Nat] /\ createdAt' = createdAt
    BY <1>9 DEF Dequeue, TypeInv, TypeOK
  <2> SUFFICES ASSUME NEW i \in Requests, NEW j \in Requests, dequeues'[j] > 0,
                      status'[i] # "none", createdAt[i] < createdAt[j]
               PROVE  dequeues'[i] > 0 \/ status'[i] \in Terminal
    BY <2>1, <2>2 DEF OrderInv, NoOvertaking
  <2>3. CASE i = q
    BY <2>2, <2>3
  <2>4. CASE i # q /\ j = q
    <3>1. status[i] # "pending" /\ status[i] # "none"
      BY <2>2, <2>4 DEF OldestPending, Pending
    <3> QED
      BY <2>2, <2>4, <3>1 DEF Statuses, Terminal, RowInv, Counted
  <2>5. CASE i # q /\ j # q
    BY <2>2, <2>5 DEF OrderInv, NoOvertaking
  <2> QED
    BY <2>3, <2>4, <2>5
<1>10. ASSUME NEW h \in Requests, NothingPending(h) PROVE OrderInv'
  BY <1>10, OrderFrame DEF NothingPending, TypeInv, TypeOK
<1>11. ASSUME NEW h \in Requests, Join(h) PROVE OrderInv'
  <2>1. \A g \in Requests : pc'[g] = "commit" => pc[g] = "commit"
    BY <1>11, StartWaitMoved DEF Moved
  <2> QED
    BY <1>11, <2>1, OrderFrame DEF Join
<1>12. ASSUME NEW h \in Requests, Send(h) PROVE OrderInv'
  <2>1. \A g \in Requests : pc'[g] = "commit" => pc[g] = "commit"
    BY <1>12, StartWaitMoved DEF Moved
  <2> QED
    BY <1>12, <2>1, OrderFrame DEF Send
<1>13. ASSUME NEW h \in Requests, SendFails(h) PROVE OrderInv'
  BY <1>13, OrderFrame DEF SendFails, TypeInv, TypeOK
<1>14. ASSUME NEW h \in Requests, WaitTimeout(h) PROVE OrderInv'
  <2>1. \A g \in Requests : pc'[g] = "commit" => pc[g] = "commit"
    BY <1>14, WaitTimeoutMoved DEF Moved
  <2> QED
    BY <1>14, <2>1, OrderFrame DEF WaitTimeout
<1>15. ASSUME NEW h \in Requests, FailTarget(h) PROVE OrderInv'
  <2>1. \A g \in Requests : pc'[g] = "commit" => pc[g] = "commit"
    BY <1>15, FailTargetMoved DEF Moved
  <2> QED
    BY <1>15, <2>1, OrderFrame DEF FailTarget, Terminal, TypeInv, TypeOK
<1>16. ASSUME NEW h \in Requests, ReplyStep(h) PROVE OrderInv'
  <2>1. \A g \in Requests : pc'[g] = "commit" => pc[g] = "commit"
    BY <1>16, ReplyMoves
  <2> QED
    BY <1>16, <2>1, ReplySteps, OrderFrame
<1>17. ASSUME EventStep PROVE OrderInv'
  BY <1>17, EventSteps, OrderFrame
<1>18. ASSUME NEW p \in Pods, NEW r \in Requests, Poll(p, r) PROVE OrderInv'
  <2>1. \A g \in Requests : pc'[g] = "commit" => pc[g] = "commit"
    BY <1>18, PollMoved DEF Moved
  <2> QED
    BY <1>18, <2>1, OrderFrame DEF Poll
<1>19. ASSUME NEW p \in Pods, BackgroundReclaim(p) PROVE OrderInv'
  BY <1>19, OrderFrame DEF BackgroundReclaim, ReclaimStuck, Stuck, TypeInv, TypeOK
<1>20. ASSUME NEW d \in Deliveries, ResolveResponse(d) PROVE OrderInv'
  <2>1. \A g \in Requests : pc'[g] = "commit" => pc[g] = "commit"
    BY <1>20, ResolveResponseMoved DEF Moved
  <2> QED
    BY <1>20, <2>1, OrderFrame DEF ResolveResponse
<1>21. ASSUME NEW d \in Deliveries, StoreResponse(d) PROVE OrderInv'
  BY <1>21, OrderFrame DEF StoreResponse, Terminal, TypeInv, TypeOK
<1>22. ASSUME NEW r \in Requests, AgentAnswers(r) PROVE OrderInv'
  BY <1>22, OrderFrame DEF AgentAnswers, Terminal, TypeInv, TypeOK
<1>23. ASSUME NEW r \in Requests, EventDropped(r) PROVE OrderInv'
  BY <1>23, OrderFrame DEF EventDropped
<1>24. ASSUME NEW p \in Pods, Heartbeat(p) PROVE OrderInv'
  BY <1>24, OrderFrame DEF Heartbeat
<1>25. ASSUME NEW p \in Pods, GraceExpires(p) PROVE OrderInv'
  BY <1>25, OrderFrame DEF GraceExpires
<1>26. ASSUME NEW p \in Pods, Crash(p) PROVE OrderInv'
  BY <1>26, OrderFrame DEF Crash
<1>27. CASE UNCHANGED vars
  BY <1>27, OrderFrame DEF vars
<1> QED
  BY <1>1, <1>2, <1>3, <1>4, <1>5, <1>6, <1>7, <1>8, <1>9, <1>10, <1>11, <1>12,
     <1>13, <1>14, <1>15, <1>16, <1>17, <1>18, <1>19, <1>20, <1>21, <1>22,
     <1>23, <1>24, <1>25, <1>26, <1>27
  DEF Next, HandlerStep, PodStep, ResponseStep, AgentStep, Environment, ReplyStep,
      EventStep

\* First in, first out over the session: no row is dequeued while an older one
\* still waits for its first turn, on however many pods its requests arrive.
\* The argument needs the lock: the INSERT reads created_at and commits inside
\* it, so that rows become visible in the order of created_at.
THEOREM FirstInFirstOut == Spec => []NoOvertaking
<1>1. Init => TypeInv /\ LockHolder /\ RowInv /\ OrderInv
  <2>1. Init => TypeInv /\ RowInv
    BY TypeInit, RowInit
  <2>2. Init => LockHolder
    BY LockHolderInit
  <2>3. Init => OrderInv
    BY DEF Init, OrderInv, ClockAhead, CommitsNewest, NoOvertaking
  <2> QED
    BY <2>1, <2>2, <2>3
<1>2. /\ TypeInv /\ LockHolder /\ RowInv /\ OrderInv
      /\ [Next]_vars
      => (TypeInv /\ LockHolder /\ RowInv /\ OrderInv)'
  BY TypeNext, LockHolderNext, RowNext, OrderNext
<1>3. OrderInv => NoOvertaking
  BY DEF OrderInv
<1> QED
  BY <1>1, <1>2, <1>3, PTL DEF Spec

-----------------------------------------------------------------------------
(***************************************************************************)
(* Response futures: the futures that handlers wait for are registered.    *)
(***************************************************************************)
\* set_result wakes all waiters of the future it closes.
LEMMA SetResultWaiters ==
  ASSUME TypeInv, WaiterRegistered, UNCHANGED <<home, target>>,
         NEW p, NEW r, NEW k, NEW pcs \in [Requests -> Labels], SetResult(p, r, k, pcs),
         \A h \in Requests : pcs[h] \in Waiting => pcs[h] = pc[h]
  PROVE  WaiterRegistered'
<1> SUFFICES ASSUME NEW h \in Requests, pc'[h] \in Waiting
             PROVE  registry'[home[h]][target[h]] = "open"
  BY DEF WaiterRegistered
<1>1. registry \in [Pods -> [Requests -> Futures]]
  BY DEF TypeInv, TypeOK
<1>2. h \notin Waiters(p, r) \/ registry[p][r] # "open"
  BY DEF SetResult, AfterReply, Waiting
<1>3. pc[h] \in Waiting
  BY <1>2 DEF SetResult
<1>4. /\ registry[home[h]][target[h]] = "open"
      /\ home[h] \in Pods /\ target[h] \in Requests
  BY <1>3 DEF WaiterRegistered, TypeInv, TypeOK, PodKnown, TargetKnown, Waiting
<1>5. CASE registry[p][r] = "open"
  <2>1. home[h] # p \/ target[h] # r
    BY <1>2, <1>3, <1>5 DEF Waiters
  <2> QED
    BY <1>1, <1>4, <1>5, <2>1 DEF SetResult
<1>6. CASE registry[p][r] # "open"
  BY <1>4, <1>6 DEF SetResult
<1> QED
  BY <1>5, <1>6

\* A wait begins with an open future, and consumes only one nobody waits for.
LEMMA StartWaitWaiters ==
  ASSUME TypeInv, WaiterRegistered, NEW h \in Requests, NEW r \in Requests,
         home[h] \in Pods, home' = home, target' = [target EXCEPT ![h] = r],
         NEW at \in Waiting, StartWait(h, r, at)
  PROVE  WaiterRegistered'
<1> SUFFICES ASSUME NEW g \in Requests, pc'[g] \in Waiting
             PROVE  registry'[home[g]][target'[g]] = "open"
  BY DEF WaiterRegistered
<1>1. /\ registry \in [Pods -> [Requests -> Futures]]
      /\ pc \in [Requests -> Labels] /\ target \in [Requests -> Requests \union {NoRequest}]
  BY DEF TypeInv, TypeOK
<1>2. CASE registry[home[h]][r] \in Results
  <2>1. /\ pc' = [pc EXCEPT ![h] = AfterReply(h, r)]
        /\ registry' = [registry EXCEPT ![home[h]][r] = "absent"]
    BY <1>2 DEF StartWait
  <2>2. g # h
    BY <1>1, <2>1 DEF AfterReply, Waiting
  <2>3. registry[home[g]][target[g]] = "open" /\ home[g] \in Pods /\ target[g] \in Requests
    BY <1>1, <2>1, <2>2 DEF WaiterRegistered, TypeInv, PodKnown, TargetKnown, Waiting
  <2>4. home[g] # home[h] \/ target[g] # r
    BY <1>2, <2>3 DEF Results
  <2> QED
    BY <1>1, <2>1, <2>2, <2>3, <2>4
<1>3. CASE registry[home[h]][r] \notin Results
  <2>1. /\ pc' = [pc EXCEPT ![h] = at]
        /\ registry' = [registry EXCEPT ![home[h]][r] = "open"]
    BY <1>3 DEF StartWait
  <2>2. CASE g = h
    BY <1>1, <2>1, <2>2
  <2>3. CASE g # h
    <3>1. registry[home[g]][target[g]] = "open" /\ home[g] \in Pods /\ target[g] \in Requests
      BY <1>1, <2>1, <2>3 DEF WaiterRegistered, TypeInv, PodKnown, TargetKnown, Waiting
    <3> QED
      BY <1>1, <2>1, <2>3, <3>1
  <2> QED
    BY <2>2, <2>3
<1> QED
  BY <1>2, <1>3

\* Every step keeps the futures of the waiters registered.
LEMMA WaiterNext == TypeInv /\ WaiterRegistered /\ [Next]_vars => WaiterRegistered'
<1> SUFFICES ASSUME TypeInv, WaiterRegistered, [Next]_vars PROVE WaiterRegistered'
  OBVIOUS
<1>1. ASSUME NEW h \in Requests, NEW p \in Pods, Arrive(h, p) PROVE WaiterRegistered'
  BY <1>1 DEF Arrive, WaiterRegistered, Waiting, TypeInv, TypeOK
<1>2. ASSUME NEW h \in Requests, AcquireLock(h) PROVE WaiterRegistered'
  BY <1>2 DEF AcquireLock, WaiterRegistered, Waiting, TypeInv, TypeOK
<1>3. ASSUME NEW h \in Requests, BeginInsert(h) PROVE WaiterRegistered'
  BY <1>3 DEF BeginInsert, WaiterRegistered, Waiting, TypeInv, TypeOK
<1>4. ASSUME NEW h \in Requests, CommitInsert(h) PROVE WaiterRegistered'
  <2> SUFFICES ASSUME NEW g \in Requests, pc'[g] \in Waiting
               PROVE  registry'[home[g]][target[g]] = "open"
    BY <1>4 DEF CommitInsert, WaiterRegistered
  <2>1. /\ pc[g] \in Waiting
        /\ registry \in [Pods -> [Requests -> Futures]]
    BY <1>4 DEF CommitInsert, Waiting, TypeInv, TypeOK
  <2>2. /\ registry[home[g]][target[g]] = "open"
        /\ home[g] \in Pods /\ target[g] \in Requests
    BY <2>1 DEF WaiterRegistered, TypeInv, PodKnown, TargetKnown, Waiting
  <2>3. home[h] \in Pods
    BY <1>4 DEF CommitInsert, TypeInv, PodKnown
  <2> QED
    BY <1>4, <2>1, <2>2, <2>3 DEF CommitInsert
<1>5. ASSUME NEW h \in Requests, ReleaseLock(h) PROVE WaiterRegistered'
  BY <1>5 DEF ReleaseLock, WaiterRegistered, Waiting, TypeInv, TypeOK
<1>6. ASSUME NEW h \in Requests, LockTimeout(h) PROVE WaiterRegistered'
  <2> DEFINE raised == [pc EXCEPT ![h] = "raised"]
  <2>1. raised \in [Requests -> Labels]
    BY DEF TypeInv, TypeOK, Labels, Ended
  <2>2. PICK pcs \in [Requests -> Labels] : pcs = raised /\ SetResult(home[h], h, "error", pcs)
    BY <1>6, <2>1 DEF LockTimeout
  <2>3. \A g \in Requests : pcs[g] \in Waiting => pcs[g] = pc[g]
    BY <2>2 DEF TypeInv, TypeOK, Waiting
  <2> HIDE DEF raised
  <2> QED
    BY <1>6, <2>2, <2>3, SetResultWaiters DEF LockTimeout
<1>7. ASSUME NEW h \in Requests, StatementFails(h) PROVE WaiterRegistered'
  BY <1>7 DEF StatementFails, WaiterRegistered, Waiting, TypeInv, TypeOK
<1>8. ASSUME NEW h \in Requests, ReclaimSession(h) PROVE WaiterRegistered'
  BY <1>8 DEF ReclaimSession, WaiterRegistered, Waiting, TypeInv, TypeOK
<1>9. ASSUME NEW h \in Requests, Dequeue(h) PROVE WaiterRegistered'
  BY <1>9 DEF Dequeue, WaiterRegistered, Waiting, TypeInv, TypeOK
<1>10. ASSUME NEW h \in Requests, NothingPending(h) PROVE WaiterRegistered'
  BY <1>10 DEF NothingPending, WaiterRegistered, Waiting, TypeInv, TypeOK
<1>11. ASSUME NEW h \in Requests, Join(h) PROVE WaiterRegistered'
  <2>1. home[h] \in Pods
    BY <1>11 DEF Join, TypeInv, PodKnown
  <2> QED
    BY <1>11, <2>1, StartWaitWaiters DEF Join, Waiting
<1>12. ASSUME NEW h \in Requests, Send(h) PROVE WaiterRegistered'
  <2>1. home[h] \in Pods /\ target[h] \in Requests
    BY <1>12 DEF Send, TypeInv, PodKnown, TargetKnown
  <2>2. target' = [target EXCEPT ![h] = target[h]]
    BY <1>12 DEF Send, TypeInv, TypeOK
  <2> QED
    BY <1>12, <2>1, <2>2, StartWaitWaiters DEF Send, Waiting
<1>13. ASSUME NEW h \in Requests, SendFails(h) PROVE WaiterRegistered'
  BY <1>13 DEF SendFails, WaiterRegistered, Waiting, TypeInv, TypeOK
<1>14. ASSUME NEW h \in Requests, WaitTimeout(h) PROVE WaiterRegistered'
  <2> SUFFICES ASSUME NEW g \in Requests, pc'[g] \in Waiting
               PROVE  registry'[home[g]][target[g]] = "open"
    BY <1>14 DEF WaitTimeout, WaiterRegistered
  <2>1. registry \in [Pods -> [Requests -> Futures]]
    BY DEF TypeInv, TypeOK
  <2>2. /\ pc[g] \in Waiting
        /\ g # h /\ g \notin Waiters(home[h], target[h])
    BY <1>14 DEF WaitTimeout, Waiting
  <2>3. /\ registry[home[g]][target[g]] = "open"
        /\ home[g] \in Pods /\ target[g] \in Requests
    BY <2>2 DEF WaiterRegistered, TypeInv, PodKnown, TargetKnown, Waiting
  <2>4. home[g] # home[h] \/ target[g] # target[h]
    BY <2>2 DEF Waiters
  <2> QED
    BY <1>14, <2>1, <2>3, <2>4 DEF WaitTimeout
<1>15. ASSUME NEW h \in Requests, FailTarget(h) PROVE WaiterRegistered'
  <2>1. CASE target[h] = h /\ pc[h] = "timedout"
    <3> DEFINE raised == [pc EXCEPT ![h] = "raised"]
    <3>1. raised \in [Requests -> Labels]
      BY DEF TypeInv, TypeOK, Labels, Ended
    <3>2. PICK pcs \in [Requests -> Labels] : pcs = raised /\ SetResult(home[h], h, "error", pcs)
      BY <1>15, <2>1, <3>1 DEF FailTarget
    <3>3. \A g \in Requests : pcs[g] \in Waiting => pcs[g] = pc[g]
      BY <3>2 DEF TypeInv, TypeOK, Waiting
    <3> HIDE DEF raised
    <3> QED
      BY <1>15, <3>2, <3>3, SetResultWaiters DEF FailTarget
  <2>2. CASE ~(target[h] = h /\ pc[h] = "timedout")
    BY <1>15, <2>2 DEF FailTarget, WaiterRegistered, Waiting, TypeInv, TypeOK
  <2> QED
    BY <2>1, <2>2
<1>16. ASSUME NEW h \in Requests, ReplyStep(h) PROVE WaiterRegistered'
  <2>1. UNCHANGED <<home, target, registry>>
    BY <1>16, ReplySteps
  <2> QED
    BY <1>16, <2>1, ReplyMoves DEF WaiterRegistered, Waiting
<1>17. ASSUME EventStep PROVE WaiterRegistered'
  BY <1>17, EventSteps DEF WaiterRegistered
<1>18. ASSUME NEW p \in Pods, NEW r \in Requests, Poll(p, r) PROVE WaiterRegistered'
  <2>1. pc \in [Requests -> Labels]
    BY DEF TypeInv, TypeOK
  <2> QED
    BY <1>18, <2>1, SetResultWaiters DEF Poll
<1>19. ASSUME NEW p \in Pods, BackgroundReclaim(p) PROVE WaiterRegistered'
  BY <1>19 DEF BackgroundReclaim, WaiterRegistered
<1>20. ASSUME NEW d \in Deliveries, ResolveResponse(d) PROVE WaiterRegistered'
  <2>1. pc \in [Requests -> Labels]
    BY DEF TypeInv, TypeOK
  <2> QED
    BY <1>20, <2>1, SetResultWaiters DEF ResolveResponse
<1>21. ASSUME NEW d \in Deliveries, StoreResponse(d) PROVE WaiterRegistered'
  BY <1>21 DEF StoreResponse, WaiterRegistered
<1>22. ASSUME NEW r \in Requests, AgentAnswers(r) PROVE WaiterRegistered'
  BY <1>22 DEF AgentAnswers, WaiterRegistered
<1>23. ASSUME NEW r \in Requests, EventDropped(r) PROVE WaiterRegistered'
  BY <1>23 DEF EventDropped, WaiterRegistered
<1>24. ASSUME NEW p \in Pods, Heartbeat(p) PROVE WaiterRegistered'
  BY <1>24 DEF Heartbeat, WaiterRegistered
<1>25. ASSUME NEW p \in Pods, GraceExpires(p) PROVE WaiterRegistered'
  BY <1>25 DEF GraceExpires, WaiterRegistered
<1>26. ASSUME NEW p \in Pods, Crash(p) PROVE WaiterRegistered'
  <2> SUFFICES ASSUME NEW g \in Requests, pc'[g] \in Waiting
               PROVE  registry'[home[g]][target[g]] = "open"
    BY <1>26 DEF Crash, WaiterRegistered
  <2>1. home[g] # p /\ pc[g] \in Waiting
    BY <1>26 DEF Crash, Waiting, Ended
  <2> QED
    BY <1>26, <2>1 DEF Crash, WaiterRegistered, TypeInv, TypeOK
<1>27. CASE UNCHANGED vars
  BY <1>27 DEF vars, WaiterRegistered
<1> QED
  BY <1>1, <1>2, <1>3, <1>4, <1>5, <1>6, <1>7, <1>8, <1>9, <1>10, <1>11, <1>12,
     <1>13, <1>14, <1>15, <1>16, <1>17, <1>18, <1>19, <1>20, <1>21, <1>22,
     <1>23, <1>24, <1>25, <1>26, <1>27
  DEF Next, HandlerStep, PodStep, ResponseStep, AgentStep, Environment, ReplyStep,
      EventStep

\* Nobody waits for a future the poller of its pod cannot see: the coroutines
\* that share one all wake when it is resolved, cancelled or deleted.
THEOREM WaitersRegistered == Spec => []WaiterRegistered
<1>1. Init => TypeInv /\ WaiterRegistered
  BY TypeInit DEF Init, WaiterRegistered, Waiting
<1>2. TypeInv /\ WaiterRegistered /\ [Next]_vars => (TypeInv /\ WaiterRegistered)'
  BY TypeNext, WaiterNext
<1> QED
  BY <1>1, <1>2, PTL DEF Spec

-----------------------------------------------------------------------------
(***************************************************************************)
(* Forwarding.  Most steps are no business of the reply's claim.           *)
(***************************************************************************)
\* Nobody starts or stops to take, forward or settle a reply, on either path.
Quiet ==
  /\ UNCHANGED <<deliveryVars, claimVars, forwarded>>
  /\ \A h \in Requests : \/ pc'[h] = pc[h]
                         \/ {pc[h], pc'[h]} \intersect {"take", "retake", "forward", "settle"} = {}

LEMMA MovedIsQuiet ==
  ASSUME Moved, UNCHANGED <<deliveryVars, claimVars, forwarded>>
  PROVE  Quiet
BY DEF Moved, Quiet

LEMMA QuietSteps ==
  ASSUME TypeInv, [Next]_vars
  PROVE  \/ Quiet
         \/ EventStep
         \/ \E h \in Requests : ReplyStep(h)
         \/ \E d \in Deliveries : StoreResponse(d) \/ ResolveResponse(d)
         \/ \E p \in Pods : Crash(p)
<1>0. pc \in [Requests -> Labels]
  BY DEF TypeInv, TypeOK
<1>1. ASSUME NEW h \in Requests,
             \/ AcquireLock(h) \/ BeginInsert(h) \/ CommitInsert(h) \/ ReleaseLock(h)
             \/ ReclaimSession(h) \/ Dequeue(h) \/ NothingPending(h)
             \/ StatementFails(h) \/ SendFails(h) \/ (\E p \in Pods : Arrive(h, p))
      PROVE  Quiet
  BY <1>0, <1>1
  DEF AcquireLock, BeginInsert, CommitInsert, ReleaseLock, ReclaimSession, Dequeue,
      NothingPending, StatementFails, SendFails, Arrive, Critical, Quiet
<1>2. ASSUME NEW h \in Requests,
             \/ LockTimeout(h) \/ Join(h) \/ Send(h) \/ WaitTimeout(h) \/ FailTarget(h)
             \/ \E p \in Pods : Poll(p, h)
      PROVE  Quiet
  <2>1. Moved
    BY <1>2, LockTimeoutMoved, StartWaitMoved, WaitTimeoutMoved, FailTargetMoved, PollMoved
  <2> QED
    BY <1>2, <2>1, MovedIsQuiet DEF LockTimeout, Join, Send, WaitTimeout, FailTarget, Poll
<1>3. ASSUME UNCHANGED <<pc, deliveryVars, claimVars, forwarded>> PROVE Quiet
  BY <1>3 DEF Quiet
<1>4. ASSUME \/ \E p \in Pods : BackgroundReclaim(p) \/ Heartbeat(p) \/ GraceExpires(p)
             \/ \E r \in Requests : AgentStep(r)
             \/ UNCHANGED vars
      PROVE  Quiet
  BY <1>3, <1>4
  DEF BackgroundReclaim, Heartbeat, GraceExpires, AgentStep, AgentAnswers, EventDropped, vars
<1> QED
  BY <1>1, <1>2, <1>4
  DEF Next, HandlerStep, PodStep, ResponseStep, Environment, ReplyStep, EventStep

\* A delivery is about to forward the reply to r, or to take its claim over.
Ahead(d, r) == carried[d] = r /\ stage[d] \in {"store", "resolve", "forward"}
Retaking(d, r) == carried[d] = r /\ stage[d] = "retake"

\* While its claim has not been stale, the reply to r is taken once: whoever is about
\* to forward it is alone, and nothing has been forwarded yet.
Once(r) ==
  /\ replyClaim[r] # "stale"
  /\ pc[r] # "retake"
  /\ \A d \in Deliveries : ~Retaking(d, r)
  /\ replyClaim[r] = "none" => pc[r] # "forward"
  /\ replyClaim[r] = "none" \/ pc[r] = "forward"
       => forwarded[r] = <<>> /\ \A d \in Deliveries : ~Ahead(d, r)
  /\ \A d \in Deliveries :
       Ahead(d, r) => forwarded[r] = <<>> /\ \A e \in Deliveries \ {d} : ~Ahead(e, r)
  /\ Len(forwarded[r]) <= 1
ForwardInv == \A r \in Requests \ aged : Once(r)

\* A step that gives nobody the claim of r and forwards no reply to it.
LEMMA OnceFrame ==
  ASSUME NEW r \in Requests, Once(r), forwarded'[r] = forwarded[r],
         replyClaim'[r] \in {replyClaim[r], "settled"},
         pc'[r] = pc[r] \/ pc'[r] \notin {"retake", "forward"},
         \A d \in Deliveries : /\ Ahead(d, r)' => Ahead(d, r)
                               /\ Retaking(d, r)' => Retaking(d, r)
  PROVE  Once(r)'
BY DEF Once

\* One delivery changes, the others work on what they did.
LEMMA OtherDeliveries ==
  ASSUME TypeInv, NEW d \in Deliveries, Drop({d}) \/ (\E step \in Stages : GoOn(d, step)),
         NEW e \in Deliveries \ {d}, NEW r
  PROVE  (Ahead(e, r)' <=> Ahead(e, r)) /\ (Retaking(e, r)' <=> Retaking(e, r))
<1>0. stage \in [Deliveries -> Stages]
  BY DEF TypeInv, TypeOK
<1> QED
  BY <1>0 DEF Drop, GoOn, Ahead, Retaking

\* A delivery that ends, or goes on to a step that is not ahead unless it was.
LEMMA EndingDelivery ==
  ASSUME TypeInv, NEW d \in Deliveries, NEW r \in Requests,
         \/ Drop({d})
         \/ \E step \in Stages : /\ GoOn(d, step)
                                 /\ step # "retake"
                                 /\ \/ step \notin {"store", "resolve", "forward"}
                                    \/ stage[d] \in {"store", "resolve", "forward"}
  PROVE  \A e \in Deliveries : /\ Ahead(e, r)' => Ahead(e, r)
                               /\ Retaking(e, r)' => Retaking(e, r)
<1>0. stage \in [Deliveries -> Stages] /\ NoRequest \notin Requests
  BY ConstantsAssumption DEF TypeInv, TypeOK
<1>1. CASE Drop({d})
  BY <1>0, <1>1 DEF Drop, Ahead, Retaking
<1>2. ASSUME NEW step \in Stages, GoOn(d, step), step # "retake",
             \/ step \notin {"store", "resolve", "forward"}
             \/ stage[d] \in {"store", "resolve", "forward"}
      PROVE  \A e \in Deliveries : /\ Ahead(e, r)' => Ahead(e, r)
                                   /\ Retaking(e, r)' => Retaking(e, r)
  BY <1>0, <1>2 DEF GoOn, Ahead, Retaking
<1> QED
  BY <1>1, <1>2

\* Every step leaves a claim that is not stale with one forwarder.
LEMMA ForwardNext ==
  ASSUME TypeInv, ForwardInv, [Next]_vars
  PROVE  ForwardInv'
<1>0. /\ replyClaim \in [Requests -> {"none", "fresh", "stale", "settled"}]
      /\ forwarded \in [Requests -> Seq(Results)]
      /\ stage \in [Deliveries -> Stages]
      /\ carried \in [Deliveries -> Requests \union {NoRequest}]
      /\ NoRequest \notin Requests
  BY ConstantsAssumption DEF TypeInv, TypeOK
<1>l. ASSUME NEW k \in Results, NEW s \in {<<>>, Append(<<>>, k)} PROVE Len(s) <= 1
  <2>1. Len(<<>>) <= 1 /\ Len(Append(<<>>, k)) <= 1
    OBVIOUS
  <2> QED
    BY <2>1
<1> SUFFICES ASSUME NEW r \in Requests \ aged' PROVE Once(r)'
  BY DEF ForwardInv
<1>a. r \notin aged => Once(r)
  BY DEF ForwardInv
<1>1. CASE Quiet
  <2>1. UNCHANGED <<stage, carried, replyClaim, aged, forwarded>>
    BY <1>1 DEF Quiet
  <2>2. pc'[r] = pc[r] \/ pc'[r] \notin {"retake", "forward"}
    BY <1>1 DEF Quiet
  <2>3. \A d \in Deliveries : (Ahead(d, r)' <=> Ahead(d, r)) /\ (Retaking(d, r)' <=> Retaking(d, r))
    BY <2>1 DEF Ahead, Retaking
  <2> QED
    BY <1>a, <2>1, <2>2, <2>3, OnceFrame
<1>2. ASSUME NEW h \in Requests, ReplyStep(h) PROVE Once(r)'
  <2>1. /\ UNCHANGED <<stage, carried>>
        /\ \A g \in Requests \ {h} : pc'[g] = pc[g]
    BY <1>2, ReplySteps, ReplyMoves
  <2>2. \A d \in Deliveries : (Ahead(d, r)' <=> Ahead(d, r)) /\ (Retaking(d, r)' <=> Retaking(d, r))
    BY <2>1 DEF Ahead, Retaking
  <2>3. aged' = aged /\ Once(r)
    BY <1>2, <1>a
    DEF ReplyStep, ClaimReply, TakeReply, TakeIfGranted, SetClaim, ForwardReply, SettleReply,
        ReplyFails
  <2>4. CASE r # h
    <3>1. replyClaim'[r] = replyClaim[r] /\ forwarded'[r] = forwarded[r]
      BY <1>0, <1>2, <2>4
      DEF ReplyStep, ClaimReply, TakeReply, TakeIfGranted, SetClaim, ForwardReply, Forward,
          SettleReply, ReplyFails
    <3> QED
      BY <2>1, <2>2, <2>3, <2>4, <3>1, OnceFrame
  <2>5. CASE r = h
    <3>0. pc \in [Requests -> Labels]
      BY DEF TypeInv, TypeOK
    <3>1. CASE ClaimReply(h)
      <4>1. UNCHANGED <<replyClaim, forwarded>> /\ pc'[h] = Seen(h, "done")
        BY <3>0, <3>1 DEF ClaimReply
      <4>2. Seen(h, "done") \in {"take", "done"}
        BY <2>3, <2>5 DEF Seen, Once
      <4> QED
        BY <2>2, <2>3, <2>5, <4>1, <4>2, OnceFrame
    <3>2. CASE TakeReply(h)
      <4>1. pc[h] = "take" /\ forwarded' = forwarded
        BY <2>3, <2>5, <3>2 DEF TakeReply, Once
      <4>2. CASE replyClaim[h] = "none"
        <5>1. replyClaim'[h] = "fresh" /\ pc'[h] = "forward"
          BY <1>0, <3>0, <3>2, <4>1, <4>2 DEF TakeReply, TakeIfGranted, Granted, SetClaim
        <5> QED
          BY <2>2, <2>3, <2>5, <4>1, <4>2, <5>1 DEF Once
      <4>3. CASE replyClaim[h] # "none"
        <5>1. replyClaim' = replyClaim /\ pc'[h] = "done"
          BY <3>0, <3>2, <4>1, <4>3 DEF TakeReply, TakeIfGranted, Granted
        <5> QED
          BY <2>2, <2>3, <2>5, <4>1, <5>1, OnceFrame
      <4> QED
        BY <4>2, <4>3
    <3>3. CASE ForwardReply(h)
      <4>1. /\ pc[h] = "forward" /\ pc'[h] = "settle" /\ replyClaim' = replyClaim
            /\ Forward(h, result[h])
        BY <3>0, <3>3 DEF ForwardReply
      <4>2. /\ forwarded[h] = <<>> /\ replyClaim[h] # "none"
            /\ \A d \in Deliveries : ~Ahead(d, h)
        BY <2>3, <2>5, <4>1 DEF Once
      <4>3. result[h] \in Results
        BY <4>1 DEF TypeInv, ReplyKnown
      <4>4. forwarded'[h] \in {<<>>, Append(<<>>, result[h])}
        BY <1>0, <4>1, <4>2 DEF Forward
      <4>5. Len(forwarded'[h]) <= 1
        BY <1>l, <4>3, <4>4
      <4> QED
        BY <2>2, <2>3, <2>5, <4>1, <4>2, <4>5 DEF Once
    <3>4. CASE SettleReply(h) \/ ReplyFails(h)
      <4>1. forwarded' = forwarded /\ pc'[h] = "done"
        BY <3>0, <3>4 DEF SettleReply, ReplyFails
      <4>2. replyClaim'[h] \in {replyClaim[h], "settled"}
        BY <1>0, <3>4 DEF SettleReply, SetClaim, ReplyFails
      <4> QED
        BY <2>2, <2>3, <2>5, <4>1, <4>2, OnceFrame
    <3> QED
      BY <1>2, <3>1, <3>2, <3>3, <3>4 DEF ReplyStep
  <2> QED
    BY <2>4, <2>5
<1>3. ASSUME NEW d \in Deliveries, NEW p \in Pods, NEW q \in Requests, Deliver(d, p, q)
      PROVE  Once(r)'
  <2>1. UNCHANGED <<pc, replyClaim, aged, forwarded>>
    BY <1>3 DEF Deliver
  <2>2. CASE Drop({d})
    BY <1>a, <2>1, <2>2, EndingDelivery, OnceFrame
  <2>3. CASE ~Drop({d})
    <3>1. /\ stage' = [stage EXCEPT ![d] = Seen(q, "gone")]
          /\ carried' = [carried EXCEPT ![d] = q]
          /\ Seen(q, "gone") \in {"take", "retake"}
      BY <1>3, <2>3, SeenType DEF Deliver
    <3>2. Seen(q, "gone") = "retake" => replyClaim[q] = "stale"
      BY DEF Seen
    <3>3. PICK step \in {"take", "retake"} :
            /\ stage' = [stage EXCEPT ![d] = step]
            /\ step = "retake" => replyClaim[q] = "stale"
      BY <3>1, <3>2
    <3>4. Once(r)
      BY <1>a, <2>1
    <3>5. \A e \in Deliveries : /\ Ahead(e, r)' => Ahead(e, r)
                                /\ Retaking(e, r)' => Retaking(e, r)
      BY <1>0, <3>1, <3>3, <3>4 DEF Ahead, Retaking, Once
    <3> QED
      BY <2>1, <3>4, <3>5, OnceFrame
  <2> QED
    BY <2>2, <2>3
<1>4. ASSUME NEW d \in Deliveries, TakeResponse(d) PROVE Once(r)'
  <2>1. UNCHANGED <<pc, aged, forwarded>> /\ Once(r)
    BY <1>4, <1>a DEF TakeResponse, TakeIfGranted, SetClaim
  <2>2. CASE carried[d] # r
    <3>1. replyClaim'[r] = replyClaim[r]
      BY <1>0, <1>4, <2>2 DEF TakeResponse, TakeIfGranted, SetClaim
    <3>2. Drop({d}) \/ GoOn(d, "store")
      BY <1>4 DEF TakeResponse
    <3>3. ~Ahead(d, r)' /\ ~Retaking(d, r)'
      BY <1>0, <2>2, <3>2 DEF Drop, GoOn, Ahead, Retaking
    <3>4. \A e \in Deliveries \ {d} : /\ Ahead(e, r)' <=> Ahead(e, r)
                                      /\ Retaking(e, r)' <=> Retaking(e, r)
      BY <3>2, OtherDeliveries DEF Stages
    <3> QED
      BY <2>1, <3>1, <3>3, <3>4, OnceFrame
  <2>3. CASE carried[d] = r
    <3>1. stage[d] = "take"
      BY <1>4, <2>1, <2>3 DEF TakeResponse, Once, Retaking
    <3>2. CASE replyClaim[r] = "none"
      <4>1. replyClaim'[r] = "fresh" /\ GoOn(d, "store")
        BY <1>0, <1>4, <2>3, <3>1, <3>2 DEF TakeResponse, TakeIfGranted, Granted, SetClaim
      <4>2. \A e \in Deliveries \ {d} : /\ Ahead(e, r)' <=> Ahead(e, r)
                                        /\ Retaking(e, r)' <=> Retaking(e, r)
        BY <4>1, OtherDeliveries DEF Stages
      <4>3. ~Retaking(d, r)'
        BY <1>0, <4>1 DEF GoOn, Retaking
      <4> QED
        BY <2>1, <3>2, <4>1, <4>2, <4>3 DEF Once
    <3>3. CASE replyClaim[r] # "none"
      <4>1. replyClaim' = replyClaim /\ Drop({d})
        BY <1>4, <2>3, <3>1, <3>3 DEF TakeResponse, TakeIfGranted, Granted
      <4> QED
        BY <2>1, <4>1, EndingDelivery, OnceFrame
    <3> QED
      BY <3>2, <3>3
  <2> QED
    BY <2>2, <2>3
<1>5. ASSUME NEW d \in Deliveries, ForwardResponse(d) PROVE Once(r)'
  <2>1. /\ UNCHANGED <<pc, replyClaim, aged>> /\ Once(r) /\ GoOn(d, "settle")
        /\ stage[d] = "forward" /\ Forward(carried[d], "answer")
    BY <1>5, <1>a DEF ForwardResponse
  <2>2. \A e \in Deliveries : /\ Ahead(e, r)' => Ahead(e, r)
                              /\ Retaking(e, r)' => Retaking(e, r)
    BY <2>1, EndingDelivery DEF Stages
  <2>3. CASE carried[d] # r
    <3>1. forwarded'[r] = forwarded[r]
      BY <1>0, <2>1, <2>3 DEF Forward
    <3> QED
      BY <2>1, <2>2, <3>1, OnceFrame
  <2>4. CASE carried[d] = r
    <3>1. Ahead(d, r)
      BY <2>1, <2>4 DEF Ahead
    <3>2. /\ forwarded[r] = <<>> /\ replyClaim[r] # "none" /\ pc[r] # "forward"
          /\ \A e \in Deliveries \ {d} : ~Ahead(e, r)
      BY <2>1, <3>1 DEF Once
    <3>3. ~Ahead(d, r)'
      BY <1>0, <2>1 DEF GoOn, Ahead
    <3>4. forwarded'[r] \in {<<>>, Append(<<>>, "answer")} /\ "answer" \in Results
      BY <1>0, <2>1, <2>4, <3>2 DEF Forward, Results
    <3>5. Len(forwarded'[r]) <= 1
      BY <1>l, <3>4
    <3> QED
      BY <2>1, <2>2, <3>2, <3>3, <3>5 DEF Once
  <2> QED
    BY <2>3, <2>4
<1>6. ASSUME NEW d \in Deliveries,
             SettleResponse(d) \/ ResponseFails(d) \/ StoreResponse(d) \/ ResolveResponse(d)
      PROVE  Once(r)'
  <2>1. aged' = aged /\ forwarded' = forwarded
    BY <1>6 DEF SettleResponse, SetClaim, ResponseFails, StoreResponse, ResolveResponse
  <2>2. replyClaim'[r] \in {replyClaim[r], "settled"}
    BY <1>0, <1>6 DEF SettleResponse, SetClaim, ResponseFails, StoreResponse, ResolveResponse
  <2>3. \A e \in Deliveries : /\ Ahead(e, r)' => Ahead(e, r)
                              /\ Retaking(e, r)' => Retaking(e, r)
    BY <1>6, EndingDelivery
    DEF SettleResponse, ResponseFails, StoreResponse, ResolveResponse, Stages
  <2>4. pc'[r] = pc[r] \/ pc'[r] \notin {"retake", "forward"}
    BY <1>6, ResolveResponseMoved
    DEF SettleResponse, ResponseFails, StoreResponse, Moved
  <2> QED
    BY <1>a, <2>1, <2>2, <2>3, <2>4, OnceFrame
<1>7. ASSUME NEW q \in Requests, Age(q) PROVE Once(r)'
  <2>1. /\ r # q /\ r \notin aged /\ replyClaim'[r] = replyClaim[r]
        /\ UNCHANGED <<pc, forwarded, stage, carried>>
    BY <1>0, <1>7 DEF Age
  <2>2. \A d \in Deliveries : (Ahead(d, r)' <=> Ahead(d, r)) /\ (Retaking(d, r)' <=> Retaking(d, r))
    BY <2>1 DEF Ahead, Retaking
  <2> QED
    BY <1>a, <2>1, <2>2, OnceFrame
<1>8. ASSUME NEW p \in Pods, Crash(p) PROVE Once(r)'
  <2>1. UNCHANGED <<replyClaim, aged, forwarded>>
        /\ (pc'[r] = pc[r] \/ pc'[r] \notin {"retake", "forward"})
    BY <1>8, CrashMoves DEF Crash
  <2>2. \A d \in Deliveries : /\ Ahead(d, r)' => Ahead(d, r)
                              /\ Retaking(d, r)' => Retaking(d, r)
    BY <1>0, <1>8 DEF Crash, Drop, Ahead, Retaking
  <2> QED
    BY <1>a, <2>1, <2>2, OnceFrame
<1> QED
  BY <1>1, <1>2, <1>3, <1>4, <1>5, <1>6, <1>7, <1>8, QuietSteps DEF EventStep

LEMMA ForwardInit == Init => ForwardInv
<1>1. Len(<<>>) <= 1
  OBVIOUS
<1> QED
  BY <1>1, ConstantsAssumption DEF Init, ForwardInv, Once, Ahead, Retaking

\* The dispatcher gets a second reply to a request only if the claim of the first was
\* 120 s old at some time: neither the number of pods that poll or receive the event,
\* nor repeated deliveries, crashes, failed statements and refused sends suffice.
THEOREM ForwardedAgainIfStale == Spec => []ForwardedAgainOnlyIfStale
<1>1. Init => TypeInv /\ ForwardInv
  BY TypeInit, ForwardInit
<1>2. TypeInv /\ ForwardInv /\ [Next]_vars => (TypeInv /\ ForwardInv)'
  BY TypeNext, ForwardNext
<1>3. TypeInv /\ ForwardInv => ForwardedAgainOnlyIfStale
  <2> SUFFICES ASSUME TypeInv, ForwardInv, NEW r \in Requests, Len(forwarded[r]) > 1
               PROVE  r \in aged
    BY DEF ForwardedAgainOnlyIfStale
  <2>1. Len(forwarded[r]) \in Nat
    BY DEF TypeInv, TypeOK
  <2>2. r \notin aged => Len(forwarded[r]) <= 1
    BY DEF ForwardInv, Once
  <2> QED
    BY <2>1, <2>2
<1> QED
  BY <1>1, <1>2, <1>3, PTL DEF Spec

\* The instances whose claims are settled before they grow stale.
Quick == {"slowreply", "crash", "dberror"} \intersect Faults = {}

\* A delivery works under the claim of r.
Works(d, r) ==
  carried[d] = r /\ stage[d] \in {"store", "resolve", "forward", "settle"}

\* There a claim that is not settled has somebody who will settle it.
ClaimInv == aged = {} /\ \A r \in Requests : replyClaim[r] = "fresh" => Claimed(r)

\* Who works under a claim before a step does so after it.
LEMMA ClaimFrame ==
  ASSUME ClaimInv, UNCHANGED aged, NEW r \in Requests,
         pc[r] \in {"forward", "settle"} => pc'[r] \in {"forward", "settle"},
         \A d \in Deliveries : Works(d, r) => Works(d, r)',
         replyClaim'[r] \in {replyClaim[r], "settled"}
  PROVE  replyClaim'[r] = "fresh" => Claimed(r)'
BY DEF ClaimInv, Claimed, Works

LEMMA ClaimNext ==
  ASSUME Quick, TypeInv, ClaimInv, [Next]_vars
  PROVE  ClaimInv'
<1>0. /\ replyClaim \in [Requests -> {"none", "fresh", "stale", "settled"}]
      /\ stage \in [Deliveries -> Stages]
      /\ carried \in [Deliveries -> Requests \union {NoRequest}]
      /\ pc \in [Requests -> Labels]
      /\ NoRequest \notin Requests
  BY ConstantsAssumption DEF TypeInv, TypeOK
<1> DEFINE Kept == aged' = aged /\ \A r \in Requests : replyClaim'[r] = "fresh" => Claimed(r)'
<1>k. Kept => ClaimInv'
  BY DEF ClaimInv
<1> HIDE DEF Kept
<1>1. ASSUME Quiet PROVE Kept
  <2>1. UNCHANGED <<stage, carried, replyClaim, aged>>
    BY <1>1 DEF Quiet
  <2>2. \A r \in Requests : pc[r] \in {"forward", "settle"} => pc'[r] \in {"forward", "settle"}
    BY <1>1 DEF Quiet
  <2>3. \A d \in Deliveries, r \in Requests : Works(d, r) => Works(d, r)'
    BY <2>1 DEF Works
  <2>4. ASSUME NEW r \in Requests PROVE replyClaim'[r] = "fresh" => Claimed(r)'
    BY <2>1, <2>2, <2>3, ClaimFrame
  <2> QED
    BY <2>1, <2>4 DEF Kept
<1>2. ASSUME NEW h \in Requests, ReplyStep(h) PROVE Kept
  <2>1. /\ UNCHANGED <<stage, carried>>
        /\ \A g \in Requests \ {h} : pc'[g] = pc[g]
    BY <1>2, ReplySteps, ReplyMoves
  <2>2. \A d \in Deliveries, r \in Requests : Works(d, r) => Works(d, r)'
    BY <2>1 DEF Works
  <2>3. aged' = aged /\ \A g \in Requests \ {h} : replyClaim'[g] = replyClaim[g]
    BY <1>0, <1>2
    DEF ReplyStep, ClaimReply, TakeReply, TakeIfGranted, SetClaim, ForwardReply, SettleReply,
        ReplyFails
  <2>4. replyClaim'[h] = "fresh" => Claimed(h)'
    <3>1. CASE ClaimReply(h) \/ ForwardReply(h)
      <4>1. /\ replyClaim'[h] = replyClaim[h]
            /\ pc[h] \in {"forward", "settle"} => pc'[h] \in {"forward", "settle"}
        BY <1>0, <3>1 DEF ClaimReply, ForwardReply
      <4> QED
        BY <2>2, <2>3, <4>1, ClaimFrame
    <3>2. CASE TakeReply(h)
      <4>1. CASE Granted(pc[h], h)
        BY <1>0, <3>2, <4>1 DEF TakeReply, Claimed
      <4>2. CASE ~Granted(pc[h], h)
        <5>1. replyClaim' = replyClaim /\ pc[h] \notin {"forward", "settle"}
          BY <3>2, <4>2 DEF TakeReply, TakeIfGranted
        <5> QED
          BY <2>2, <2>3, <5>1, ClaimFrame
      <4> QED
        BY <4>1, <4>2
    <3>3. CASE SettleReply(h)
      BY <1>0, <3>3 DEF SettleReply, SetClaim
    <3>4. ~ReplyFails(h)
      BY DEF ReplyFails, Quick
    <3> QED
      BY <1>2, <3>1, <3>2, <3>3, <3>4 DEF ReplyStep
  <2>5. ASSUME NEW g \in Requests \ {h} PROVE replyClaim'[g] = "fresh" => Claimed(g)'
    BY <2>1, <2>2, <2>3, ClaimFrame
  <2> QED
    BY <2>3, <2>4, <2>5 DEF Kept
<1>3. ASSUME NEW d \in Deliveries, NEW p \in Pods, NEW q \in Requests, Deliver(d, p, q)
      PROVE  Kept
  <2>1. UNCHANGED <<pc, replyClaim, aged>>
    BY <1>3 DEF Deliver
  <2>2. stage[d] = "idle" /\ \A e \in Deliveries \ {d} : stage'[e] = stage[e] /\ carried'[e] = carried[e]
    BY <1>0, <1>3 DEF Deliver, Drop
  <2>3. \A e \in Deliveries, r \in Requests : Works(e, r) => Works(e, r)'
    BY <2>2 DEF Works
  <2>4. ASSUME NEW r \in Requests PROVE replyClaim'[r] = "fresh" => Claimed(r)'
    BY <2>1, <2>3, ClaimFrame
  <2> QED
    BY <2>1, <2>4 DEF Kept
<1>4. ASSUME NEW d \in Deliveries, TakeResponse(d) PROVE Kept
  <2>1. UNCHANGED <<pc, aged>> /\ carried[d] \in Requests
    BY <1>4 DEF TakeResponse, TakeIfGranted, SetClaim, TypeInv, CarriedKnown
  <2>2. \A e \in Deliveries \ {d} : stage'[e] = stage[e] /\ carried'[e] = carried[e]
    BY <1>0, <1>4 DEF TakeResponse, Drop, GoOn
  <2>3. \A e \in Deliveries, r \in Requests : Works(e, r) => Works(e, r)'
    BY <1>4, <2>2 DEF TakeResponse, Works
  <2>4. ASSUME NEW q \in Requests, q = carried[d], Granted(stage[d], q) PROVE Kept
    <3>1. Claimed(q)'
      BY <1>0, <1>4, <2>4 DEF TakeResponse, GoOn, Claimed
    <3>2. \A r \in Requests \ {q} : replyClaim'[r] = replyClaim[r]
      BY <1>0, <1>4, <2>4 DEF TakeResponse, TakeIfGranted, SetClaim
    <3>3. ASSUME NEW r \in Requests \ {q} PROVE replyClaim'[r] = "fresh" => Claimed(r)'
      BY <2>1, <2>3, <3>2, ClaimFrame
    <3> QED
      BY <2>1, <3>1, <3>3 DEF Kept
  <2>5. CASE ~Granted(stage[d], carried[d])
    <3>1. replyClaim' = replyClaim
      BY <1>4, <2>5 DEF TakeResponse, TakeIfGranted
    <3>2. ASSUME NEW r \in Requests PROVE replyClaim'[r] = "fresh" => Claimed(r)'
      BY <2>1, <2>3, <3>1, ClaimFrame
    <3> QED
      BY <2>1, <3>2 DEF Kept
  <2> QED
    BY <2>1, <2>4, <2>5
<1>5. ASSUME NEW d \in Deliveries, ForwardResponse(d) \/ StoreResponse(d) \/ ResolveResponse(d)
      PROVE  Kept
  <2>1. UNCHANGED <<replyClaim, aged>>
    BY <1>5 DEF ForwardResponse, StoreResponse, ResolveResponse
  <2>2. \A r \in Requests : pc[r] \in {"forward", "settle"} => pc'[r] = pc[r]
    BY <1>5, ResolveResponseMoved DEF ForwardResponse, StoreResponse, Moved
  <2>3. \A e \in Deliveries, r \in Requests : Works(e, r) => Works(e, r)'
    BY <1>0, <1>5 DEF ForwardResponse, StoreResponse, ResolveResponse, GoOn, Works
  <2>4. ASSUME NEW r \in Requests PROVE replyClaim'[r] = "fresh" => Claimed(r)'
    BY <2>1, <2>2, <2>3, ClaimFrame
  <2> QED
    BY <2>1, <2>4 DEF Kept
<1>6. ASSUME NEW d \in Deliveries, SettleResponse(d) PROVE Kept
  <2>1. /\ UNCHANGED <<pc, aged>> /\ Drop({d})
        /\ replyClaim' = [replyClaim EXCEPT ![carried[d]] = "settled"]
    BY <1>6 DEF SettleResponse, SetClaim
  <2>2. ASSUME NEW r \in Requests \ {carried[d]} PROVE replyClaim'[r] = "fresh" => Claimed(r)'
    <3>1. \A e \in Deliveries : Works(e, r) => Works(e, r)'
      BY <1>0, <2>1 DEF Drop, Works
    <3> QED
      BY <1>0, <2>1, <3>1, ClaimFrame
  <2>3. ASSUME carried[d] \in Requests PROVE replyClaim'[carried[d]] # "fresh"
    BY <1>0, <2>1, <2>3
  <2> QED
    BY <2>1, <2>2, <2>3 DEF Kept
<1>7. ~ \E d \in Deliveries : ResponseFails(d)
  BY DEF ResponseFails, Quick
<1>8. ~ \E r \in Requests : Age(r)
  BY DEF Age, ClaimInv, Quick
<1>9. ~ \E p \in Pods : Crash(p)
  BY DEF Crash, Quick
<1> QED
  BY <1>k, <1>1, <1>2, <1>3, <1>4, <1>5, <1>6, <1>7, <1>8, <1>9, QuietSteps DEF EventStep

\* Where no send is slow, no pod stops and no statement raises between claim and
\* settlement, no claim grows stale, so that the dispatcher gets one reply at most,
\* however often the event is delivered.
THEOREM ForwardedOnceIfQuick == Quick /\ Spec => []AtMostOneForward
<1>1. Init => TypeInv /\ ClaimInv
  BY TypeInit DEF Init, ClaimInv
<1>2. Quick /\ TypeInv /\ ClaimInv /\ [Next]_vars => (TypeInv /\ ClaimInv)'
  BY TypeNext, ClaimNext
<1>3. TypeInv /\ ClaimInv /\ ForwardedAgainOnlyIfStale => AtMostOneForward
  <2> SUFFICES ASSUME TypeInv, ClaimInv, ForwardedAgainOnlyIfStale, NEW r \in Requests
               PROVE  Len(forwarded[r]) <= 1
    BY DEF AtMostOneForward
  <2>1. Len(forwarded[r]) \in Nat
    BY DEF TypeInv, TypeOK
  <2> QED
    BY <2>1 DEF ForwardedAgainOnlyIfStale, ClaimInv
<1>4. CASE Quick
  BY <1>1, <1>2, <1>3, <1>4, ForwardedAgainIfStale, PTL DEF Spec
<1> QED
  BY <1>4

-----------------------------------------------------------------------------
(***************************************************************************)
(* Reclaims.  Where live pods are seen alive and sends do not outlast the  *)
(* buffer, what is stuck is driven by nobody.                              *)
(***************************************************************************)
Punctual == {"unseen", "slowsend"} \intersect Faults = {}

UnseenIsDown == \A p \in Pods : ~beat[p] => ~up[p]
DownRunsNothing ==
  \A h \in Requests : (home[h] \in Pods /\ ~up[home[h]]) => pc[h] \in Ended \union {"new"}
PodInv == UnseenIsDown /\ DownRunsNothing

\* Pods and homes as they are, and no handler leaves "new" or its end.
LEMMA PodFrame ==
  ASSUME PodInv, UNCHANGED <<up, beat, home>>,
         \A h \in Requests : pc[h] \in Ended \union {"new"} => pc'[h] \in Ended \union {"new"}
  PROVE  PodInv'
BY DEF PodInv, UnseenIsDown, DownRunsNothing

\* A punctual pod that is not seen is down, and runs nothing.
LEMMA PodNext ==
  ASSUME Punctual, TypeInv, PodInv, [Next]_vars
  PROVE  PodInv'
<1>1. ASSUME NEW h \in Requests, NEW p \in Pods, Arrive(h, p) PROVE PodInv'
  BY <1>1 DEF Arrive, PodInv, UnseenIsDown, DownRunsNothing, TypeInv, TypeOK
<1>2. ASSUME NEW h \in Requests, AcquireLock(h) PROVE PodInv'
  BY <1>2, PodFrame DEF AcquireLock, Ended, TypeInv, TypeOK
<1>3. ASSUME NEW h \in Requests, BeginInsert(h) PROVE PodInv'
  BY <1>3, PodFrame DEF BeginInsert, Ended, TypeInv, TypeOK
<1>4. ASSUME NEW h \in Requests, CommitInsert(h) PROVE PodInv'
  BY <1>4, PodFrame DEF CommitInsert, Ended, TypeInv, TypeOK
<1>5. ASSUME NEW h \in Requests, ReleaseLock(h) PROVE PodInv'
  BY <1>5, PodFrame DEF ReleaseLock, Ended, TypeInv, TypeOK
<1>6. ASSUME NEW h \in Requests, LockTimeout(h) PROVE PodInv'
  <2>1. \A g \in Requests : pc[g] \in Ended \union {"new"} => pc'[g] \in Ended \union {"new"}
    BY <1>6, LockTimeoutMoved DEF Moved, Ended
  <2> QED
    BY <1>6, <2>1, PodFrame DEF LockTimeout
<1>7. ASSUME NEW h \in Requests, StatementFails(h) PROVE PodInv'
  BY <1>7, PodFrame DEF StatementFails, Ended, TypeInv, TypeOK
<1>8. ASSUME NEW h \in Requests, ReclaimSession(h) PROVE PodInv'
  BY <1>8, PodFrame DEF ReclaimSession, Ended, TypeInv, TypeOK
<1>9. ASSUME NEW h \in Requests, Dequeue(h) PROVE PodInv'
  BY <1>9, PodFrame DEF Dequeue, Ended, TypeInv, TypeOK
<1>10. ASSUME NEW h \in Requests, NothingPending(h) PROVE PodInv'
  BY <1>10, PodFrame DEF NothingPending, Ended, TypeInv, TypeOK
<1>11. ASSUME NEW h \in Requests, Join(h) PROVE PodInv'
  <2>1. \A g \in Requests : pc[g] \in Ended \union {"new"} => pc'[g] \in Ended \union {"new"}
    BY <1>11, StartWaitMoved DEF Moved, Ended
  <2> QED
    BY <1>11, <2>1, PodFrame DEF Join
<1>12. ASSUME NEW h \in Requests, Send(h) PROVE PodInv'
  <2>1. \A g \in Requests : pc[g] \in Ended \union {"new"} => pc'[g] \in Ended \union {"new"}
    BY <1>12, StartWaitMoved DEF Moved, Ended
  <2> QED
    BY <1>12, <2>1, PodFrame DEF Send
<1>13. ASSUME NEW h \in Requests, SendFails(h) PROVE PodInv'
  BY <1>13, PodFrame DEF SendFails, Ended, TypeInv, TypeOK
<1>14. ASSUME NEW h \in Requests, WaitTimeout(h) PROVE PodInv'
  <2>1. \A g \in Requests : pc[g] \in Ended \union {"new"} => pc'[g] \in Ended \union {"new"}
    BY <1>14, WaitTimeoutMoved DEF Moved, Ended
  <2> QED
    BY <1>14, <2>1, PodFrame DEF WaitTimeout
<1>15. ASSUME NEW h \in Requests, FailTarget(h) PROVE PodInv'
  <2>1. \A g \in Requests : pc[g] \in Ended \union {"new"} => pc'[g] \in Ended \union {"new"}
    BY <1>15, FailTargetMoved DEF Moved, Ended
  <2> QED
    BY <1>15, <2>1, PodFrame DEF FailTarget
<1>16. ASSUME NEW h \in Requests, ReplyStep(h) PROVE PodInv'
  <2>1. UNCHANGED <<up, beat, home>> /\ pc[h] \in Replying
    BY <1>16, ReplySteps
  <2> QED
    BY <1>16, <2>1, ReplyMoves, PodFrame DEF Ended
<1>17. ASSUME EventStep PROVE PodInv'
  BY <1>17, EventSteps, PodFrame
<1>18. ASSUME NEW p \in Pods, NEW r \in Requests, Poll(p, r) PROVE PodInv'
  <2>1. \A g \in Requests : pc[g] \in Ended \union {"new"} => pc'[g] \in Ended \union {"new"}
    BY <1>18, PollMoved DEF Moved, Ended
  <2> QED
    BY <1>18, <2>1, PodFrame DEF Poll
<1>19. ASSUME NEW p \in Pods, BackgroundReclaim(p) PROVE PodInv'
  BY <1>19, PodFrame DEF BackgroundReclaim
<1>20. ASSUME NEW d \in Deliveries, ResolveResponse(d) PROVE PodInv'
  <2>1. \A g \in Requests : pc[g] \in Ended \union {"new"} => pc'[g] \in Ended \union {"new"}
    BY <1>20, ResolveResponseMoved DEF Moved, Ended
  <2> QED
    BY <1>20, <2>1, PodFrame DEF ResolveResponse
<1>21. ASSUME NEW d \in Deliveries, StoreResponse(d) PROVE PodInv'
  BY <1>21, PodFrame DEF StoreResponse
<1>22. ASSUME NEW r \in Requests, AgentAnswers(r) PROVE PodInv'
  BY <1>22, PodFrame DEF AgentAnswers
<1>23. ASSUME NEW r \in Requests, EventDropped(r) PROVE PodInv'
  BY <1>23, PodFrame DEF EventDropped
<1>24. ASSUME NEW p \in Pods, Heartbeat(p) PROVE PodInv'
  BY <1>24 DEF Heartbeat, PodInv, UnseenIsDown, DownRunsNothing, TypeInv, TypeOK
<1>25. ASSUME NEW p \in Pods, GraceExpires(p) PROVE PodInv'
  BY <1>25 DEF GraceExpires, Punctual, PodInv, UnseenIsDown, DownRunsNothing, TypeInv, TypeOK
<1>26. ASSUME NEW p \in Pods, Crash(p) PROVE PodInv'
  <2>1. UnseenIsDown'
    BY <1>26 DEF Crash, PodInv, UnseenIsDown, TypeInv, TypeOK
  <2>2. DownRunsNothing'
    <3>1. \A h \in Requests : pc'[h] = IF home[h] = p /\ pc[h] \notin Ended THEN "lost" ELSE pc[h]
      BY <1>26 DEF Crash
    <3>2. "lost" \in Ended
      BY DEF Ended
    <3>3. up' = [up EXCEPT ![p] = FALSE] /\ up \in [Pods -> BOOLEAN] /\ home' = home
      BY <1>26 DEF Crash, TypeInv, TypeOK
    <3> QED
      BY <3>1, <3>2, <3>3 DEF PodInv, DownRunsNothing
  <2> QED
    BY <2>1, <2>2 DEF PodInv
<1>27. CASE UNCHANGED vars
  BY <1>27, PodFrame DEF vars
<1> QED
  BY <1>1, <1>2, <1>3, <1>4, <1>5, <1>6, <1>7, <1>8, <1>9, <1>10, <1>11, <1>12,
     <1>13, <1>14, <1>15, <1>16, <1>17, <1>18, <1>19, <1>20, <1>21, <1>22,
     <1>23, <1>24, <1>25, <1>26, <1>27
  DEF Next, HandlerStep, PodStep, ResponseStep, AgentStep, Environment, ReplyStep,
      EventStep

\* A stuck row has no driver: its pod is down, or nobody drives it.
LEMMA StuckIsUndriven ==
  ASSUME Punctual, TypeInv, PodInv, NEW late, NEW r \in Requests, Stuck(r, late),
         NEW h \in Requests
  PROVE  ~Drives(h, r)
<1>1. CASE PastCutoff(r, late)
  BY <1>1 DEF PastCutoff, Driven, Punctual
<1>2. CASE ~beat[owner[r]]
  <2> SUFFICES ASSUME Drives(h, r) PROVE FALSE
    OBVIOUS
  <2>1. home[h] \in Pods /\ home[h] = owner[r] /\ pc[h] \notin Ended \union {"new"}
    BY DEF Drives, TypeInv, PodKnown, Ended
  <2> QED
    BY <1>2, <2>1 DEF PodInv, UnseenIsDown, DownRunsNothing
<1> QED
  BY <1>1, <1>2 DEF Stuck

Spared ==
  \A r \in Requests :
    reclaims'[r] > reclaims[r] => \A h \in Requests : ~Drives(h, r)

\* Only a reclaim counts one, and it takes stuck rows only.
LEMMA SparedNext ==
  ASSUME Punctual, TypeInv, PodInv, [Next]_vars
  PROVE  Spared
<1> SUFFICES ASSUME NEW r \in Requests, reclaims'[r] > reclaims[r], NEW h \in Requests
             PROVE  ~Drives(h, r)
  BY DEF Spared
<1>1. reclaims \in [Requests -> Nat]
  BY DEF TypeInv, TypeOK
<1>2. reclaims' # reclaims
  BY <1>1
<1>e. ~EventStep /\ \A g \in Requests : ~ReplyStep(g)
  BY <1>2, EventSteps, ReplySteps
<1>3. ReclaimStuck
  BY <1>2, <1>e
  DEF Next, vars, HandlerStep, PodStep, ResponseStep, AgentStep, Environment, ReplyStep,
      EventStep, Arrive, AcquireLock, BeginInsert, CommitInsert, ReleaseLock, LockTimeout,
      StatementFails, ReclaimSession, BackgroundReclaim, Dequeue, NothingPending,
      Join, Send, SendFails, WaitTimeout, FailTarget, Poll, StoreResponse,
      ResolveResponse, AgentAnswers, EventDropped, Heartbeat, GraceExpires, Crash
<1>4. PICK late \in SUBSET Requests : Stuck(r, late)
  BY <1>1, <1>3 DEF ReclaimStuck
<1> QED
  BY <1>4, StuckIsUndriven

\* If no live pod misses its heartbeats and no send outlasts the buffer, a
\* reclaim, whose only means to tell are clocks, takes a row from nobody who
\* still sends it or waits for its answer; crashes do not matter.
THEOREM ReclaimTakesFromNobody == Punctual /\ Spec => ReclaimSparesDrivers
<1>1. Punctual /\ Init => TypeInv /\ PodInv
  <2>1. Punctual /\ Init => PodInv
    BY ConstantsAssumption DEF Punctual, Init, PodInv, UnseenIsDown, DownRunsNothing
  <2> QED
    BY <2>1, TypeInit
<1>2. Punctual /\ TypeInv /\ PodInv /\ [Next]_vars => (TypeInv /\ PodInv)'
  BY TypeNext, PodNext
<1>3. Punctual /\ TypeInv /\ PodInv /\ [Next]_vars => [Spared]_vars
  BY SparedNext
<1>4. CASE Punctual
  <2> QED
    BY <1>1, <1>2, <1>3, <1>4, PTL DEF Spec, ReclaimSparesDrivers, Spared
<1> QED
  BY <1>4

-----------------------------------------------------------------------------
(***************************************************************************)
(* What a resolved future says, and who still works on an open row.        *)
(***************************************************************************)
\* A future is one of a row there is; a resolved one, a handler that has been given
\* its own reply, and an event that carries one, say that the row is done.
FuturesKnown ==
  \A p \in Pods, r \in Requests :
    /\ registry[p][r] # "absent" => status[r] # "none"
    /\ registry[p][r] \in Results => status[r] \in Terminal
RepliesDone == \A h \in Requests : pc[h] \in Replying => status[h] \in Terminal
DeliveriesDone ==
  /\ \A r \in Requests : response[r] = "inflight" => status[r] \in Terminal
  /\ \A d \in Deliveries : carried[d] \in Requests => status[carried[d]] \in Terminal
Told == FuturesKnown /\ RepliesDone
Settled == Told /\ DeliveriesDone

\* The instances in which a handler ends with its row: it is neither killed nor cut
\* off by an exception, and no wait is given up.
Steady == {"crash", "dberror", "timeout"} \intersect Faults = {}

\* What one step does to a row: nothing, or the row is inserted, requeued or dequeued
\* (by a handler that drives it from then on), or it is done.
RowStep(r) ==
  \/ status'[r] = status[r] /\ owner'[r] = owner[r]
  \/ status[r] = "none" /\ status'[r] = "pending" /\ pc[r] = "commit" /\ pc'[r] = "unlock1"
  \/ status[r] = "processing" /\ status'[r] = "pending"
  \/ status[r] = "pending" /\ status'[r] = "processing" /\ (\E h \in Requests : Drives(h, r)')
  \/ status[r] # "none" /\ status'[r] \in Terminal

LEMMA TargetsExist ==
  ASSUME TypeInv, RowInv, NEW h \in Requests, target[h] \in Requests
  PROVE  status[target[h]] # "none"
BY DEF RowInv, MissingUntouched

\* A reclaim makes rows pending, or failed.
LEMMA ReclaimSteps ==
  ASSUME TypeInv, RowInv, ReclaimStuck, NEW r \in Requests
  PROVE  RowStep(r)
<1>1. \/ status[r] = "processing" /\ status'[r] = ReclaimedStatus
      \/ status'[r] = status[r] /\ owner'[r] = owner[r]
  BY DEF ReclaimStuck, Stuck
<1> QED
  BY <1>1 DEF ReclaimedStatus, RowStep, Terminal

\* A row whose status is overwritten with a terminal one, the others as they are.
LEMMA DoneSteps ==
  ASSUME TypeInv, NEW q \in Requests, status[q] # "none", NEW s \in Terminal,
         status' = [status EXCEPT ![q] = s], owner' = owner, NEW r \in Requests
  PROVE  RowStep(r)
BY DEF RowStep, TypeInv, TypeOK

LEMMA RowSteps ==
  ASSUME TypeInv, RowInv, [Next]_vars, NEW r \in Requests
  PROVE  RowStep(r)
<1>0. /\ status \in [Requests -> Statuses] /\ owner \in [Requests -> Pods \union {NoPod}]
      /\ pc \in [Requests -> Labels] /\ target \in [Requests -> Requests \union {NoRequest}]
  BY DEF TypeInv, TypeOK
<1>1. ASSUME NEW h \in Requests, CommitInsert(h) PROVE RowStep(r)
  <2>1. status[h] = "none"
    BY <1>1 DEF CommitInsert, RowInv, RowMissing, BeforeRow
  <2> QED
    BY <1>0, <1>1, <2>1 DEF CommitInsert, RowStep
<1>2. ASSUME NEW h \in Requests, LockTimeout(h) PROVE RowStep(r)
  <2>1. CASE status[h] = "none"
    BY <1>2, <2>1 DEF LockTimeout, RowStep
  <2>2. CASE status[h] # "none"
    BY <1>2, <2>2, DoneSteps DEF LockTimeout, Terminal
  <2> QED
    BY <2>1, <2>2
<1>3. ASSUME NEW h \in Requests, ReclaimSession(h) PROVE RowStep(r)
  BY <1>3, ReclaimSteps DEF ReclaimSession
<1>4. ASSUME NEW p \in Pods, BackgroundReclaim(p) PROVE RowStep(r)
  BY <1>4, ReclaimSteps DEF BackgroundReclaim
<1>5. ASSUME NEW h \in Requests, Dequeue(h) PROVE RowStep(r)
  <2>1. PICK q \in Requests :
          /\ OldestPending(q)
          /\ status' = [status EXCEPT ![q] = "processing"]
          /\ owner' = [owner EXCEPT ![q] = home[h]]
          /\ target' = [target EXCEPT ![h] = q]
    BY <1>5 DEF Dequeue
  <2>2. status[q] = "pending" /\ home' = home /\ pc' = [pc EXCEPT ![h] = "unlock2"]
    BY <1>5, <2>1 DEF OldestPending, Pending, Dequeue
  <2>3. CASE r = q
    <3>1. Drives(h, r)'
      BY <1>0, <2>1, <2>2, <2>3 DEF Drives
    <3> QED
      BY <1>0, <2>1, <2>2, <2>3, <3>1 DEF RowStep
  <2>4. CASE r # q
    BY <1>0, <2>1, <2>4 DEF RowStep
  <2> QED
    BY <2>3, <2>4
<1>6. ASSUME NEW h \in Requests, FailTarget(h) PROVE RowStep(r)
  <2>1. target[h] \in Requests
    BY <1>6 DEF FailTarget, TypeInv, TargetKnown
  <2>2. status[target[h]] # "none"
    BY <2>1, TargetsExist
  <2> QED
    BY <1>6, <2>1, <2>2, DoneSteps DEF FailTarget, Terminal
<1>7. ASSUME NEW d \in Deliveries, StoreResponse(d) PROVE RowStep(r)
  <2>1. status[carried[d]] # "none" /\ carried[d] \in Requests
    BY <1>7 DEF StoreResponse, RowInv, MissingUntouched, TypeInv, CarriedKnown
  <2>2. CASE UNCHANGED <<status, owner>>
    BY <2>2 DEF RowStep
  <2>3. CASE status' = [status EXCEPT ![carried[d]] = "completed"] /\ owner' = owner
    BY <2>1, <2>3, DoneSteps DEF Terminal
  <2> QED
    BY <1>7, <2>2, <2>3 DEF StoreResponse
<1>8. ASSUME NEW q \in Requests, AgentAnswers(q) PROVE RowStep(r)
  <2>1. status[q] # "none"
    BY <1>8 DEF AgentAnswers, RowInv, MissingUntouched
  <2>2. PICK s \in Terminal : status' = [status EXCEPT ![q] = s]
    BY <1>8 DEF AgentAnswers, Terminal
  <2> QED
    BY <1>8, <2>1, <2>2, DoneSteps DEF AgentAnswers
<1>9. ASSUME UNCHANGED <<status, owner>> PROVE RowStep(r)
  BY <1>9 DEF RowStep
<1>10. ASSUME NEW h \in Requests,
              \/ AcquireLock(h) \/ BeginInsert(h) \/ ReleaseLock(h) \/ NothingPending(h)
              \/ Join(h) \/ Send(h) \/ WaitTimeout(h) \/ StatementFails(h) \/ SendFails(h)
              \/ (\E p \in Pods : Arrive(h, p) \/ Poll(p, h)) \/ EventDropped(h)
       PROVE  RowStep(r)
  BY <1>9, <1>10
  DEF AcquireLock, BeginInsert, ReleaseLock, NothingPending, Join, Send, WaitTimeout,
      StatementFails, SendFails, Arrive, Poll, EventDropped
<1>11. ASSUME \/ EventStep \/ \E h \in Requests : ReplyStep(h)
              \/ \E d \in Deliveries : ResolveResponse(d)
       PROVE  RowStep(r)
  BY <1>9, <1>11, EventSteps, ReplySteps DEF ResolveResponse
<1>12. ASSUME NEW p \in Pods, Heartbeat(p) \/ GraceExpires(p) \/ Crash(p)
       PROVE  RowStep(r)
  BY <1>9, <1>12 DEF Heartbeat, GraceExpires, Crash
<1>13. CASE UNCHANGED vars
  BY <1>9, <1>13 DEF vars
<1> QED
  BY <1>1, <1>2, <1>3, <1>4, <1>5, <1>6, <1>7, <1>8, <1>10, <1>11, <1>12, <1>13
  DEF Next, HandlerStep, PodStep, ResponseStep, AgentStep, Environment, ReplyStep,
      EventStep

\* So no row disappears, and none that is done is reopened.
RowsKept ==
  \A r \in Requests :
    /\ status[r] # "none" => status'[r] # "none"
    /\ status[r] \in Terminal => status'[r] \in Terminal

LEMMA RowsAreKept ==
  ASSUME TypeInv, RowInv, [Next]_vars
  PROVE  RowsKept
BY RowSteps DEF RowStep, RowsKept, Terminal

\* A step that resolves no future and gives nobody his reply.
LEMMA ToldFrame ==
  ASSUME Told, RowsKept, UNCHANGED registry,
         \A h \in Requests : pc'[h] \in Replying => pc[h] \in Replying
  PROVE  Told'
BY DEF Told, RowsKept, FuturesKnown, RepliesDone

\* set_result for a row that is done, or whose future is not open.
LEMMA SetResultTold ==
  ASSUME TypeInv, Told, RowsKept, NEW p, NEW r \in Requests, NEW k \in Results,
         NEW pcs, SetResult(p, r, k, pcs),
         registry[p][r] = "open" => status'[r] \in Terminal,
         \A h \in Requests : pcs[h] \in Replying => pc[h] \in Replying
  PROVE  Told'
<1>0. registry \in [Pods -> [Requests -> Futures]]
  BY DEF TypeInv, TypeOK
<1>1. CASE registry[p][r] = "open"
  <2>1. RepliesDone'
    <3> SUFFICES ASSUME NEW h \in Requests, pc'[h] \in Replying
                 PROVE  status'[h] \in Terminal
      BY DEF RepliesDone
    <3>1. pc'[h] = IF h \in Waiters(p, r) THEN AfterReply(h, r) ELSE pcs[h]
      BY <1>1 DEF SetResult
    <3>2. CASE h \in Waiters(p, r)
      BY <1>1, <3>1, <3>2 DEF AfterReply
    <3>3. CASE h \notin Waiters(p, r)
      BY <3>1, <3>3 DEF Told, RepliesDone, RowsKept
    <3> QED
      BY <3>2, <3>3
  <2>2. \E v \in {k, "absent"} : registry' = [registry EXCEPT ![p][r] = v]
    BY <1>1 DEF SetResult
  <2>3. FuturesKnown'
    <3> SUFFICES ASSUME NEW o \in Pods, NEW q \in Requests
                 PROVE  /\ registry'[o][q] # "absent" => status'[q] # "none"
                        /\ registry'[o][q] \in Results => status'[q] \in Terminal
      BY DEF FuturesKnown
    <3>1. CASE o = p /\ q = r
      BY <1>1, <3>1 DEF Terminal
    <3>2. CASE ~(o = p /\ q = r)
      BY <1>0, <2>2, <3>2 DEF Told, FuturesKnown, RowsKept
    <3> QED
      BY <3>1, <3>2
  <2> QED
    BY <2>1, <2>3 DEF Told
<1>2. CASE registry[p][r] # "open"
  BY <1>2, ToldFrame DEF SetResult
<1> QED
  BY <1>1, <1>2

\* A wait that begins opens the future of a row there is, or takes a resolved one.
LEMMA StartWaitTold ==
  ASSUME TypeInv, Told, RowsKept, NEW h \in Requests, NEW r \in Requests, NEW at \in Waiting,
         home[h] \in Pods, status[r] # "none", StartWait(h, r, at)
  PROVE  Told'
<1>0. registry \in [Pods -> [Requests -> Futures]] /\ pc \in [Requests -> Labels]
  BY DEF TypeInv, TypeOK
<1>1. CASE registry[home[h]][r] \in Results
  <2>1. /\ registry' = [registry EXCEPT ![home[h]][r] = "absent"]
        /\ pc' = [pc EXCEPT ![h] = AfterReply(h, r)]
    BY <1>1 DEF StartWait
  <2>2. status[r] \in Terminal
    BY <1>1 DEF Told, FuturesKnown
  <2>3. RepliesDone'
    BY <1>0, <2>1, <2>2 DEF AfterReply, Told, RepliesDone, RowsKept
  <2>4. FuturesKnown'
    BY <1>0, <2>1 DEF Told, FuturesKnown, RowsKept, Results
  <2> QED
    BY <2>3, <2>4 DEF Told
<1>2. CASE registry[home[h]][r] \notin Results
  <2>1. /\ registry' = [registry EXCEPT ![home[h]][r] = "open"]
        /\ pc' = [pc EXCEPT ![h] = at]
    BY <1>2 DEF StartWait
  <2>2. RepliesDone'
    BY <1>0, <2>1 DEF Waiting, Told, RepliesDone, RowsKept
  <2>3. FuturesKnown'
    BY <1>0, <2>1 DEF Told, FuturesKnown, RowsKept, Results
  <2> QED
    BY <2>2, <2>3 DEF Told
<1> QED
  BY <1>1, <1>2

\* Every step keeps what futures say.
LEMMA ToldNext ==
  ASSUME TypeInv, RowInv, Told, DeliveriesDone, [Next]_vars
  PROVE  Told'
<1>0. /\ registry \in [Pods -> [Requests -> Futures]] /\ pc \in [Requests -> Labels]
      /\ target \in [Requests -> Requests \union {NoRequest}]
      /\ status \in [Requests -> Statuses] /\ home \in [Requests -> Pods \union {NoPod}]
  BY DEF TypeInv, TypeOK
<1>k. RowsKept
  BY RowsAreKept
<1>1. ASSUME NEW h \in Requests, CommitInsert(h) PROVE Told'
  <2>1. registry' = [registry EXCEPT ![home[h]][h] =
                       IF registry[home[h]][h] = "absent" THEN "open" ELSE registry[home[h]][h]]
    BY <1>0, <1>1 DEF CommitInsert, TypeInv, PodKnown
  <2>2. home[h] \in Pods /\ status'[h] = "pending" /\ pc' = [pc EXCEPT ![h] = "unlock1"]
    BY <1>0, <1>1 DEF CommitInsert, TypeInv, PodKnown
  <2>3. RepliesDone'
    BY <1>0, <1>k, <2>2 DEF Told, RepliesDone, RowsKept
  <2>4. FuturesKnown'
    BY <1>0, <1>k, <2>1, <2>2 DEF Told, FuturesKnown, RowsKept, Results
  <2> QED
    BY <2>3, <2>4 DEF Told
<1>2. ASSUME NEW h \in Requests, LockTimeout(h) PROVE Told'
  <2>1. home[h] \in Pods /\ "error" \in Results
    BY <1>2 DEF LockTimeout, TypeInv, PodKnown, Results
  <2>2. registry[home[h]][h] = "open" => status'[h] \in Terminal
    BY <1>0, <1>2, <2>1 DEF LockTimeout, Told, FuturesKnown, Terminal
  <2> DEFINE raised == [pc EXCEPT ![h] = "raised"]
  <2>3. \A g \in Requests : raised[g] \in Replying => pc[g] \in Replying
    BY <1>0
  <2>4. SetResult(home[h], h, "error", raised)
    BY <1>2 DEF LockTimeout
  <2> HIDE DEF raised
  <2> QED
    BY <1>k, <2>1, <2>2, <2>3, <2>4, SetResultTold
<1>3. ASSUME NEW h \in Requests, Join(h) PROVE Told'
  <2>1. home[h] \in Pods /\ status[h] # "none"
    BY <1>3 DEF Join, TypeInv, PodKnown, RowInv, RowExists, BeforeRow, Ended
  <2> QED
    BY <1>k, <1>3, <2>1, StartWaitTold DEF Join, Waiting
<1>4. ASSUME NEW h \in Requests, Send(h) PROVE Told'
  <2>1. home[h] \in Pods /\ target[h] \in Requests
    BY <1>4 DEF Send, TypeInv, PodKnown, TargetKnown
  <2>2. status[target[h]] # "none"
    BY <2>1, TargetsExist
  <2> QED
    BY <1>k, <1>4, <2>1, <2>2, StartWaitTold DEF Send, Waiting
<1>5. ASSUME NEW h \in Requests, WaitTimeout(h) PROVE Told'
  <2>1. registry' = [registry EXCEPT ![home[h]][target[h]] = "absent"]
    BY <1>5 DEF WaitTimeout
  <2>2. \A g \in Requests : pc'[g] \in Replying => pc[g] \in Replying
    BY <1>5 DEF WaitTimeout
  <2>3. RepliesDone'
    BY <1>k, <2>2 DEF Told, RepliesDone, RowsKept
  <2>4. FuturesKnown'
    BY <1>0, <1>k, <2>1 DEF Told, FuturesKnown, RowsKept, Results
  <2> QED
    BY <2>3, <2>4 DEF Told
<1>6. ASSUME NEW h \in Requests, FailTarget(h) PROVE Told'
  <2>1. target[h] \in Requests /\ home[h] \in Pods /\ "error" \in Results
    BY <1>6 DEF FailTarget, TypeInv, PodKnown, TargetKnown, Results
  <2>2. CASE target[h] = h /\ pc[h] = "timedout"
    <3> DEFINE raised == [pc EXCEPT ![h] = "raised"]
    <3>1. SetResult(home[h], h, "error", raised)
      BY <1>6, <2>2 DEF FailTarget
    <3>2. status'[h] \in Terminal
      BY <1>0, <1>6, <2>1, <2>2 DEF FailTarget, Terminal
    <3>3. \A g \in Requests : raised[g] \in Replying => pc[g] \in Replying
      BY <1>0
    <3> HIDE DEF raised
    <3> QED
      BY <1>k, <2>1, <3>1, <3>2, <3>3, SetResultTold
  <2>3. CASE ~(target[h] = h /\ pc[h] = "timedout")
    <3>1. registry' = registry
          /\ \A g \in Requests : pc'[g] \in Replying => pc[g] \in Replying
      BY <1>0, <1>6, <2>3 DEF FailTarget
    <3> QED
      BY <1>k, <3>1, ToldFrame
  <2> QED
    BY <2>2, <2>3
<1>7. ASSUME NEW p \in Pods, NEW r \in Requests, Poll(p, r) PROVE Told'
  <2>1. content[r] \in Results
    BY <1>7 DEF Poll, AnsweredRow, TypeInv, TypeOK
  <2>2. status[r] \in Terminal
    BY <1>0, <1>7 DEF Poll, AnsweredRow, RowInv, OpenRowUnanswered, MissingUntouched, Statuses, Terminal
  <2> QED
    BY <1>k, <1>7, <2>1, <2>2, SetResultTold DEF Poll
<1>8. ASSUME NEW d \in Deliveries, ResolveResponse(d) PROVE Told'
  <2>1. carried[d] \in Requests /\ "answer" \in Results
    BY <1>8 DEF ResolveResponse, TypeInv, CarriedKnown, Results
  <2>2. status'[carried[d]] \in Terminal
    BY <1>k, <2>1 DEF DeliveriesDone, RowsKept
  <2>3. SetResult(carrier[d], carried[d], "answer", pc)
    BY <1>8 DEF ResolveResponse
  <2> QED
    BY <1>k, <2>1, <2>2, <2>3, SetResultTold
<1>9. ASSUME NEW p \in Pods, Crash(p) PROVE Told'
  <2>1. \A g \in Requests : pc'[g] \in Replying => pc[g] \in Replying
    BY <1>9 DEF Crash
  <2>2. RepliesDone'
    BY <1>k, <2>1 DEF Told, RepliesDone, RowsKept
  <2>3. registry' = [registry EXCEPT ![p] = [r \in Requests |-> "absent"]]
    BY <1>9 DEF Crash
  <2>4. FuturesKnown'
    BY <1>0, <1>k, <2>3 DEF Told, FuturesKnown, RowsKept, Results
  <2> QED
    BY <2>2, <2>4 DEF Told
<1>10. ASSUME NEW h \in Requests,
              \/ AcquireLock(h) \/ BeginInsert(h) \/ ReleaseLock(h) \/ Dequeue(h) \/ NothingPending(h)
              \/ ReclaimSession(h) \/ StatementFails(h) \/ SendFails(h) \/ (\E p \in Pods : Arrive(h, p))
       PROVE  Told'
  <2>1. registry' = registry
        /\ \A g \in Requests : pc'[g] \in Replying => pc[g] \in Replying
    BY <1>0, <1>10
    DEF AcquireLock, BeginInsert, ReleaseLock, Dequeue, NothingPending, ReclaimSession,
        StatementFails, SendFails, Arrive
  <2> QED
    BY <1>k, <2>1, ToldFrame
<1>11. ASSUME UNCHANGED <<registry, pc>> PROVE Told'
  BY <1>k, <1>11, ToldFrame
<1>12. ASSUME \/ \E q \in Requests : AgentAnswers(q) \/ EventDropped(q)
              \/ \E d \in Deliveries : StoreResponse(d)
              \/ EventStep
       PROVE  Told'
  BY <1>11, <1>12, EventSteps DEF AgentAnswers, EventDropped, StoreResponse
<1>13. ASSUME NEW p \in Pods, BackgroundReclaim(p) \/ Heartbeat(p) \/ GraceExpires(p)
       PROVE  Told'
  BY <1>11, <1>13 DEF BackgroundReclaim, Heartbeat, GraceExpires
<1>14. ASSUME NEW h \in Requests, ReplyStep(h) PROVE Told'
  <2>1. registry' = registry
        /\ \A g \in Requests : pc'[g] \in Replying => pc[g] \in Replying
    BY <1>14, ReplySteps, ReplyMoves
  <2> QED
    BY <1>k, <2>1, ToldFrame
<1>15. CASE UNCHANGED vars
  BY <1>11, <1>15 DEF vars
<1> QED
  BY <1>1, <1>2, <1>3, <1>4, <1>5, <1>6, <1>7, <1>8, <1>9, <1>10, <1>12, <1>13,
     <1>14, <1>15
  DEF Next, HandlerStep, PodStep, ResponseStep, AgentStep, Environment, ReplyStep,
      EventStep

\* An event carries the reply of a row that is done: the agent writes the row first.
LEMMA DeliveriesNext ==
  ASSUME TypeInv, RowInv, DeliveriesDone, [Next]_vars
  PROVE  DeliveriesDone'
<1>0. /\ status \in [Requests -> Statuses] /\ NoRequest \notin Requests
      /\ response \in [Requests -> {"none", "inflight", "gone"}]
      /\ carried \in [Deliveries -> Requests \union {NoRequest}]
  BY ConstantsAssumption DEF TypeInv, TypeOK
<1>k. RowsKept
  BY RowsAreKept
\* What is in flight, and what is carried, was so before.
<1>f. ASSUME \A r \in Requests : response'[r] = "inflight" => response[r] = "inflight",
             \A d \in Deliveries : \/ carried'[d] \in {carried[d], NoRequest}
                                   \/ response[carried'[d]] = "inflight"
      PROVE  DeliveriesDone'
  BY <1>0, <1>k, <1>f DEF DeliveriesDone, RowsKept
<1>1. ASSUME NEW r \in Requests, AgentAnswers(r) PROVE DeliveriesDone'
  <2>1. status'[r] \in Terminal
    BY <1>0, <1>1 DEF AgentAnswers, Terminal
  <2>2. \A q \in Requests \ {r} : response'[q] = response[q]
    BY <1>0, <1>1 DEF AgentAnswers
  <2>3. carried' = carried
    BY <1>1 DEF AgentAnswers
  <2> QED
    BY <1>k, <2>1, <2>2, <2>3 DEF DeliveriesDone, RowsKept
<1>2. ASSUME NEW d \in Deliveries, NEW p \in Pods, NEW r \in Requests, Deliver(d, p, r)
      PROVE  DeliveriesDone'
  <2>1. \A q \in Requests : response'[q] = "inflight" => response[q] = "inflight"
    BY <1>0, <1>2 DEF Deliver
  <2>2. \A e \in Deliveries : carried'[e] \in {carried[e], NoRequest, r}
    BY <1>0, <1>2 DEF Deliver, Drop
  <2>3. response[r] = "inflight"
    BY <1>2 DEF Deliver
  <2> QED
    BY <1>f, <2>1, <2>2, <2>3
<1>3. ASSUME response' = response,
             \A d \in Deliveries : carried'[d] \in {carried[d], NoRequest}
      PROVE  DeliveriesDone'
  BY <1>f, <1>3
<1>4. ASSUME NEW d \in Deliveries,
             \/ TakeResponse(d) \/ StoreResponse(d) \/ ResolveResponse(d) \/ ForwardResponse(d)
             \/ SettleResponse(d) \/ ResponseFails(d)
      PROVE  DeliveriesDone'
  <2>1. response' = response /\ (Drop({d}) \/ carried' = carried)
    BY <1>4
    DEF TakeResponse, StoreResponse, ResolveResponse, ForwardResponse, SettleResponse,
        ResponseFails, GoOn
  <2> QED
    BY <1>3, <2>1 DEF Drop
<1>5. ASSUME NEW p \in Pods, Crash(p) PROVE DeliveriesDone'
  BY <1>3, <1>5 DEF Crash, Drop
<1>6. ASSUME NEW h \in Requests,
             \/ HandlerStep(h) \/ StatementFails(h) \/ SendFails(h) \/ ReplyFails(h)
             \/ EventDropped(h) \/ Age(h) \/ (\E p \in Pods : Arrive(h, p))
      PROVE  UNCHANGED <<response, carried>>
  BY <1>6
  DEF HandlerStep, AcquireLock, BeginInsert, CommitInsert, ReleaseLock, LockTimeout,
      ReclaimSession, Dequeue, NothingPending, Join, Send, WaitTimeout, FailTarget,
      ClaimReply, TakeReply, ForwardReply, SettleReply, StatementFails, SendFails, ReplyFails,
      EventDropped, Age, Arrive
<1>7. ASSUME NEW p \in Pods, PodStep(p) \/ GraceExpires(p)
      PROVE  UNCHANGED <<response, carried>>
  BY <1>7 DEF PodStep, Heartbeat, BackgroundReclaim, Poll, GraceExpires
<1>8. ASSUME UNCHANGED <<response, carried>> PROVE DeliveriesDone'
  BY <1>3, <1>8
<1> QED
  BY <1>1, <1>2, <1>4, <1>5, <1>6, <1>7, <1>8
  DEF Next, ResponseStep, AgentStep, Environment, vars

LEMMA SettledNext ==
  ASSUME TypeInv, RowInv, Settled, [Next]_vars
  PROVE  Settled'
BY ToldNext, DeliveriesNext DEF Settled

\* Where nothing is killed, raised or given up, a handler ends with a row that is done
\* or was never inserted.
LEMMA EndsWithRow ==
  ASSUME Steady, TypeInv, RowInv, Settled, [Next]_vars,
         NEW r \in Requests, pc[r] \notin Ended, pc'[r] \in Ended
  PROVE  status'[r] \in Terminal \union {"none"}
<1>0. /\ pc \in [Requests -> Labels] /\ status \in [Requests -> Statuses]
      /\ {"lock2", "claim", "wait", "await"} \intersect Ended = {}
  BY DEF TypeInv, TypeOK, Ended
<1>1. ASSUME NEW h \in Requests, LockTimeout(h) PROVE status'[r] \in Terminal \union {"none"}
  <2> DEFINE raised == [pc EXCEPT ![h] = "raised"]
  <2>1. raised \in [Requests -> Labels]
    BY <1>0 DEF Labels, Ended
  <2>2. SetResult(home[h], h, "error", raised)
    BY <1>1 DEF LockTimeout
  <2>3. r # h => raised[r] = pc[r]
    BY <1>0
  <2> HIDE DEF raised
  <2>4. r = h
    BY <1>0, <2>1, <2>2, <2>3, SetResultMoved
  <2> QED
    BY <1>0, <1>1, <2>4 DEF LockTimeout, Terminal
<1>2. ASSUME NEW h \in Requests, FailTarget(h) PROVE status'[r] \in Terminal \union {"none"}
  <2>1. CASE target[h] = h
    <3>1. status'[h] = "failed"
      BY <1>0, <1>2, <2>1 DEF FailTarget
    <3> DEFINE raised == [pc EXCEPT ![h] = "raised"]
    <3>2. raised \in [Requests -> Labels] /\ (r # h => raised[r] = pc[r])
      BY <1>0 DEF Labels, Ended
    <3>3. SetResult(home[h], h, "error", raised) \/ pc' = raised
      BY <1>2, <2>1 DEF FailTarget
    <3> HIDE DEF raised
    <3>4. r = h
      BY <1>0, <3>2, <3>3, SetResultMoved
    <3> QED
      BY <3>1, <3>4 DEF Terminal
  <2>2. CASE target[h] # h
    BY <1>0, <1>2, <2>2 DEF FailTarget
  <2> QED
    BY <2>1, <2>2
<1>3. ASSUME NEW h \in Requests, ReplyStep(h)
      PROVE  status'[r] \in Terminal \union {"none"}
  <2>1. r = h
    BY <1>0, <1>3, ReplyMoves
  <2> QED
    BY <1>3, <2>1, ReplySteps DEF Settled, Told, RepliesDone
<1>4. ASSUME NEW h \in Requests, Join(h) \/ Send(h) PROVE FALSE
  BY <1>0, <1>4 DEF Join, Send, StartWait, AfterReply
<1>5. ASSUME NEW p \in Pods, NEW q \in Requests, Poll(p, q) PROVE FALSE
  BY <1>0, <1>5, SetResultMoved DEF Poll
<1>6. ASSUME NEW d \in Deliveries, ResolveResponse(d) PROVE FALSE
  BY <1>0, <1>6, SetResultMoved DEF ResolveResponse
<1>7. ASSUME \/ \E h \in Requests : StatementFails(h) \/ WaitTimeout(h)
             \/ \E p \in Pods : Crash(p)
      PROVE FALSE
  BY <1>7 DEF Steady, StatementFails, WaitTimeout, Crash
<1>8. ASSUME NEW h \in Requests,
             \/ AcquireLock(h) \/ BeginInsert(h) \/ CommitInsert(h) \/ ReleaseLock(h)
             \/ ReclaimSession(h) \/ Dequeue(h) \/ NothingPending(h) \/ SendFails(h)
             \/ (\E p \in Pods : Arrive(h, p))
      PROVE FALSE
  BY <1>0, <1>8
  DEF AcquireLock, BeginInsert, CommitInsert, ReleaseLock, ReclaimSession, Dequeue,
      NothingPending, SendFails, Arrive, Ended
<1>9. ASSUME \/ \E q \in Requests : AgentAnswers(q) \/ EventDropped(q)
             \/ \E d \in Deliveries : StoreResponse(d)
             \/ EventStep
      PROVE  FALSE
  BY <1>9, EventSteps DEF AgentAnswers, EventDropped, StoreResponse
<1>10. ASSUME NEW p \in Pods, BackgroundReclaim(p) \/ Heartbeat(p) \/ GraceExpires(p)
       PROVE  FALSE
  BY <1>10 DEF BackgroundReclaim, Heartbeat, GraceExpires
<1>11. ASSUME UNCHANGED vars PROVE FALSE
  BY <1>11 DEF vars
<1> QED
  BY <1>1, <1>2, <1>3, <1>4, <1>5, <1>6, <1>7, <1>8, <1>9, <1>10, <1>11
  DEF Next, HandlerStep, PodStep, ResponseStep, AgentStep, Environment, ReplyStep,
      EventStep

LEMMA OutlivesNext ==
  ASSUME Steady, TypeInv, RowInv, Settled, HandlerOutlivesRow, [Next]_vars
  PROVE  HandlerOutlivesRow'
<1> SUFFICES ASSUME NEW r \in Requests, status'[r] \in {"pending", "processing"}, pc'[r] \in Ended
             PROVE  FALSE
  BY DEF HandlerOutlivesRow
<1>1. pc[r] \in Ended
  BY EndsWithRow DEF Terminal
<1>2. status[r] \notin {"pending", "processing"}
  BY <1>1 DEF HandlerOutlivesRow
<1> QED
  BY <1>1, <1>2, RowSteps DEF RowStep, Terminal, Ended

\* A handler that drives a row in processing drives it until the row is done or
\* reclaimed.
LEMMA DriverStays ==
  ASSUME Steady, TypeInv, RowInv, Settled, [Next]_vars,
         NEW h \in Requests, NEW r \in Requests, Drives(h, r),
         status[r] = "processing", status'[r] = "processing", owner'[r] = owner[r]
  PROVE  Drives(h, r)'
<1>0. /\ pc \in [Requests -> Labels] /\ status \in [Requests -> Statuses]
      /\ target \in [Requests -> Requests \union {NoRequest}]
      /\ home \in [Requests -> Pods \union {NoPod}]
      /\ NoRequest \notin Requests
  BY ConstantsAssumption DEF TypeInv, TypeOK
<1>d. /\ target[h] = r /\ home[h] = owner[r]
      /\ pc[h] \in {"unlock2", "send", "unsent", "wait", "timedout"}
  BY DEF Drives
\* A step of another handler, or of none.
<1>f. ASSUME pc'[h] = pc[h], target'[h] = target[h], home'[h] = home[h] PROVE Drives(h, r)'
  BY <1>f, <1>d DEF Drives
\* A future is resolved that is not the row's.
<1>s. ASSUME NEW p, NEW q, q # r, NEW k, NEW pcs, SetResult(p, q, k, pcs)
      PROVE  pc'[h] = pcs[h]
  BY <1>s, <1>d DEF SetResult, Waiters
<1>1. ASSUME NEW g \in Requests, ReleaseLock(g) PROVE Drives(h, r)'
  <2>1. CASE g = h
    BY <1>0, <1>1, <1>d, <2>1 DEF ReleaseLock, SomeDequeued, Drives
  <2>2. CASE g # h
    BY <1>0, <1>1, <1>f, <2>2 DEF ReleaseLock
  <2> QED
    BY <2>1, <2>2
<1>2. ASSUME NEW g \in Requests, LockTimeout(g) PROVE Drives(h, r)'
  <2>1. g # r
    BY <1>0, <1>2 DEF LockTimeout
  <2>2. g # h
    BY <1>2, <1>d DEF LockTimeout
  <2> DEFINE raised == [pc EXCEPT ![g] = "raised"]
  <2>3. SetResult(home[g], g, "error", raised) /\ raised[h] = pc[h]
    BY <1>0, <1>2, <2>2 DEF LockTimeout
  <2> HIDE DEF raised
  <2>4. pc'[h] = pc[h]
    BY <1>s, <2>1, <2>3
  <2> QED
    BY <1>2, <1>f, <2>4 DEF LockTimeout
<1>3. ASSUME NEW g \in Requests, FailTarget(g) PROVE Drives(h, r)'
  <2>1. target[g] # r /\ target[g] \in Requests
    BY <1>0, <1>3 DEF FailTarget, TypeInv, TargetKnown
  <2>2. g # h
    BY <1>d, <2>1
  <2>3. CASE target[g] = g /\ pc[g] = "timedout"
    <3> DEFINE raised == [pc EXCEPT ![g] = "raised"]
    <3>1. (SetResult(home[g], g, "error", raised) \/ pc' = raised) /\ raised[h] = pc[h]
      BY <1>0, <1>3, <2>2, <2>3 DEF FailTarget
    <3> HIDE DEF raised
    <3>2. pc'[h] = pc[h]
      BY <1>s, <2>1, <2>3, <3>1
    <3> QED
      BY <1>3, <1>f, <3>2 DEF FailTarget
  <2>4. CASE ~(target[g] = g /\ pc[g] = "timedout")
    BY <1>0, <1>3, <1>f, <2>2, <2>4 DEF FailTarget
  <2> QED
    BY <2>3, <2>4
<1>4. ASSUME NEW g \in Requests, Send(g) PROVE Drives(h, r)'
  <2>1. CASE g = h
    <3>1. home[h] \in Pods
      BY <1>4, <2>1 DEF Send, TypeInv, PodKnown
    <3>2. registry[home[h]][r] \notin Results
      BY <3>1 DEF Settled, Told, FuturesKnown, Terminal
    <3>3. pc'[h] = "wait"
      BY <1>0, <1>4, <1>d, <2>1, <3>2 DEF Send, StartWait
    <3> QED
      BY <1>4, <1>d, <3>3 DEF Send, Drives
  <2>2. CASE g # h
    BY <1>0, <1>4, <1>f, <2>2 DEF Send, StartWait
  <2> QED
    BY <2>1, <2>2
<1>5. ASSUME NEW g \in Requests, SendFails(g) PROVE Drives(h, r)'
  BY <1>0, <1>5, <1>d DEF SendFails, Drives
<1>6. ASSUME NEW g \in Requests, Join(g) PROVE Drives(h, r)'
  <2>1. g # h
    BY <1>6, <1>d DEF Join
  <2> QED
    BY <1>0, <1>6, <1>f, <2>1 DEF Join, StartWait
<1>7. ASSUME NEW p \in Pods, NEW q \in Requests, Poll(p, q) PROVE Drives(h, r)'
  <2>1. q # r
    BY <1>7 DEF Poll, AnsweredRow, RowInv, OpenRowUnanswered
  <2> QED
    BY <1>7, <1>f, <1>s, <2>1 DEF Poll
<1>8. ASSUME NEW d \in Deliveries, ResolveResponse(d) PROVE Drives(h, r)'
  <2>1. carried[d] # r
    BY <1>8 DEF Settled, DeliveriesDone, Terminal
  <2> QED
    BY <1>8, <1>f, <1>s, <2>1 DEF ResolveResponse
<1>9. ASSUME \/ \E g \in Requests : StatementFails(g) \/ WaitTimeout(g)
             \/ \E p \in Pods : Crash(p)
      PROVE FALSE
  BY <1>9 DEF Steady, StatementFails, WaitTimeout, Crash
<1>10. ASSUME NEW g \in Requests,
              \/ AcquireLock(g) \/ BeginInsert(g) \/ CommitInsert(g)
              \/ ReclaimSession(g) \/ Dequeue(g) \/ NothingPending(g)
              \/ (\E p \in Pods : Arrive(g, p))
       PROVE  Drives(h, r)'
  <2>1. g # h
    BY <1>10, <1>d
    DEF AcquireLock, BeginInsert, CommitInsert, ReclaimSession, Dequeue, NothingPending, Arrive
  <2>2. pc'[h] = pc[h] /\ target'[h] = target[h] /\ home'[h] = home[h]
    BY <1>0, <1>10, <2>1
    DEF AcquireLock, BeginInsert, CommitInsert, ReclaimSession, Dequeue, NothingPending, Arrive
  <2> QED
    BY <1>f, <2>2
<1>11. ASSUME UNCHANGED <<pc, target, home>> PROVE Drives(h, r)'
  BY <1>f, <1>11
<1>12. ASSUME \/ \E q \in Requests : AgentAnswers(q) \/ EventDropped(q)
              \/ \E d \in Deliveries : StoreResponse(d)
              \/ EventStep
       PROVE  Drives(h, r)'
  BY <1>11, <1>12, EventSteps DEF AgentAnswers, EventDropped, StoreResponse
<1>13. ASSUME NEW p \in Pods, BackgroundReclaim(p) \/ Heartbeat(p) \/ GraceExpires(p)
       PROVE  Drives(h, r)'
  BY <1>11, <1>13 DEF BackgroundReclaim, Heartbeat, GraceExpires
<1>14. ASSUME NEW g \in Requests, ReplyStep(g) PROVE Drives(h, r)'
  <2>1. g # h /\ UNCHANGED <<target, home>>
    BY <1>14, <1>d, ReplySteps
  <2> QED
    BY <1>f, <1>14, <2>1, ReplyMoves
<1>15. ASSUME UNCHANGED vars PROVE Drives(h, r)'
  BY <1>11, <1>15 DEF vars
<1> QED
  BY <1>1, <1>2, <1>3, <1>4, <1>5, <1>6, <1>7, <1>8, <1>9, <1>10, <1>12, <1>13,
     <1>14, <1>15
  DEF Next, HandlerStep, PodStep, ResponseStep, AgentStep, Environment, ReplyStep,
      EventStep

LEMMA DrivenNext ==
  ASSUME Steady, TypeInv, RowInv, Settled, ProcessingIsDriven, [Next]_vars
  PROVE  ProcessingIsDriven'
<1> SUFFICES ASSUME NEW r \in Requests, status'[r] = "processing"
             PROVE  \E h \in Requests : Drives(h, r)'
  BY DEF ProcessingIsDriven
<1>1. CASE status'[r] = status[r] /\ owner'[r] = owner[r]
  <2>1. PICK h \in Requests : Drives(h, r)
    BY <1>1 DEF ProcessingIsDriven
  <2> QED
    BY <1>1, <2>1, DriverStays
<1>2. CASE ~(status'[r] = status[r] /\ owner'[r] = owner[r])
  BY <1>2, RowSteps DEF RowStep, Terminal
<1> QED
  BY <1>1, <1>2

\* Whatever fails, a resolved future is one of a completed or failed row, and so is
\* the reply a handler is about to forward, or an event carries.
THEOREM FuturesTellTheTruth == Spec => []Settled
<1>1. Init => Settled
  BY ConstantsAssumption
  DEF Init, Settled, Told, FuturesKnown, RepliesDone, DeliveriesDone, Results
<1>2. TypeInv /\ RowInv /\ Settled /\ [Next]_vars => Settled'
  BY SettledNext
<1> QED
  BY <1>1, <1>2, RowCorrect, PTL DEF Spec

\* Unless it is killed, gets an exception from the database or gives up a wait, a
\* handler stays until its request is done, whatever other handlers, reclaims, lost
\* events, failed sends and lock timeouts do.
THEOREM HandlersOutliveRows == Steady /\ Spec => []HandlerOutlivesRow
<1>1. Init => HandlerOutlivesRow
  BY DEF Init, HandlerOutlivesRow
<1>2. Steady /\ TypeInv /\ RowInv /\ Settled /\ HandlerOutlivesRow /\ [Next]_vars
        => HandlerOutlivesRow'
  BY OutlivesNext
<1>3. CASE Steady
  BY <1>1, <1>2, <1>3, RowCorrect, FuturesTellTheTruth, PTL DEF Spec
<1> QED
  BY <1>3

\* In the same instances a row in processing has a handler that will complete or fail
\* it: whoever dequeued it last, although reclaims race with sends that outlast the
\* cutoff, and live pods are taken for dead.
THEOREM RowsAreDriven == Steady /\ Spec => []ProcessingIsDriven
<1>1. Init => ProcessingIsDriven
  BY DEF Init, ProcessingIsDriven
<1>2. Steady /\ TypeInv /\ RowInv /\ Settled /\ ProcessingIsDriven /\ [Next]_vars
        => ProcessingIsDriven'
  BY DrivenNext
<1>3. CASE Steady
  BY <1>1, <1>2, <1>3, RowCorrect, FuturesTellTheTruth, PTL DEF Spec
<1> QED
  BY <1>3
=============================================================================
