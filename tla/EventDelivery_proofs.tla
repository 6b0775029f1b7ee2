------------------------ MODULE EventDelivery_proofs ------------------------
(***************************************************************************)
(* Proofs about EventDelivery, for every number of events and handlers,    *)
(* every bound on posts and attempts, and every set of faults.             *)
(***************************************************************************)
EXTENDS EventDelivery, TLAPS

USE DEF brokerVars, claimVars, handlerVars, resultVars

(***************************************************************************)
(* Type correctness.  A handler that is at work has an event, and so has a *)
(* worker that is not idle.                                                *)
(***************************************************************************)
EventKnown == \A h \in Handlers : pc[h] \notin {"idle", "dead"} => event[h] \in Events
CurrentKnown ==
  /\ worker # "idle" => current \in Events
  /\ conn # NoHandler => worker = "waiting"
TypeInv == TypeOK /\ EventKnown /\ CurrentKnown

\* TypeOK by who has the variables: the handlers, the broker, the database.
HandlerTypes ==
  /\ \A h \in Handlers : agentLock = h <=> pc[h] = "process"
  /\ pc \in [Handlers -> Labels]
  /\ event \in [Handlers -> Events \union {NoEvent}]
  /\ reply \in [Handlers -> Replies]
  /\ agentLock \in Handlers \union {NoHandler}
BrokerTypes ==
  /\ queue \in Seq(Events)
  /\ worker \in {"idle", "waiting", "backoff"}
  /\ current \in Events \union {NoEvent}
  /\ conn \in Handlers \union {NoHandler}
  /\ attempts \in [Events -> Nat]
  /\ posts \in [Events -> Nat]
DataTypes ==
  /\ row \in [Events -> {"none", "open", "closed"}]
  /\ claim \in [Events -> Claims]
  /\ stale \in [Events -> BOOLEAN]
  /\ processed \in [Events -> Nat]
  /\ published \subseteq Events
  /\ occurred \subseteq FaultKinds

\* They make up TypeInv.
LEMMA TypeParts ==
  /\ TypeInv <=> HandlerTypes /\ EventKnown /\ BrokerTypes /\ CurrentKnown /\ DataTypes
  /\ TypeInv' <=> HandlerTypes' /\ EventKnown' /\ BrokerTypes' /\ CurrentKnown' /\ DataTypes'
BY DEF TypeInv, TypeOK, HandlerTypes, BrokerTypes, DataTypes

\* A handler at work that goes on, or replies, without the agent's lock keeps
\* the types.
LEMMA GotoTypes ==
  ASSUME HandlerTypes, EventKnown, UNCHANGED agentLock,
         NEW h \in Handlers, pc[h] \notin {"idle", "dead", "process"},
         NEW label \in Labels \ {"process"}, Goto(h, label)
  PROVE  HandlerTypes' /\ EventKnown'
BY DEF HandlerTypes, EventKnown, Goto

LEMMA GotoReplyTypes ==
  ASSUME HandlerTypes, EventKnown, UNCHANGED agentLock,
         NEW h \in Handlers, pc[h] \notin {"idle", "dead", "process"},
         NEW code \in Replies, GotoReply(h, code)
  PROVE  HandlerTypes' /\ EventKnown'
BY DEF HandlerTypes, EventKnown, GotoReply, Labels

\* The initial states have their types.
LEMMA TypeInit == Init => TypeInv
BY DeliveryAssumption
DEF Init, TypeInv, TypeOK, EventKnown, CurrentKnown, Claims, Labels, Working, Replies

\* Every step keeps the types and the exclusion by the agent's lock.
LEMMA TypeNext == TypeInv /\ [Next]_vars => TypeInv'
<1> SUFFICES ASSUME TypeInv, [Next]_vars PROVE TypeInv'
  OBVIOUS
<1>1. ASSUME NEW e \in Events, Accept(e) PROVE TypeInv'
  <2>0. HandlerTypes /\ EventKnown /\ BrokerTypes /\ CurrentKnown /\ DataTypes
    BY TypeParts
  <2>1. HandlerTypes' /\ EventKnown'
    BY <1>1, <2>0 DEF Accept, HandlerTypes, EventKnown
  <2>2. BrokerTypes' /\ CurrentKnown'
    BY <1>1, <2>0 DEF Accept, BrokerTypes, CurrentKnown
  <2>3. DataTypes'
    BY <1>1, <2>0, DeliveryAssumption DEF Accept, DataTypes
  <2> QED
    BY <2>1, <2>2, <2>3, TypeParts
<1>2. ASSUME NEW e \in Events, Post(e) PROVE TypeInv'
  <2>0. HandlerTypes /\ EventKnown /\ BrokerTypes /\ CurrentKnown /\ DataTypes
    BY TypeParts
  <2>1. HandlerTypes' /\ EventKnown'
    BY <1>2, <2>0 DEF Post, HandlerTypes, EventKnown
  <2>2. BrokerTypes' /\ CurrentKnown'
    BY <1>2, <2>0 DEF Post, Enqueued, BrokerTypes, CurrentKnown
  <2>3. DataTypes'
    BY <1>2, <2>0, DeliveryAssumption DEF Post, Occurs, DataTypes
  <2> QED
    BY <2>1, <2>2, <2>3, TypeParts
<1>3. ASSUME NEW e \in Events, CloseRow(e) PROVE TypeInv'
  <2>0. HandlerTypes /\ EventKnown /\ BrokerTypes /\ CurrentKnown /\ DataTypes
    BY TypeParts
  <2>1. HandlerTypes' /\ EventKnown'
    BY <1>3, <2>0 DEF CloseRow, HandlerTypes, EventKnown
  <2>2. BrokerTypes' /\ CurrentKnown'
    BY <1>3, <2>0 DEF CloseRow, BrokerTypes, CurrentKnown
  <2>3. DataTypes'
    BY <1>3, <2>0, DeliveryAssumption DEF CloseRow, Occurs, DataTypes
  <2> QED
    BY <2>1, <2>2, <2>3, TypeParts
<1>4. ASSUME NEW e \in Events, Age(e) PROVE TypeInv'
  <2>0. HandlerTypes /\ EventKnown /\ BrokerTypes /\ CurrentKnown /\ DataTypes
    BY TypeParts
  <2>1. HandlerTypes' /\ EventKnown'
    BY <1>4, <2>0 DEF Age, HandlerTypes, EventKnown
  <2>2. BrokerTypes' /\ CurrentKnown'
    BY <1>4, <2>0 DEF Age, BrokerTypes, CurrentKnown
  <2>3. DataTypes'
    BY <1>4, <2>0, DeliveryAssumption DEF Age, Occurs, DataTypes
  <2> QED
    BY <2>1, <2>2, <2>3, TypeParts
<1>5. ASSUME NEW h \in Handlers, Deliver(h) PROVE TypeInv'
  <2>0. HandlerTypes /\ EventKnown /\ BrokerTypes /\ CurrentKnown /\ DataTypes
    BY TypeParts
  <2>1. HandlerTypes' /\ EventKnown'
    BY <1>5, <2>0, DeliveryAssumption DEF Deliver, HandlerTypes, EventKnown, BrokerTypes,
      CurrentKnown, Labels, Working, Replies
  <2>2. BrokerTypes' /\ CurrentKnown'
    <3>1. posts' = posts /\ conn' = h /\ worker' = "waiting"
      BY <1>5 DEF Deliver
    <3>2. current' \in Events /\ queue' \in Seq(Events)
      <4>1. CASE queue # <<>> /\ current' = Head(queue) /\ queue' = Tail(queue)
        BY <2>0, <4>1 DEF BrokerTypes
      <4>2. CASE worker = "backoff" /\ UNCHANGED <<current, queue>>
        BY <2>0, <4>2 DEF BrokerTypes, CurrentKnown
      <4> QED
        BY <1>5, <4>1, <4>2 DEF Deliver
    <3>3. attempts' \in [Events -> Nat]
      <4>1. PICK f \in Events : f = current'
        BY <3>2
      <4>2. attempts' = [attempts EXCEPT ![f] = IF @ < MaxAttempts THEN @ + 1 ELSE @]
        BY <1>5, <4>1 DEF Deliver
      <4> QED
        BY <2>0, <4>2 DEF BrokerTypes
    <3> QED
      BY <2>0, <3>1, <3>2, <3>3 DEF BrokerTypes, CurrentKnown
  <2>3. DataTypes'
    BY <1>5, <2>0, DeliveryAssumption DEF Deliver, DataTypes, Claims, Working, Labels,
      HandlerTypes, EventKnown
  <2> QED
    BY <2>1, <2>2, <2>3, TypeParts
<1>6. ASSUME DeliveryTimeout PROVE TypeInv'
  <2>0. HandlerTypes /\ EventKnown /\ BrokerTypes /\ CurrentKnown /\ DataTypes
    BY TypeParts
  <2>1. HandlerTypes' /\ EventKnown'
    BY <1>6, <2>0 DEF DeliveryTimeout, HandlerTypes, EventKnown
  <2>2. BrokerTypes' /\ CurrentKnown'
    BY <1>6, <2>0 DEF DeliveryTimeout, EndDelivery, BrokerTypes, CurrentKnown
  <2>3. DataTypes'
    BY <1>6, <2>0, DeliveryAssumption DEF DeliveryTimeout, Occurs, DataTypes
  <2> QED
    BY <2>1, <2>2, <2>3, TypeParts
<1>7. ASSUME ConnectionReset PROVE TypeInv'
  <2>0. HandlerTypes /\ EventKnown /\ BrokerTypes /\ CurrentKnown /\ DataTypes
    BY TypeParts
  <2>1. HandlerTypes' /\ EventKnown'
    BY <1>7, <2>0 DEF ConnectionReset, HandlerTypes, EventKnown
  <2>2. BrokerTypes' /\ CurrentKnown'
    BY <1>7, <2>0 DEF ConnectionReset, EndDelivery, BrokerTypes, CurrentKnown
  <2>3. DataTypes'
    BY <1>7, <2>0, DeliveryAssumption DEF ConnectionReset, DataTypes
  <2> QED
    BY <2>1, <2>2, <2>3, TypeParts
<1>8. ASSUME NEW h \in Handlers, Reply(h) PROVE TypeInv'
  <2>0. HandlerTypes /\ EventKnown /\ BrokerTypes /\ CurrentKnown /\ DataTypes
    BY TypeParts
  <2>1. HandlerTypes' /\ EventKnown'
    BY <1>8, <2>0, DeliveryAssumption DEF Reply, HandlerTypes, EventKnown, BrokerTypes,
      CurrentKnown, Labels, Working, Replies
  <2>2. BrokerTypes' /\ CurrentKnown'
    <3>1. CASE conn = h
      <4>1. worker = "waiting"
        BY <2>0, <3>1, DeliveryAssumption DEF CurrentKnown
      <4>2. worker' \in {"idle", "backoff"}
        BY <1>8, <3>1 DEF Reply, EndDelivery
      <4>3. current' \in {current, NoEvent} /\ (worker' = "backoff" => current' = current)
        BY <1>8, <3>1 DEF Reply, EndDelivery
      <4>4. conn' = NoHandler /\ UNCHANGED <<queue, attempts, posts>>
        BY <1>8, <3>1 DEF Reply, EndDelivery
      <4> QED
        BY <2>0, <4>1, <4>2, <4>3, <4>4 DEF BrokerTypes, CurrentKnown
    <3>2. CASE conn # h
      BY <1>8, <2>0, <3>2 DEF Reply, BrokerTypes, CurrentKnown
    <3> QED
      BY <3>1, <3>2
  <2>3. DataTypes'
    BY <1>8, <2>0, DeliveryAssumption DEF Reply, DataTypes, Claims, Working, Labels,
      HandlerTypes, EventKnown
  <2> QED
    BY <2>1, <2>2, <2>3, TypeParts
<1>9. ASSUME NEW h \in Handlers, SelectClaim(h) PROVE TypeInv'
  <2>0. HandlerTypes /\ EventKnown /\ BrokerTypes /\ CurrentKnown /\ DataTypes
    BY TypeParts
  <2>1. HandlerTypes' /\ EventKnown'
    <3>1. pc[h] = "select" /\ UNCHANGED agentLock
      BY <1>9 DEF SelectClaim
    <3>2. NextOfClaim(claim[event[h]], stale[event[h]]) \in {"insert", "reclaim", "skip"}
      BY DEF NextOfClaim
    <3>3. PICK next \in {"insert", "reclaim", "skip"} :
            IF next = "skip" THEN Skip(h) ELSE Goto(h, next)
      BY <1>9, <3>2 DEF SelectClaim
    <3>4. CASE next = "skip"
      BY <2>0, <3>1, <3>3, <3>4, GotoReplyTypes DEF Skip, Replies
    <3>5. CASE next \in {"insert", "reclaim"}
      BY <2>0, <3>1, <3>3, <3>5, GotoTypes DEF Labels
    <3> QED
      BY <3>4, <3>5
  <2>2. BrokerTypes' /\ CurrentKnown'
    BY <1>9, <2>0 DEF SelectClaim, BrokerTypes, CurrentKnown
  <2>3. DataTypes'
    BY <1>9, <2>0, DeliveryAssumption DEF SelectClaim, DataTypes, Claims, Working, Labels,
      HandlerTypes, EventKnown
  <2> QED
    BY <2>1, <2>2, <2>3, TypeParts
<1>10. ASSUME NEW h \in Handlers, InsertClaim(h) PROVE TypeInv'
  <2>0. HandlerTypes /\ EventKnown /\ BrokerTypes /\ CurrentKnown /\ DataTypes
    BY TypeParts
  <2>1. HandlerTypes' /\ EventKnown'
    <3>1. pc[h] = "insert" /\ UNCHANGED agentLock /\ (Goto(h, "check") \/ Skip(h))
      BY <1>10 DEF InsertClaim
    <3>2. CASE Goto(h, "check")
      BY <2>0, <3>1, <3>2, GotoTypes DEF Labels, Working
    <3>3. CASE Skip(h)
      BY <2>0, <3>1, <3>3, GotoReplyTypes DEF Skip, Replies
    <3> QED
      BY <3>1, <3>2, <3>3
  <2>2. BrokerTypes' /\ CurrentKnown'
    BY <1>10, <2>0 DEF InsertClaim, BrokerTypes, CurrentKnown
  <2>3. DataTypes'
    <3>1. /\ claim' \in [Events -> Claims]
          /\ stale' \in [Events -> BOOLEAN]
      BY <1>10, <2>0 DEF InsertClaim, DataTypes, Claims
    <3>2. UNCHANGED <<row, processed, published, occurred>>
      BY <1>10 DEF InsertClaim
    <3> QED
      BY <2>0, <3>1, <3>2 DEF DataTypes
  <2> QED
    BY <2>1, <2>2, <2>3, TypeParts
<1>11. ASSUME NEW h \in Handlers, ReclaimClaim(h) PROVE TypeInv'
  <2>0. HandlerTypes /\ EventKnown /\ BrokerTypes /\ CurrentKnown /\ DataTypes
    BY TypeParts
  <2>1. HandlerTypes' /\ EventKnown'
    BY <1>11, <2>0, DeliveryAssumption DEF ReclaimClaim, Goto, HandlerTypes, EventKnown,
      BrokerTypes, CurrentKnown, Labels, Working, Replies
  <2>2. BrokerTypes' /\ CurrentKnown'
    BY <1>11, <2>0 DEF ReclaimClaim, BrokerTypes, CurrentKnown
  <2>3. DataTypes'
    BY <1>11, <2>0, DeliveryAssumption DEF ReclaimClaim, DataTypes, Claims, Working, Labels,
      HandlerTypes, EventKnown
  <2> QED
    BY <2>1, <2>2, <2>3, TypeParts
<1>12. ASSUME NEW h \in Handlers, CheckOrder(h) PROVE TypeInv'
  <2>0. HandlerTypes /\ EventKnown /\ BrokerTypes /\ CurrentKnown /\ DataTypes
    BY TypeParts
  <2>1. HandlerTypes' /\ EventKnown'
    BY <1>12, <2>0, DeliveryAssumption DEF CheckOrder, Goto, HandlerTypes, EventKnown,
      BrokerTypes, CurrentKnown, Labels, Working, Replies
  <2>2. BrokerTypes' /\ CurrentKnown'
    BY <1>12, <2>0 DEF CheckOrder, BrokerTypes, CurrentKnown
  <2>3. DataTypes'
    BY <1>12, <2>0, DeliveryAssumption DEF CheckOrder, DataTypes, Claims, Working, Labels,
      HandlerTypes, EventKnown
  <2> QED
    BY <2>1, <2>2, <2>3, TypeParts
<1>13. ASSUME NEW h \in Handlers, AcquireLock(h) PROVE TypeInv'
  <2>0. HandlerTypes /\ EventKnown /\ BrokerTypes /\ CurrentKnown /\ DataTypes
    BY TypeParts
  <2>1. HandlerTypes' /\ EventKnown'
    BY <1>13, <2>0, DeliveryAssumption DEF AcquireLock, LockFree, Goto, HandlerTypes,
      EventKnown, BrokerTypes, CurrentKnown, Labels, Working, Replies
  <2>2. BrokerTypes' /\ CurrentKnown'
    BY <1>13, <2>0 DEF AcquireLock, BrokerTypes, CurrentKnown
  <2>3. DataTypes'
    BY <1>13, <2>0, DeliveryAssumption DEF AcquireLock, DataTypes, Claims, Working, Labels,
      HandlerTypes, EventKnown
  <2> QED
    BY <2>1, <2>2, <2>3, TypeParts
<1>14. ASSUME NEW h \in Handlers, Process(h) PROVE TypeInv'
  <2>0. HandlerTypes /\ EventKnown /\ BrokerTypes /\ CurrentKnown /\ DataTypes
    BY TypeParts
  <2>1. HandlerTypes' /\ EventKnown'
    <3>1. pc[h] = "process" /\ agentLock' = NoHandler /\ UNCHANGED <<event, reply>>
      BY <1>14 DEF Process, Goto
    <3>2. PICK label \in {"store", "fail"} : pc' = [pc EXCEPT ![h] = label]
      BY <1>14 DEF Process, Goto
    <3>3. label \in Labels \ {"process"}
      BY <3>2 DEF Labels, Working
    <3> QED
      BY <2>0, <3>1, <3>2, <3>3, DeliveryAssumption DEF HandlerTypes, EventKnown
  <2>2. BrokerTypes' /\ CurrentKnown'
    BY <1>14, <2>0 DEF Process, BrokerTypes, CurrentKnown
  <2>3. DataTypes'
    BY <1>14, <2>0, DeliveryAssumption DEF Process, Occurs, DataTypes, Claims, Working,
      Labels, HandlerTypes, EventKnown
  <2> QED
    BY <2>1, <2>2, <2>3, TypeParts
<1>15. ASSUME NEW h \in Handlers, StoreAnswer(h) PROVE TypeInv'
  <2>0. HandlerTypes /\ EventKnown /\ BrokerTypes /\ CurrentKnown /\ DataTypes
    BY TypeParts
  <2>1. HandlerTypes' /\ EventKnown'
    BY <1>15, <2>0, DeliveryAssumption DEF StoreAnswer, Goto, HandlerTypes, EventKnown,
      BrokerTypes, CurrentKnown, Labels, Working, Replies
  <2>2. BrokerTypes' /\ CurrentKnown'
    BY <1>15, <2>0 DEF StoreAnswer, BrokerTypes, CurrentKnown
  <2>3. DataTypes'
    BY <1>15, <2>0, DeliveryAssumption DEF StoreAnswer, Occurs, DataTypes, Claims, Working,
      Labels, HandlerTypes, EventKnown
  <2> QED
    BY <2>1, <2>2, <2>3, TypeParts
<1>16. ASSUME NEW h \in Handlers, PublishAnswer(h) PROVE TypeInv'
  <2>0. HandlerTypes /\ EventKnown /\ BrokerTypes /\ CurrentKnown /\ DataTypes
    BY TypeParts
  <2>1. HandlerTypes' /\ EventKnown'
    BY <1>16, <2>0, DeliveryAssumption DEF PublishAnswer, Goto, HandlerTypes, EventKnown,
      BrokerTypes, CurrentKnown, Labels, Working, Replies
  <2>2. BrokerTypes' /\ CurrentKnown'
    BY <1>16, <2>0 DEF PublishAnswer, BrokerTypes, CurrentKnown
  <2>3. DataTypes'
    BY <1>16, <2>0, DeliveryAssumption DEF PublishAnswer, Occurs, DataTypes, Claims,
      Working, Labels, HandlerTypes, EventKnown
  <2> QED
    BY <2>1, <2>2, <2>3, TypeParts
<1>17. ASSUME NEW h \in Handlers, SettleSuccess(h) PROVE TypeInv'
  <2>0. HandlerTypes /\ EventKnown /\ BrokerTypes /\ CurrentKnown /\ DataTypes
    BY TypeParts
  <2>1. HandlerTypes' /\ EventKnown'
    BY <1>17, <2>0, DeliveryAssumption DEF SettleSuccess, Settle, GotoReply, HandlerTypes,
      EventKnown, BrokerTypes, CurrentKnown, Labels, Working, Replies
  <2>2. BrokerTypes' /\ CurrentKnown'
    BY <1>17, <2>0 DEF SettleSuccess, Settle, BrokerTypes, CurrentKnown
  <2>3. DataTypes'
    BY <1>17, <2>0, DeliveryAssumption DEF SettleSuccess, Settle, DataTypes, Claims,
      Working, Labels, HandlerTypes, EventKnown
  <2> QED
    BY <2>1, <2>2, <2>3, TypeParts
<1>18. ASSUME NEW h \in Handlers, SettleError(h) PROVE TypeInv'
  <2>0. HandlerTypes /\ EventKnown /\ BrokerTypes /\ CurrentKnown /\ DataTypes
    BY TypeParts
  <2>1. HandlerTypes' /\ EventKnown'
    BY <1>18, <2>0, DeliveryAssumption DEF SettleError, Settle, GotoReply, HandlerTypes,
      EventKnown, BrokerTypes, CurrentKnown, Labels, Working, Replies
  <2>2. BrokerTypes' /\ CurrentKnown'
    BY <1>18, <2>0 DEF SettleError, Settle, BrokerTypes, CurrentKnown
  <2>3. DataTypes'
    BY <1>18, <2>0, DeliveryAssumption DEF SettleError, Settle, DataTypes, Claims, Working,
      Labels, HandlerTypes, EventKnown
  <2> QED
    BY <2>1, <2>2, <2>3, TypeParts
<1>19. ASSUME NEW h \in Handlers, ReleaseClaim(h) PROVE TypeInv'
  <2>0. HandlerTypes /\ EventKnown /\ BrokerTypes /\ CurrentKnown /\ DataTypes
    BY TypeParts
  <2>1. HandlerTypes' /\ EventKnown'
    BY <1>19, <2>0, DeliveryAssumption DEF ReleaseClaim, GotoReply, HandlerTypes,
      EventKnown, BrokerTypes, CurrentKnown, Labels, Working, Replies
  <2>2. BrokerTypes' /\ CurrentKnown'
    BY <1>19, <2>0 DEF ReleaseClaim, BrokerTypes, CurrentKnown
  <2>3. DataTypes'
    BY <1>19, <2>0, DeliveryAssumption DEF ReleaseClaim, DataTypes, Claims, Working, Labels,
      HandlerTypes, EventKnown
  <2> QED
    BY <2>1, <2>2, <2>3, TypeParts
<1>20. ASSUME NEW h \in Handlers, Replace(h) PROVE TypeInv'
  <2>0. HandlerTypes /\ EventKnown /\ BrokerTypes /\ CurrentKnown /\ DataTypes
    BY TypeParts
  <2>1. HandlerTypes' /\ EventKnown'
    BY <1>20, <2>0, DeliveryAssumption DEF Replace, HandlerTypes, EventKnown, BrokerTypes,
      CurrentKnown, Labels, Working, Replies
  <2>2. BrokerTypes' /\ CurrentKnown'
    BY <1>20, <2>0 DEF Replace, BrokerTypes, CurrentKnown
  <2>3. DataTypes'
    BY <1>20, <2>0, DeliveryAssumption DEF Replace, DataTypes, Claims, Working, Labels,
      HandlerTypes, EventKnown
  <2> QED
    BY <2>1, <2>2, <2>3, TypeParts
<1>21. ASSUME NEW h \in Handlers, LockTimeout(h) PROVE TypeInv'
  <2>0. HandlerTypes /\ EventKnown /\ BrokerTypes /\ CurrentKnown /\ DataTypes
    BY TypeParts
  <2>1. HandlerTypes' /\ EventKnown'
    BY <1>21, <2>0, DeliveryAssumption DEF LockTimeout, Goto, HandlerTypes, EventKnown,
      BrokerTypes, CurrentKnown, Labels, Working, Replies
  <2>2. BrokerTypes' /\ CurrentKnown'
    BY <1>21, <2>0 DEF LockTimeout, BrokerTypes, CurrentKnown
  <2>3. DataTypes'
    BY <1>21, <2>0, DeliveryAssumption DEF LockTimeout, Occurs, DataTypes, Claims, Working,
      Labels, HandlerTypes, EventKnown
  <2> QED
    BY <2>1, <2>2, <2>3, TypeParts
<1>22. ASSUME NEW h \in Handlers, StatementFails(h) PROVE TypeInv'
  <2>0. HandlerTypes /\ EventKnown /\ BrokerTypes /\ CurrentKnown /\ DataTypes
    BY TypeParts
  <2>1. HandlerTypes' /\ EventKnown'
    <3>1. UNCHANGED agentLock
      BY <1>22 DEF StatementFails
    <3>2. \/ \E code \in Replies : GotoReply(h, code) /\ pc[h] \notin {"idle", "dead", "process"}
          \/ Goto(h, "fail") /\ pc[h] \notin {"idle", "dead", "process"}
      BY <1>22 DEF StatementFails, Skip, Replies
    <3>3. ASSUME NEW code \in Replies, GotoReply(h, code), pc[h] \notin {"idle", "dead", "process"}
          PROVE  HandlerTypes' /\ EventKnown'
      BY <2>0, <3>1, <3>3, GotoReplyTypes
    <3>4. CASE Goto(h, "fail") /\ pc[h] \notin {"idle", "dead", "process"}
      BY <2>0, <3>1, <3>4, GotoTypes DEF Labels
    <3> QED
      BY <3>2, <3>3, <3>4
  <2>2. BrokerTypes' /\ CurrentKnown'
    BY <1>22, <2>0 DEF StatementFails, BrokerTypes, CurrentKnown
  <2>3. DataTypes'
    BY <1>22, <2>0, DeliveryAssumption DEF StatementFails, Occurs, DataTypes, Claims,
      Working, Labels, HandlerTypes, EventKnown
  <2> QED
    BY <2>1, <2>2, <2>3, TypeParts
<1>23. ASSUME NEW h \in Handlers, AgentCrash(h) PROVE TypeInv'
  <2>0. HandlerTypes /\ EventKnown /\ BrokerTypes /\ CurrentKnown /\ DataTypes
    BY TypeParts
  <2>1. HandlerTypes' /\ EventKnown'
    BY <1>23, <2>0, DeliveryAssumption DEF AgentCrash, HandlerTypes, EventKnown,
      BrokerTypes, CurrentKnown, Labels, Working, Replies
  <2>2. BrokerTypes' /\ CurrentKnown'
    BY <1>23, <2>0 DEF AgentCrash, BrokerTypes, CurrentKnown
  <2>3. DataTypes'
    BY <1>23, <2>0, DeliveryAssumption DEF AgentCrash, Occurs, DataTypes, Claims, Working,
      Labels, HandlerTypes, EventKnown
  <2> QED
    BY <2>1, <2>2, <2>3, TypeParts
<1>24. ASSUME UNCHANGED vars PROVE TypeInv'
  BY <1>24 DEF vars, TypeInv, TypeOK, EventKnown, CurrentKnown
<1> QED
  BY <1>1, <1>2, <1>3, <1>4, <1>5, <1>6, <1>7, <1>8, <1>9, <1>10, <1>11, <1>12, <1>13,
      <1>14, <1>15, <1>16, <1>17, <1>18, <1>19, <1>20, <1>21, <1>22, <1>23, <1>24
  DEF Next, HandlerStep, WorkerStep, Environment

\* Type correctness, and with it the exclusion by the agent's session lock: it
\* is held by exactly the handler that processes, whatever crashes or fails.
THEOREM DeliveryTypes == Spec => []TypeOK
<1>1. TypeInv => TypeOK
  BY DEF TypeInv
<1> QED
  BY <1>1, TypeInit, TypeNext, PTL DEF Spec

-----------------------------------------------------------------------------
(***************************************************************************)
(* Processing in order.  Rows appear in their order, so once a handler has *)
(* found none of the earlier rows open, none will be open again.           *)
(***************************************************************************)
RowsInOrder == \A e \in Events : row[e] # "none" => \A f \in Earlier(e) : row[f] # "none"
\* Whatever the broker or a handler has, has a row.
Posted ==
  /\ \A i \in 1..Len(queue) : row[queue[i]] # "none"
  /\ worker # "idle" => row[current] # "none"
  /\ \A h \in Handlers : pc[h] \notin {"idle", "dead"} => row[event[h]] # "none"
NoneEarlier ==
  \A h \in Handlers : pc[h] \in {"lock", "process"} => \A f \in Earlier(event[h]) : row[f] # "open"
OrderInv == RowsInOrder /\ Posted /\ NoneEarlier

\* Rows neither disappear nor, once there, open again.
RowsGoOn ==
  /\ row' \in [Events -> {"none", "open", "closed"}]
  /\ \A e \in Events : row[e] # "none" => row'[e] # "none"
  /\ \A e \in Events : row'[e] = "open" => row[e] \in {"none", "open"}

\* A step of handlers and rows keeps the order, if whoever enters `lock' or
\* `process' has seen no earlier row open, and no missing row becomes open.
LEMMA OrderFrame ==
  ASSUME TypeInv, OrderInv, RowsGoOn,
         \A e \in Events : row[e] = "none" => row'[e] = "none",
         UNCHANGED queue,
         worker' # "idle" => worker # "idle" /\ current' = current,
         \A h \in Handlers :
           pc'[h] \notin {"idle", "dead"} =>
             pc[h] \notin {"idle", "dead"} /\ event'[h] = event[h],
         \A h \in Handlers :
           pc'[h] \in {"lock", "process"} =>
             \/ pc[h] \in {"lock", "process"}
             \/ \A f \in Earlier(event[h]) : row[f] # "open"
  PROVE  OrderInv'
<1>1. RowsInOrder'
  BY DEF OrderInv, RowsInOrder, RowsGoOn, Earlier
<1>2. Posted'
  BY DEF OrderInv, Posted, RowsGoOn, TypeInv, TypeOK, EventKnown, CurrentKnown
<1>3. NoneEarlier'
  BY DEF OrderInv, Posted, RowsInOrder, NoneEarlier, RowsGoOn, Earlier, TypeInv, EventKnown
<1> QED
  BY <1>1, <1>2, <1>3 DEF OrderInv

\* Every step keeps the order.
LEMMA OrderNext == TypeInv /\ OrderInv /\ [Next]_vars => OrderInv'
<1> SUFFICES ASSUME TypeInv, OrderInv, [Next]_vars PROVE OrderInv'
  OBVIOUS
<1>1. ASSUME NEW e \in Events, Accept(e) PROVE OrderInv'
  <2>1. RowsInOrder'
    BY <1>1 DEF Accept, OrderInv, RowsInOrder, Earlier, TypeInv, TypeOK
  <2>2. \A f \in Events : row[f] # "none" => row'[f] = row[f]
    BY <1>1 DEF Accept, TypeInv, TypeOK
  <2>3. Posted'
    <3>1. /\ \A i \in 1..Len(queue) : queue[i] \in Events
          /\ worker # "idle" => current \in Events
          /\ \A h \in Handlers : pc[h] \notin {"idle", "dead"} => event[h] \in Events
      BY DEF TypeInv, TypeOK, EventKnown, CurrentKnown
    <3>2. Posted /\ UNCHANGED <<queue, worker, current, pc, event>>
      BY <1>1 DEF Accept, OrderInv
    <3> QED
      BY <2>2, <3>1, <3>2 DEF Posted
  <2>4. NoneEarlier'
    <3> SUFFICES ASSUME NEW h \in Handlers, pc[h] \in {"lock", "process"},
                        NEW f \in Earlier(event[h])
                 PROVE  row'[f] # "open"
      BY <1>1 DEF Accept, NoneEarlier, Earlier
    <3>1. row[event[h]] # "none" /\ event[h] \in Events
      BY DEF OrderInv, Posted, TypeInv, EventKnown
    <3>2. row[f] # "none" /\ row[f] # "open" /\ f \in Events
      BY <3>1 DEF OrderInv, RowsInOrder, NoneEarlier, Earlier
    <3> QED
      BY <2>2, <3>2
  <2> QED
    BY <2>1, <2>3, <2>4 DEF OrderInv
<1>2. ASSUME NEW e \in Events, Post(e) PROVE OrderInv'
  <2>1. queue' = Append(queue, e) /\ queue \in Seq(Events) /\ row[e] # "none"
    BY <1>2 DEF Post, Enqueued, TypeInv, TypeOK
  <2>2. \A i \in 1..Len(queue') : queue'[i] = e \/ (i \in 1..Len(queue) /\ queue'[i] = queue[i])
    BY <2>1
  <2>3. UNCHANGED <<row, worker, current, pc, event>>
    BY <1>2 DEF Post
  <2>4. Posted'
    BY <2>1, <2>2, <2>3 DEF OrderInv, Posted
  <2> QED
    BY <2>3, <2>4 DEF OrderInv, RowsInOrder, NoneEarlier, Earlier
<1>3. ASSUME NEW e \in Events, CloseRow(e) PROVE OrderInv'
  BY <1>3, OrderFrame DEF CloseRow, Occurs, RowsGoOn, TypeInv, TypeOK
<1>4. ASSUME NEW e \in Events, Age(e) PROVE OrderInv'
  BY <1>4, OrderFrame DEF Age, Occurs, RowsGoOn, TypeInv, TypeOK
<1>5. ASSUME NEW h \in Handlers, Deliver(h) PROVE OrderInv'
  <2>1. UNCHANGED row /\ queue \in Seq(Events)
    BY <1>5 DEF Deliver, TypeInv, TypeOK
  <2>2. row[current'] # "none" /\ (\A i \in 1..Len(queue') : row[queue'[i]] # "none")
    <3>1. CASE queue # <<>> /\ current' = Head(queue) /\ queue' = Tail(queue)
      <4>1. Head(queue) = queue[1] /\ 1 \in 1..Len(queue)
        BY <2>1, <3>1
      <4>2. \A i \in 1..Len(Tail(queue)) : Tail(queue)[i] = queue[i + 1] /\ i + 1 \in 1..Len(queue)
        BY <2>1, <3>1
      <4> QED
        BY <3>1, <4>1, <4>2 DEF OrderInv, Posted
    <3>2. CASE worker = "backoff" /\ UNCHANGED <<current, queue>>
      BY <3>2 DEF OrderInv, Posted
    <3> QED
      BY <1>5, <3>1, <3>2 DEF Deliver
  <2>3. pc' = [pc EXCEPT ![h] = "select"] /\ event' = [event EXCEPT ![h] = current']
    BY <1>5 DEF Deliver
  <2>4. Posted'
    BY <2>1, <2>2, <2>3 DEF OrderInv, Posted, TypeInv, TypeOK
  <2>5. NoneEarlier'
    BY <2>1, <2>3 DEF OrderInv, NoneEarlier, Earlier, TypeInv, TypeOK
  <2> QED
    BY <2>1, <2>4, <2>5 DEF OrderInv, RowsInOrder, Earlier
<1>6. ASSUME DeliveryTimeout PROVE OrderInv'
  <2>1. UNCHANGED <<row, queue, pc, event>>
    BY <1>6 DEF DeliveryTimeout, EndDelivery
  <2>2. worker = "waiting" /\ (worker' # "idle" => current' = current)
    BY <1>6 DEF DeliveryTimeout, EndDelivery
  <2> QED
    BY <2>1, <2>2, OrderFrame DEF RowsGoOn, TypeInv, TypeOK
<1>7. ASSUME ConnectionReset PROVE OrderInv'
  <2>1. UNCHANGED <<row, queue, pc, event>>
    BY <1>7 DEF ConnectionReset, EndDelivery
  <2>2. worker = "waiting" /\ (worker' # "idle" => current' = current)
    BY <1>7 DEF ConnectionReset, EndDelivery
  <2> QED
    BY <2>1, <2>2, OrderFrame DEF RowsGoOn, TypeInv, TypeOK
<1>8. ASSUME NEW h \in Handlers, Reply(h) PROVE OrderInv'
  <2>1. UNCHANGED <<row, queue>>
    BY <1>8 DEF Reply, EndDelivery
  <2>2. worker' # "idle" => worker # "idle" /\ current' = current
    <3>1. CASE conn = h
      <4>1. worker # "idle"
        BY <3>1, DeliveryAssumption DEF TypeInv, CurrentKnown
      <4> QED
        BY <1>8, <3>1, <4>1 DEF Reply, EndDelivery
    <3> QED
      BY <1>8, <3>1 DEF Reply
  <2>3. pc[h] = "reply" /\ pc' = [pc EXCEPT ![h] = "idle"]
        /\ event' = [event EXCEPT ![h] = NoEvent]
    BY <1>8 DEF Reply
  <2> QED
    BY <2>1, <2>2, <2>3, OrderFrame DEF RowsGoOn, TypeInv, TypeOK
<1>9. ASSUME NEW h \in Handlers, SelectClaim(h) PROVE OrderInv'
  <2>1. UNCHANGED <<row, queue, worker, current, event>> /\ pc[h] = "select"
    BY <1>9 DEF SelectClaim, Skip, Goto, GotoReply
  <2>2. PICK label \in {"insert", "reclaim", "reply"} : pc' = [pc EXCEPT ![h] = label]
    BY <1>9 DEF SelectClaim, NextOfClaim, Skip, Goto, GotoReply
  <2> QED
    BY <2>1, <2>2, OrderFrame DEF RowsGoOn, TypeInv, TypeOK
<1>10. ASSUME NEW h \in Handlers, InsertClaim(h) PROVE OrderInv'
  BY <1>10, OrderFrame DEF InsertClaim, Skip, Goto, GotoReply, RowsGoOn, TypeInv, TypeOK
<1>11. ASSUME NEW h \in Handlers, ReclaimClaim(h) PROVE OrderInv'
  BY <1>11, OrderFrame DEF ReclaimClaim, Goto, RowsGoOn, TypeInv, TypeOK
<1>12. ASSUME NEW h \in Handlers, CheckOrder(h) PROVE OrderInv'
  <2>1. UNCHANGED <<row, queue, worker, current, event>> /\ pc[h] = "check"
    BY <1>12 DEF CheckOrder, Goto
  <2>2. PICK label \in {"release", "lock"} :
          /\ pc' = [pc EXCEPT ![h] = label]
          /\ label = "lock" => ~HasEarlier(event[h])
    BY <1>12 DEF CheckOrder, Goto
  <2>3. label = "lock" => \A f \in Earlier(event[h]) : row[f] # "open"
    BY <2>2 DEF HasEarlier
  <2> QED
    BY <2>1, <2>2, <2>3, OrderFrame DEF RowsGoOn, TypeInv, TypeOK
<1>13. ASSUME NEW h \in Handlers, AcquireLock(h) PROVE OrderInv'
  BY <1>13, OrderFrame DEF AcquireLock, LockFree, Goto, RowsGoOn, TypeInv, TypeOK
<1>14. ASSUME NEW h \in Handlers, Process(h) PROVE OrderInv'
  BY <1>14, OrderFrame DEF Process, Goto, Occurs, RowsGoOn, TypeInv, TypeOK
<1>15. ASSUME NEW h \in Handlers, StoreAnswer(h) PROVE OrderInv'
  <2>1. pc[h] = "store" /\ pc' = [pc EXCEPT ![h] = "publish"]
        /\ UNCHANGED <<queue, worker, current, event>>
    BY <1>15 DEF StoreAnswer, Goto
  <2>2. row[event[h]] # "none"
    BY <2>1 DEF OrderInv, Posted
  <2>3. RowsGoOn /\ \A f \in Events : row[f] = "none" => row'[f] = "none"
    BY <1>15, <2>2 DEF StoreAnswer, RowsGoOn, TypeInv, TypeOK
  <2> QED
    BY <2>1, <2>3, OrderFrame DEF TypeInv, TypeOK
<1>16. ASSUME NEW h \in Handlers, PublishAnswer(h) PROVE OrderInv'
  BY <1>16, OrderFrame DEF PublishAnswer, Goto, Occurs, RowsGoOn, TypeInv, TypeOK
<1>17. ASSUME NEW h \in Handlers, SettleSuccess(h) PROVE OrderInv'
  BY <1>17, OrderFrame DEF SettleSuccess, Settle, GotoReply, RowsGoOn, TypeInv, TypeOK
<1>18. ASSUME NEW h \in Handlers, SettleError(h) PROVE OrderInv'
  BY <1>18, OrderFrame DEF SettleError, Settle, GotoReply, RowsGoOn, TypeInv, TypeOK
<1>19. ASSUME NEW h \in Handlers, ReleaseClaim(h) PROVE OrderInv'
  BY <1>19, OrderFrame DEF ReleaseClaim, GotoReply, RowsGoOn, TypeInv, TypeOK
<1>20. ASSUME NEW h \in Handlers, Replace(h) PROVE OrderInv'
  BY <1>20, OrderFrame DEF Replace, RowsGoOn, TypeInv, TypeOK
<1>21. ASSUME NEW h \in Handlers, LockTimeout(h) PROVE OrderInv'
  BY <1>21, OrderFrame DEF LockTimeout, Goto, Occurs, RowsGoOn, TypeInv, TypeOK
<1>22. ASSUME NEW h \in Handlers, StatementFails(h) PROVE OrderInv'
  BY <1>22, OrderFrame DEF StatementFails, Skip, Goto, GotoReply, Occurs, RowsGoOn, TypeInv,
      TypeOK
<1>23. ASSUME NEW h \in Handlers, AgentCrash(h) PROVE OrderInv'
  BY <1>23, OrderFrame DEF AgentCrash, Occurs, RowsGoOn, TypeInv, TypeOK
<1>24. ASSUME UNCHANGED vars PROVE OrderInv'
  BY <1>24, OrderFrame DEF vars, RowsGoOn, TypeInv, TypeOK
<1> QED
  BY <1>1, <1>2, <1>3, <1>4, <1>5, <1>6, <1>7, <1>8, <1>9, <1>10, <1>11, <1>12, <1>13,
      <1>14, <1>15, <1>16, <1>17, <1>18, <1>19, <1>20, <1>21, <1>22, <1>23, <1>24
  DEF Next, HandlerStep, WorkerStep, Environment

\* While a request is processed no earlier request of the session is open, and
\* no other is processed: the order check and the agent's lock are enough,
\* whatever the broker delivers twice, late or in the wrong order.
THEOREM RequestsProcessedInOrder == Spec => []ProcessedInOrder
<1>1. Init => OrderInv
  BY DEF Init, OrderInv, RowsInOrder, Posted, NoneEarlier
<1>2. TypeInv /\ OrderInv => ProcessedInOrder
  <2> SUFFICES ASSUME TypeInv, OrderInv PROVE ProcessedInOrder
    OBVIOUS
  <2>1. \A g, h \in Handlers : pc[g] = "process" /\ pc[h] = "process" => g = h
    BY DEF TypeInv, TypeOK
  <2>2. \A h \in Handlers : pc[h] = "process" => ~\E f \in Earlier(event[h]) : row[f] = "open"
    BY DEF OrderInv, NoneEarlier
  <2> QED
    BY <2>1, <2>2 DEF ProcessedInOrder
<1> QED
  BY <1>1, <1>2, TypeInit, TypeNext, OrderNext, PTL DEF Spec

-----------------------------------------------------------------------------
(***************************************************************************)
(* Claims.  While no handler is slow, the broker gives none up that is     *)
(* alive: the one it waits for is the only one at work, and from its claim *)
(* on the claim is in processing.                                          *)
(***************************************************************************)
Claimed == {"reclaim", "settle", "release", "fail"} \union Working
OneAtWork == \A h \in Handlers : pc[h] \notin {"idle", "dead"} => conn = h
ClaimHeld == \A h \in Handlers : pc[h] \in Claimed => claim[event[h]] = "processing"
ClaimInv == "slow" \notin occurred => OneAtWork /\ ClaimHeld

\* The history only grows.
OccurredGrows == occurred \subseteq occurred'

\* A handler that goes on and leaves its claim alone keeps ClaimInv.
LEMMA ClaimFrame ==
  ASSUME TypeInv, ClaimInv, OccurredGrows, UNCHANGED <<claim, conn>>,
         \A h \in Handlers :
           pc'[h] \notin {"idle", "dead"} =>
             pc[h] \notin {"idle", "dead"} /\ event'[h] = event[h],
         \A h \in Handlers :
           pc'[h] \in Claimed => pc[h] \in Claimed \/ claim[event[h]] = "processing"
  PROVE  ClaimInv'
BY DEF ClaimInv, OneAtWork, ClaimHeld, OccurredGrows, Claimed, Working

\* Every step keeps ClaimInv.
LEMMA ClaimNext == TypeInv /\ ClaimInv /\ [Next]_vars => ClaimInv'
<1> SUFFICES ASSUME TypeInv, ClaimInv, [Next]_vars PROVE ClaimInv'
  OBVIOUS
<1>1. ASSUME NEW e \in Events, Accept(e) PROVE ClaimInv'
  BY <1>1, ClaimFrame DEF Accept, OccurredGrows, Claimed, Working, TypeInv, TypeOK
<1>2. ASSUME NEW e \in Events, Post(e) PROVE ClaimInv'
  BY <1>2, ClaimFrame DEF Post, Occurs, OccurredGrows, Claimed, Working, TypeInv, TypeOK
<1>3. ASSUME NEW e \in Events, CloseRow(e) PROVE ClaimInv'
  BY <1>3, ClaimFrame DEF CloseRow, Occurs, OccurredGrows, Claimed, Working, TypeInv, TypeOK
<1>4. ASSUME NEW e \in Events, Age(e) PROVE ClaimInv'
  BY <1>4, ClaimFrame DEF Age, Occurs, OccurredGrows, Claimed, Working, TypeInv, TypeOK
<1>5. ASSUME NEW h \in Handlers, Deliver(h) PROVE ClaimInv'
  <2>1. conn = NoHandler
    BY <1>5 DEF Deliver, TypeInv, CurrentKnown
  <2>2. conn' = h /\ pc' = [pc EXCEPT ![h] = "select"] /\ UNCHANGED <<claim, occurred>>
        /\ event' = [event EXCEPT ![h] = current']
    BY <1>5 DEF Deliver
  <2>3. "slow" \notin occurred => \A g \in Handlers : pc[g] \in {"idle", "dead"}
    BY <2>1, DeliveryAssumption DEF ClaimInv, OneAtWork
  <2> QED
    BY <2>2, <2>3
    DEF ClaimInv, OneAtWork, ClaimHeld, Claimed, Working, TypeInv, TypeOK
<1>6. ASSUME DeliveryTimeout PROVE ClaimInv'
  <2>1. UNCHANGED <<pc, event, claim>> /\ OccurredGrows
    BY <1>6 DEF DeliveryTimeout, EndDelivery, Occurs, OccurredGrows
  <2>2. "slow" \notin occurred' => pc[conn] = "dead"
    BY <1>6 DEF DeliveryTimeout, Occurs
  <2>3. "slow" \notin occurred' => \A g \in Handlers : pc[g] \in {"idle", "dead"}
    BY <2>1, <2>2 DEF ClaimInv, OneAtWork, OccurredGrows
  <2> QED
    BY <2>1, <2>3 DEF ClaimInv, OneAtWork, ClaimHeld, Claimed, Working, OccurredGrows
<1>7. ASSUME ConnectionReset PROVE ClaimInv'
  <2>1. UNCHANGED <<pc, event, claim, occurred>> /\ pc[conn] = "dead"
    BY <1>7 DEF ConnectionReset, EndDelivery
  <2>2. "slow" \notin occurred => \A g \in Handlers : pc[g] \in {"idle", "dead"}
    BY <2>1 DEF ClaimInv, OneAtWork
  <2> QED
    BY <2>1, <2>2 DEF ClaimInv, OneAtWork, ClaimHeld, Claimed, Working
<1>8. ASSUME NEW h \in Handlers, Reply(h) PROVE ClaimInv'
  <2>1. pc[h] = "reply" /\ pc' = [pc EXCEPT ![h] = "idle"]
        /\ event' = [event EXCEPT ![h] = NoEvent] /\ UNCHANGED <<claim, occurred>>
    BY <1>8 DEF Reply
  <2>2. "slow" \notin occurred => \A g \in Handlers : pc[g] \in {"idle", "dead"} \/ g = h
    BY <2>1 DEF ClaimInv, OneAtWork
  <2> QED
    BY <2>1, <2>2
    DEF ClaimInv, OneAtWork, ClaimHeld, Claimed, Working, TypeInv, TypeOK
<1>9. ASSUME NEW h \in Handlers, SelectClaim(h) PROVE ClaimInv'
  <2>1. pc[h] = "select" /\ UNCHANGED <<claim, conn, event, occurred>>
    BY <1>9 DEF SelectClaim, Skip, Goto, GotoReply
  <2>2. PICK label \in {"insert", "reclaim", "reply"} :
          /\ pc' = [pc EXCEPT ![h] = label]
          /\ label = "reclaim" => claim[event[h]] = "processing"
    BY <1>9 DEF SelectClaim, NextOfClaim, Skip, Goto, GotoReply
  <2> QED
    BY <2>1, <2>2, ClaimFrame DEF OccurredGrows, Claimed, Working, TypeInv, TypeOK
<1>10. ASSUME NEW h \in Handlers, InsertClaim(h) PROVE ClaimInv'
  <2>1. pc[h] = "insert" /\ UNCHANGED <<conn, event, occurred>>
    BY <1>10 DEF InsertClaim, Skip, Goto, GotoReply
  <2>2. "slow" \notin occurred => \A g \in Handlers : pc[g] \in {"idle", "dead"} \/ g = h
    BY <2>1 DEF ClaimInv, OneAtWork
  <2>3. PICK label \in {"check", "reply"} :
          /\ pc' = [pc EXCEPT ![h] = label]
          /\ label \in Claimed => claim'[event[h]] = "processing"
    BY <1>10 DEF InsertClaim, Skip, Goto, GotoReply, Claimed, Working, TypeInv, TypeOK, EventKnown
  <2> SUFFICES ASSUME "slow" \notin occurred PROVE OneAtWork' /\ ClaimHeld'
    BY <2>1 DEF ClaimInv
  <2>4. OneAtWork /\ pc \in [Handlers -> Labels]
    BY DEF ClaimInv, TypeInv, TypeOK
  <2>5. pc'[h] = label /\ \A g \in Handlers : g # h => pc'[g] \in {"idle", "dead"}
    BY <2>2, <2>3, <2>4
  <2>6. OneAtWork'
    BY <2>1, <2>4, <2>5 DEF OneAtWork
  <2>7. ClaimHeld'
    BY <2>1, <2>3, <2>5 DEF ClaimHeld, Claimed, Working
  <2> QED
    BY <2>6, <2>7
<1>11. ASSUME NEW h \in Handlers, ReclaimClaim(h) PROVE ClaimInv'
  <2>1. pc[h] = "reclaim" /\ UNCHANGED <<conn, event, occurred>>
        /\ pc' = [pc EXCEPT ![h] = "check"]
    BY <1>11 DEF ReclaimClaim, Goto
  <2>2. "slow" \notin occurred => UNCHANGED claim
    <3>1. "slow" \notin occurred => claim[event[h]] = "processing"
      BY <2>1 DEF ClaimInv, ClaimHeld, Claimed
    <3> QED
      BY <1>11, <3>1 DEF ReclaimClaim, TypeInv, TypeOK
  <2> QED
    BY <2>1, <2>2
    DEF ClaimInv, OneAtWork, ClaimHeld, Claimed, Working, TypeInv, TypeOK
<1>12. ASSUME NEW h \in Handlers, CheckOrder(h) PROVE ClaimInv'
  BY <1>12, ClaimFrame DEF CheckOrder, Goto, OccurredGrows, Claimed, Working, TypeInv, TypeOK
<1>13. ASSUME NEW h \in Handlers, AcquireLock(h) PROVE ClaimInv'
  BY <1>13, ClaimFrame DEF AcquireLock, LockFree, Goto, OccurredGrows, Claimed, Working,
      TypeInv, TypeOK
<1>14. ASSUME NEW h \in Handlers, Process(h) PROVE ClaimInv'
  BY <1>14, ClaimFrame DEF Process, Goto, Occurs, OccurredGrows, Claimed, Working, TypeInv,
      TypeOK
<1>15. ASSUME NEW h \in Handlers, StoreAnswer(h) PROVE ClaimInv'
  BY <1>15, ClaimFrame DEF StoreAnswer, Goto, Occurs, OccurredGrows, Claimed, Working,
      TypeInv, TypeOK
<1>16. ASSUME NEW h \in Handlers, PublishAnswer(h) PROVE ClaimInv'
  BY <1>16, ClaimFrame DEF PublishAnswer, Goto, Occurs, OccurredGrows, Claimed, Working,
      TypeInv, TypeOK
<1>17. ASSUME NEW h \in Handlers, SettleSuccess(h) PROVE ClaimInv'
  <2>1. pc[h] = "settle" /\ UNCHANGED <<conn, event, occurred>>
    BY <1>17 DEF SettleSuccess, Settle, GotoReply
  <2>2. "slow" \notin occurred => \A g \in Handlers : pc[g] \in {"idle", "dead"} \/ g = h
    BY <2>1 DEF ClaimInv, OneAtWork
  <2>3. PICK label \in {"reply"} :
          /\ pc' = [pc EXCEPT ![h] = label]
          /\ label \in Claimed => claim'[event[h]] = "processing"
    BY <1>17 DEF SettleSuccess, Settle, GotoReply, Claimed, Working, TypeInv, TypeOK, EventKnown
  <2> QED
    BY <2>1, <2>2, <2>3
    DEF ClaimInv, OneAtWork, ClaimHeld, Claimed, Working, TypeInv, TypeOK
<1>18. ASSUME NEW h \in Handlers, SettleError(h) PROVE ClaimInv'
  <2>1. pc[h] = "fail" /\ UNCHANGED <<conn, event, occurred>>
    BY <1>18 DEF SettleError, Settle, GotoReply
  <2>2. "slow" \notin occurred => \A g \in Handlers : pc[g] \in {"idle", "dead"} \/ g = h
    BY <2>1 DEF ClaimInv, OneAtWork
  <2>3. PICK label \in {"reply"} :
          /\ pc' = [pc EXCEPT ![h] = label]
          /\ label \in Claimed => claim'[event[h]] = "processing"
    BY <1>18 DEF SettleError, Settle, GotoReply, Claimed, Working, TypeInv, TypeOK, EventKnown
  <2> QED
    BY <2>1, <2>2, <2>3
    DEF ClaimInv, OneAtWork, ClaimHeld, Claimed, Working, TypeInv, TypeOK
<1>19. ASSUME NEW h \in Handlers, ReleaseClaim(h) PROVE ClaimInv'
  <2>1. pc[h] = "release" /\ UNCHANGED <<conn, event, occurred>>
    BY <1>19 DEF ReleaseClaim, GotoReply
  <2>2. "slow" \notin occurred => \A g \in Handlers : pc[g] \in {"idle", "dead"} \/ g = h
    BY <2>1 DEF ClaimInv, OneAtWork
  <2>3. PICK label \in {"reply"} :
          /\ pc' = [pc EXCEPT ![h] = label]
          /\ label \in Claimed => claim'[event[h]] = "processing"
    BY <1>19 DEF ReleaseClaim, GotoReply, Claimed, Working, TypeInv, TypeOK, EventKnown
  <2> QED
    BY <2>1, <2>2, <2>3
    DEF ClaimInv, OneAtWork, ClaimHeld, Claimed, Working, TypeInv, TypeOK
<1>20. ASSUME NEW h \in Handlers, Replace(h) PROVE ClaimInv'
  BY <1>20, ClaimFrame DEF Replace, OccurredGrows, Claimed, Working, TypeInv, TypeOK
<1>21. ASSUME NEW h \in Handlers, LockTimeout(h) PROVE ClaimInv'
  BY <1>21, ClaimFrame DEF LockTimeout, Goto, Occurs, OccurredGrows, Claimed, Working,
      TypeInv, TypeOK
<1>22. ASSUME NEW h \in Handlers, StatementFails(h) PROVE ClaimInv'
  BY <1>22, ClaimFrame DEF StatementFails, Skip, Goto, GotoReply, Occurs, OccurredGrows,
      Claimed, Working, TypeInv, TypeOK
<1>23. ASSUME NEW h \in Handlers, AgentCrash(h) PROVE ClaimInv'
  BY <1>23, ClaimFrame DEF AgentCrash, Occurs, OccurredGrows, Claimed, Working, TypeInv, TypeOK
<1>24. ASSUME UNCHANGED vars PROVE ClaimInv'
  BY <1>24, ClaimFrame DEF vars, OccurredGrows, Claimed, Working, TypeInv, TypeOK
<1> QED
  BY <1>1, <1>2, <1>3, <1>4, <1>5, <1>6, <1>7, <1>8, <1>9, <1>10, <1>11, <1>12, <1>13,
      <1>14, <1>15, <1>16, <1>17, <1>18, <1>19, <1>20, <1>21, <1>22, <1>23, <1>24
  DEF Next, HandlerStep, WorkerStep, Environment

SuccessKept ==
  \A e \in Events : claim[e] = "success" /\ "slow" \notin occurred' => claim'[e] = "success"

\* No step takes a success back.
LEMMA SuccessNext == TypeInv /\ ClaimInv /\ [Next]_vars => SuccessKept
<1> SUFFICES ASSUME TypeInv, ClaimInv, [Next]_vars PROVE SuccessKept
  OBVIOUS
<1>1. ASSUME NEW e \in Events, Accept(e) PROVE SuccessKept
  BY <1>1 DEF Accept, SuccessKept
<1>2. ASSUME NEW e \in Events, Post(e) PROVE SuccessKept
  BY <1>2 DEF Post, SuccessKept
<1>3. ASSUME NEW e \in Events, CloseRow(e) PROVE SuccessKept
  BY <1>3 DEF CloseRow, SuccessKept
<1>4. ASSUME NEW e \in Events, Age(e) PROVE SuccessKept
  BY <1>4 DEF Age, SuccessKept
<1>5. ASSUME NEW h \in Handlers, Deliver(h) PROVE SuccessKept
  BY <1>5 DEF Deliver, SuccessKept
<1>6. ASSUME DeliveryTimeout PROVE SuccessKept
  BY <1>6 DEF DeliveryTimeout, SuccessKept
<1>7. ASSUME ConnectionReset PROVE SuccessKept
  BY <1>7 DEF ConnectionReset, SuccessKept
<1>8. ASSUME NEW h \in Handlers, Reply(h) PROVE SuccessKept
  BY <1>8 DEF Reply, SuccessKept
<1>9. ASSUME NEW h \in Handlers, SelectClaim(h) PROVE SuccessKept
  BY <1>9 DEF SelectClaim, SuccessKept
<1>10. ASSUME NEW h \in Handlers, InsertClaim(h) PROVE SuccessKept
  BY <1>10 DEF InsertClaim, SuccessKept, TypeInv, TypeOK
<1>11. ASSUME NEW h \in Handlers, ReclaimClaim(h) PROVE SuccessKept
  <2>1. occurred' = occurred /\ pc[h] \in Claimed
    BY <1>11 DEF ReclaimClaim, Claimed
  <2>2. "slow" \notin occurred => claim[event[h]] = "processing"
    BY <2>1 DEF ClaimInv, ClaimHeld
  <2>3. \A e \in Events \ {event[h]} : claim'[e] = claim[e]
    BY <1>11 DEF ReclaimClaim, TypeInv, TypeOK
  <2> QED
    BY <2>1, <2>2, <2>3 DEF SuccessKept
<1>12. ASSUME NEW h \in Handlers, CheckOrder(h) PROVE SuccessKept
  BY <1>12 DEF CheckOrder, SuccessKept
<1>13. ASSUME NEW h \in Handlers, AcquireLock(h) PROVE SuccessKept
  BY <1>13 DEF AcquireLock, SuccessKept
<1>14. ASSUME NEW h \in Handlers, Process(h) PROVE SuccessKept
  BY <1>14 DEF Process, SuccessKept
<1>15. ASSUME NEW h \in Handlers, StoreAnswer(h) PROVE SuccessKept
  BY <1>15 DEF StoreAnswer, SuccessKept
<1>16. ASSUME NEW h \in Handlers, PublishAnswer(h) PROVE SuccessKept
  BY <1>16 DEF PublishAnswer, SuccessKept
<1>17. ASSUME NEW h \in Handlers, SettleSuccess(h) PROVE SuccessKept
  BY <1>17 DEF SettleSuccess, Settle, SuccessKept, TypeInv, TypeOK
<1>18. ASSUME NEW h \in Handlers, SettleError(h) PROVE SuccessKept
  <2>1. occurred' = occurred /\ pc[h] \in Claimed
    BY <1>18 DEF SettleError, Settle, Claimed
  <2>2. "slow" \notin occurred => claim[event[h]] = "processing"
    BY <2>1 DEF ClaimInv, ClaimHeld
  <2>3. \A e \in Events \ {event[h]} : claim'[e] = claim[e]
    BY <1>18 DEF SettleError, Settle, TypeInv, TypeOK
  <2> QED
    BY <2>1, <2>2, <2>3 DEF SuccessKept
<1>19. ASSUME NEW h \in Handlers, ReleaseClaim(h) PROVE SuccessKept
  <2>1. occurred' = occurred /\ pc[h] \in Claimed
    BY <1>19 DEF ReleaseClaim, Claimed
  <2>2. "slow" \notin occurred => claim[event[h]] = "processing"
    BY <2>1 DEF ClaimInv, ClaimHeld
  <2>3. \A e \in Events \ {event[h]} : claim'[e] = claim[e]
    BY <1>19 DEF ReleaseClaim, TypeInv, TypeOK
  <2> QED
    BY <2>1, <2>2, <2>3 DEF SuccessKept
<1>20. ASSUME NEW h \in Handlers, Replace(h) PROVE SuccessKept
  BY <1>20 DEF Replace, SuccessKept
<1>21. ASSUME NEW h \in Handlers, LockTimeout(h) PROVE SuccessKept
  BY <1>21 DEF LockTimeout, SuccessKept
<1>22. ASSUME NEW h \in Handlers, StatementFails(h) PROVE SuccessKept
  BY <1>22 DEF StatementFails, SuccessKept
<1>23. ASSUME NEW h \in Handlers, AgentCrash(h) PROVE SuccessKept
  BY <1>23 DEF AgentCrash, SuccessKept
<1>24. ASSUME UNCHANGED vars PROVE SuccessKept
  BY <1>24 DEF vars, SuccessKept
<1> QED
  BY <1>1, <1>2, <1>3, <1>4, <1>5, <1>6, <1>7, <1>8, <1>9, <1>10, <1>11, <1>12, <1>13,
      <1>14, <1>15, <1>16, <1>17, <1>18, <1>19, <1>20, <1>21, <1>22, <1>23, <1>24
  DEF Next, HandlerStep, WorkerStep, Environment

\* What is settled as a success stays so while no handler is slow, although
\* claims are taken over after crashes and released by other deliveries.
THEOREM SettledStaysSettled == Spec => SuccessStays
<1>1. Init => ClaimInv
  BY DEF Init, ClaimInv, OneAtWork, ClaimHeld, Claimed, Working
<1>2. TypeInv /\ ClaimInv /\ [Next]_vars => [SuccessKept]_vars
  BY SuccessNext
<1> QED
  BY <1>1, <1>2, TypeInit, TypeNext, ClaimNext, PTL DEF Spec, SuccessStays, SuccessKept

-----------------------------------------------------------------------------
(***************************************************************************)
(* Processing once.  In a sound run no claim outlives its handler: nothing *)
(* was slow, crashed or failed in the database.                            *)
(***************************************************************************)
Sound == occurred \intersect {"slow", "crash", "dberror"} = {}
Held == {"settle", "release"} \union Working
\* Claims that are in processing are fresh and held by a handler.
ClaimsFresh ==
  /\ \A h \in Handlers : pc[h] \notin {"dead", "reclaim", "fail"}
  /\ \A e \in Events : ~stale[e]
  /\ \A e \in Events : claim[e] = "processing" => \E h \in Handlers : event[h] = e /\ pc[h] \in Held
\* A request is processed under its claim, and the claim is not given back.
UnderClaim ==
  /\ \A e \in Events : processed[e] <= 1
  /\ \A e \in Events : processed[e] > 0 => claim[e] # "none"
  /\ \A h \in Handlers : pc[h] \in {"check", "lock", "process", "release"} => processed[event[h]] = 0
OnceInv == Sound => ClaimsFresh /\ UnderClaim

\* A step is about a sound run only if nothing unsound has occurred before.
LEMMA SoundBefore == OccurredGrows /\ Sound' => Sound
BY DEF OccurredGrows, Sound

\* A handler that goes on with its claim keeps OnceInv.
LEMMA OnceFrame ==
  ASSUME TypeInv, OnceInv, OccurredGrows, UNCHANGED <<claim, stale, processed>>,
         \A h \in Handlers : pc[h] \in Held => pc'[h] \in Held /\ event'[h] = event[h],
         \A h \in Handlers : pc'[h] \in {"dead", "reclaim", "fail"} => pc[h] = pc'[h],
         \A h \in Handlers :
           pc'[h] \in {"check", "lock", "process", "release"} =>
             pc[h] \in {"check", "lock", "process", "release"} /\ event'[h] = event[h]
  PROVE  OnceInv'
<1>1. Sound' => Sound
  BY SoundBefore
<1> QED
  BY <1>1 DEF OnceInv, ClaimsFresh, UnderClaim

\* Every step keeps OnceInv.
LEMMA OnceNext == TypeInv /\ ClaimInv /\ OnceInv /\ [Next]_vars => OnceInv'
<1> SUFFICES ASSUME TypeInv, ClaimInv, OnceInv, [Next]_vars PROVE OnceInv'
  OBVIOUS
<1>1. ASSUME NEW e \in Events, Accept(e) PROVE OnceInv'
  BY <1>1, OnceFrame DEF Accept, OccurredGrows, Held, Working, TypeInv, TypeOK
<1>2. ASSUME NEW e \in Events, Post(e) PROVE OnceInv'
  BY <1>2, OnceFrame DEF Post, Occurs, OccurredGrows, Held, Working, TypeInv, TypeOK
<1>3. ASSUME NEW e \in Events, CloseRow(e) PROVE OnceInv'
  BY <1>3, OnceFrame DEF CloseRow, Occurs, OccurredGrows, Held, Working, TypeInv, TypeOK
<1>4. ASSUME NEW e \in Events, Age(e) PROVE OnceInv'
  <2> SUFFICES ASSUME Sound' PROVE FALSE
    BY DEF OnceInv
  <2>1. OccurredGrows /\ claim[e] = "processing"
    BY <1>4 DEF Age, Occurs, OccurredGrows
  <2>2. PICK h \in Handlers : event[h] = e /\ pc[h] \in Held
    BY <2>1, SoundBefore DEF OnceInv, ClaimsFresh
  <2>3. Occurs("slow")
    BY <1>4, <2>2 DEF Age, Held, Working
  <2> QED
    BY <2>3 DEF Occurs, Sound
<1>5. ASSUME NEW h \in Handlers, Deliver(h) PROVE OnceInv'
  BY <1>5, OnceFrame DEF Deliver, OccurredGrows, Held, Working, TypeInv, TypeOK
<1>6. ASSUME DeliveryTimeout PROVE OnceInv'
  <2>1. UNCHANGED <<claim, stale, processed, pc, event>> /\ OccurredGrows
    BY <1>6 DEF DeliveryTimeout, EndDelivery, Occurs, OccurredGrows
  <2> QED
    BY <2>1, OnceFrame DEF Held, Working, TypeInv, TypeOK
<1>7. ASSUME ConnectionReset PROVE OnceInv'
  <2>1. UNCHANGED <<claim, stale, processed, pc, event>> /\ OccurredGrows
    BY <1>7 DEF ConnectionReset, EndDelivery, Occurs, OccurredGrows
  <2> QED
    BY <2>1, OnceFrame DEF Held, Working, TypeInv, TypeOK
<1>8. ASSUME NEW h \in Handlers, Reply(h) PROVE OnceInv'
  <2>1. pc[h] = "reply" /\ pc' = [pc EXCEPT ![h] = "idle"]
        /\ event' = [event EXCEPT ![h] = NoEvent]
        /\ UNCHANGED <<claim, stale, processed, occurred>>
    BY <1>8 DEF Reply
  <2> QED
    BY <2>1, OnceFrame DEF OccurredGrows, Held, Working, TypeInv, TypeOK
<1>9. ASSUME NEW h \in Handlers, SelectClaim(h) PROVE OnceInv'
  <2>1. pc[h] = "select" /\ UNCHANGED <<claim, stale, processed, event, occurred>>
    BY <1>9 DEF SelectClaim, Skip, Goto, GotoReply
  <2>2. Sound => pc' = [pc EXCEPT ![h] = "insert"] \/ pc' = [pc EXCEPT ![h] = "reply"]
    <3>1. event[h] \in Events
      BY <2>1 DEF TypeInv, EventKnown
    <3> QED
      BY <1>9, <3>1
      DEF SelectClaim, NextOfClaim, Skip, Goto, GotoReply, OnceInv, ClaimsFresh
  <2>3. CASE Sound
    BY <2>1, <2>2, <2>3, OnceFrame DEF OccurredGrows, Held, Working, TypeInv, TypeOK
  <2>4. CASE ~Sound
    BY <2>1, <2>4 DEF OnceInv, Sound
  <2> QED
    BY <2>3, <2>4
<1>10. ASSUME NEW h \in Handlers, InsertClaim(h) PROVE OnceInv'
  <2>1. pc[h] = "insert" /\ event[h] \in Events /\ UNCHANGED <<processed, event, occurred>>
    BY <1>10 DEF InsertClaim, Skip, Goto, GotoReply, TypeInv, EventKnown
  <2>2. CASE claim[event[h]] = "none"
    <3>1. claim' = [claim EXCEPT ![event[h]] = "processing"]
          /\ stale' = [stale EXCEPT ![event[h]] = FALSE]
          /\ pc' = [pc EXCEPT ![h] = "check"]
      BY <1>10, <2>2 DEF InsertClaim, Goto
    <3>2. Sound => processed[event[h]] = 0
      BY <2>1, <2>2 DEF OnceInv, UnderClaim, TypeInv, TypeOK
    <3>3. Sound => ClaimsFresh'
      BY <2>1, <3>1 DEF OnceInv, ClaimsFresh, Held, Working, TypeInv, TypeOK
    <3>4. Sound => UnderClaim'
      BY <2>1, <3>1, <3>2 DEF OnceInv, UnderClaim, TypeInv, TypeOK
    <3> QED
      BY <2>1, <3>3, <3>4 DEF OnceInv, Sound
  <2>3. CASE claim[event[h]] # "none"
    <3>1. pc' = [pc EXCEPT ![h] = "reply"] /\ UNCHANGED <<claim, stale>>
      BY <1>10, <2>3 DEF InsertClaim, Skip, GotoReply
    <3> QED
      BY <2>1, <3>1, OnceFrame DEF OccurredGrows, Held, Working, TypeInv, TypeOK
  <2> QED
    BY <2>2, <2>3
<1>11. ASSUME NEW h \in Handlers, ReclaimClaim(h) PROVE OnceInv'
  <2>1. ~Sound /\ occurred' = occurred
    BY <1>11 DEF ReclaimClaim, OnceInv, ClaimsFresh
  <2> QED
    BY <2>1 DEF OnceInv, Sound
<1>12. ASSUME NEW h \in Handlers, CheckOrder(h) PROVE OnceInv'
  BY <1>12, OnceFrame DEF CheckOrder, Goto, OccurredGrows, Held, Working, TypeInv, TypeOK
<1>13. ASSUME NEW h \in Handlers, AcquireLock(h) PROVE OnceInv'
  BY <1>13, OnceFrame DEF AcquireLock, LockFree, Goto, OccurredGrows, Held, Working,
      TypeInv, TypeOK
<1>14. ASSUME NEW h \in Handlers, Process(h) PROVE OnceInv'
  <2> SUFFICES ASSUME Sound' PROVE (ClaimsFresh /\ UnderClaim)'
    BY DEF OnceInv
  <2>1. pc[h] = "process" /\ event[h] \in Events /\ UNCHANGED <<claim, stale, event>> /\ OccurredGrows
    BY <1>14 DEF Process, Goto, Occurs, OccurredGrows, TypeInv, EventKnown
  <2>2. Sound
    BY <2>1, SoundBefore
  <2>3. \A g \in Handlers : pc[g] \in {"idle", "dead"} \/ g = h
    BY <2>1, <2>2 DEF ClaimInv, OneAtWork, Sound
  <2>4. pc' = [pc EXCEPT ![h] = "store"]
    BY <1>14 DEF Process, Goto, Occurs, Sound
  <2>5. processed[event[h]] = 0 /\ claim[event[h]] = "processing"
    BY <2>1, <2>2 DEF OnceInv, UnderClaim, ClaimInv, ClaimHeld, Claimed, Working, Sound
  <2>6. processed' = [processed EXCEPT ![event[h]] = 1]
    BY <1>14, <2>5 DEF Process
  <2>7. ClaimsFresh'
    BY <2>1, <2>2, <2>4 DEF OnceInv, ClaimsFresh, Held, Working, TypeInv, TypeOK
  <2>8. \A e \in Events : processed'[e] = IF e = event[h] THEN 1 ELSE processed[e]
    BY <2>1, <2>6 DEF TypeInv, TypeOK
  <2>9. \A g \in Handlers : pc'[g] \notin {"check", "lock", "process", "release"}
    BY <2>3, <2>4 DEF TypeInv, TypeOK
  <2>10. UnderClaim'
    BY <2>1, <2>2, <2>5, <2>8, <2>9 DEF OnceInv, UnderClaim
  <2> QED
    BY <2>7, <2>10
<1>15. ASSUME NEW h \in Handlers, StoreAnswer(h) PROVE OnceInv'
  BY <1>15, OnceFrame DEF StoreAnswer, Goto, Occurs, OccurredGrows, Held, Working, TypeInv,
      TypeOK
<1>16. ASSUME NEW h \in Handlers, PublishAnswer(h) PROVE OnceInv'
  BY <1>16, OnceFrame DEF PublishAnswer, Goto, Occurs, OccurredGrows, Held, Working,
      TypeInv, TypeOK
<1>17. ASSUME NEW h \in Handlers, SettleSuccess(h) PROVE OnceInv'
  <2>1. pc[h] = "settle" /\ event[h] \in Events /\ pc' = [pc EXCEPT ![h] = "reply"]
        /\ UNCHANGED <<processed, event, occurred>>
    BY <1>17 DEF SettleSuccess, Settle, GotoReply, TypeInv, EventKnown
  <2>2. Sound => claim[event[h]] = "processing" /\ \A g \in Handlers : pc[g] \in {"idle", "dead"} \/ g = h
    BY <2>1 DEF ClaimInv, OneAtWork, ClaimHeld, Claimed, Sound
  <2>3. Sound => claim' = [claim EXCEPT ![event[h]] = "success"]
    BY <1>17, <2>2 DEF SettleSuccess, Settle, GotoReply
  <2>4. \A e \in Events : ~stale[e] => ~stale'[e]
    BY <1>17 DEF SettleSuccess, Settle, GotoReply, TypeInv, TypeOK
  <2>5. ASSUME Sound PROVE ClaimsFresh'
    <3>1. \A e \in Events : claim'[e] # "processing"
      <4> SUFFICES ASSUME NEW e \in Events, e # event[h], claim[e] = "processing" PROVE FALSE
        BY <2>1, <2>3, <2>5 DEF TypeInv, TypeOK
      <4> QED
        BY <2>2, <2>5 DEF OnceInv, ClaimsFresh, Held, Working
    <3> QED
      BY <2>1, <2>4, <2>5, <3>1 DEF OnceInv, ClaimsFresh, TypeInv, TypeOK
  <2>6. Sound => UnderClaim'
    BY <2>1, <2>2, <2>3 DEF OnceInv, UnderClaim, TypeInv, TypeOK
  <2> QED
    BY <2>1, <2>5, <2>6 DEF OnceInv, Sound
<1>18. ASSUME NEW h \in Handlers, SettleError(h) PROVE OnceInv'
  <2>1. ~Sound /\ occurred' = occurred
    BY <1>18 DEF SettleError, Settle, OnceInv, ClaimsFresh
  <2> QED
    BY <2>1 DEF OnceInv, Sound
<1>19. ASSUME NEW h \in Handlers, ReleaseClaim(h) PROVE OnceInv'
  <2>1. pc[h] = "release" /\ event[h] \in Events /\ pc' = [pc EXCEPT ![h] = "reply"]
        /\ UNCHANGED <<processed, event, occurred>>
    BY <1>19 DEF ReleaseClaim, GotoReply, TypeInv, EventKnown
  <2>2. Sound => claim[event[h]] = "processing" /\ \A g \in Handlers : pc[g] \in {"idle", "dead"} \/ g = h
    BY <2>1 DEF ClaimInv, OneAtWork, ClaimHeld, Claimed, Sound
  <2>3. Sound => claim' = [claim EXCEPT ![event[h]] = "none"]
    BY <1>19, <2>2 DEF ReleaseClaim, GotoReply
  <2>4. \A e \in Events : ~stale[e] => ~stale'[e]
    BY <1>19 DEF ReleaseClaim, GotoReply, TypeInv, TypeOK
  <2>5. ASSUME Sound PROVE ClaimsFresh'
    <3>1. \A e \in Events : claim'[e] # "processing"
      <4> SUFFICES ASSUME NEW e \in Events, e # event[h], claim[e] = "processing" PROVE FALSE
        BY <2>1, <2>3, <2>5 DEF TypeInv, TypeOK
      <4> QED
        BY <2>2, <2>5 DEF OnceInv, ClaimsFresh, Held, Working
    <3> QED
      BY <2>1, <2>4, <2>5, <3>1 DEF OnceInv, ClaimsFresh, TypeInv, TypeOK
  <2>6. Sound => UnderClaim'
    BY <2>1, <2>2, <2>3 DEF OnceInv, UnderClaim, TypeInv, TypeOK
  <2> QED
    BY <2>1, <2>5, <2>6 DEF OnceInv, Sound
<1>20. ASSUME NEW h \in Handlers, Replace(h) PROVE OnceInv'
  <2>1. ~Sound
    BY <1>20 DEF Replace, OnceInv, ClaimsFresh
  <2>2. occurred' = occurred
    BY <1>20 DEF Replace
  <2> QED
    BY <2>1, <2>2 DEF OnceInv, Sound
<1>21. ASSUME NEW h \in Handlers, LockTimeout(h) PROVE OnceInv'
  <2>1. ~Sound'
    BY <1>21 DEF LockTimeout, Occurs, Sound
  <2> QED
    BY <2>1 DEF OnceInv
<1>22. ASSUME NEW h \in Handlers, StatementFails(h) PROVE OnceInv'
  <2>1. ~Sound'
    BY <1>22 DEF StatementFails, Occurs, Sound
  <2> QED
    BY <2>1 DEF OnceInv
<1>23. ASSUME NEW h \in Handlers, AgentCrash(h) PROVE OnceInv'
  <2>1. ~Sound'
    BY <1>23 DEF AgentCrash, Occurs, Sound
  <2> QED
    BY <2>1 DEF OnceInv
<1>24. ASSUME UNCHANGED vars PROVE OnceInv'
  BY <1>24, OnceFrame DEF vars, OccurredGrows, Held, Working, TypeInv, TypeOK
<1> QED
  BY <1>1, <1>2, <1>3, <1>4, <1>5, <1>6, <1>7, <1>8, <1>9, <1>10, <1>11, <1>12, <1>13,
      <1>14, <1>15, <1>16, <1>17, <1>18, <1>19, <1>20, <1>21, <1>22, <1>23, <1>24
  DEF Next, HandlerStep, WorkerStep, Environment

\* A request is processed at most once, however often it is posted, delivered
\* and retried, unless a handler was slow, a pod crashed or a statement failed.
THEOREM RequestsProcessedOnce == Spec => []ProcessedOnce
<1>1. Init => ClaimInv /\ OnceInv
  BY DEF Init, ClaimInv, OneAtWork, ClaimHeld, Claimed, Working, OnceInv, ClaimsFresh, UnderClaim
<1>2. OnceInv => ProcessedOnce
  BY DEF OnceInv, Sound, UnderClaim, ProcessedOnce
<1> QED
  BY <1>1, <1>2, TypeInit, TypeNext, ClaimNext, OnceNext, PTL DEF Spec
=============================================================================
