------------------------ MODULE ReplyDelivery_proofs ------------------------
(***************************************************************************)
(* Proofs about ReplyDelivery, for every set of replies, integration types *)
(* and requests, and for every bound on posts, changes and faults.         *)
(***************************************************************************)
EXTENDS ReplyDelivery, FiniteSetTheorems, TLAPS

USE DEF broker, overrides, request, local, fixed, history, counters

(***************************************************************************)
(* What the tables and the requests hold.                                  *)
(***************************************************************************)
RequestKnown(h) ==
  /\ pc[h] # "idle" => reply[h] \in Replies
  /\ pc[h] = "idle" => reply[h] = NoReply
  /\ pc[h] \in {"deliver", "store"} => target[h] \in Target /\ target[h].type \in Handled
  /\ pc[h] = "store" => answer[h] \in {"DELIVERED", "FAILED"}
TypeInv == TypeOK /\ \A h \in Handlers : RequestKnown(h)

BrokerTypes ==
  /\ kind \in [Replies -> {"reply", "foreign", "incomplete", "direct"}]
  /\ binding \in [Replies -> {"STANDARD", "TICKET_THREAD"}]
  /\ waiting \in [Replies -> Handlers \union {NoHandler}]
  /\ outcome \in [Replies -> {"new", "posted", "timeout", "done"}]
  /\ posts \in [Replies -> Nat] /\ taken \in [Replies -> Nat]
  /\ claim \in [Replies -> {"none", "fresh", "stale"} \union Settled]
ChannelTypes ==
  /\ override \in [Types -> Nat] /\ enabled \subseteq Types /\ nextId \in Nat
  /\ healthy \subseteq Types /\ defaultOn \subseteq EnvAllows
LogTypes ==
  /\ log \subseteq [reply : Replies, post : Nat, target : Target, status : Statuses]
  /\ sent \in [Replies -> [Types -> Nat]]
  /\ chosen \subseteq [reply : Replies, post : Nat, target : Target]
  /\ cut \subseteq Replies /\ faults \in Nat /\ edits \in Nat
RequestTypes ==
  /\ pc \in [Handlers -> Labels]
  /\ reply \in [Handlers -> Replies \union {NoReply}] /\ post \in [Handlers -> Nat]
  /\ seen \in [Handlers -> SUBSET Types]
  /\ answer \in [Handlers -> {"none", "DELIVERED", "FAILED"}]
  /\ todo \in [Handlers -> SUBSET Target] /\ own \in [Handlers -> SUBSET Target]
  /\ target \in [Handlers -> Target \union {NoTarget}]

LEMMA TypeParts ==
  /\ TypeOK <=> BrokerTypes /\ ChannelTypes /\ LogTypes /\ RequestTypes
  /\ TypeOK' <=> BrokerTypes' /\ ChannelTypes' /\ LogTypes' /\ RequestTypes'
BY DEF TypeOK, BrokerTypes, ChannelTypes, LogTypes, RequestTypes

LEMMA TypeInit == Init => TypeInv
<1> SUFFICES ASSUME Init PROVE TypeInv
  OBVIOUS
<1>1. BrokerTypes
  BY DEF Init, BrokerTypes
<1>2. ChannelTypes
  BY ReplyAssumption DEF Init, ChannelTypes
<1>3. LogTypes
  BY DEF Init, LogTypes
<1>4. RequestTypes
  BY DEF Init, RequestTypes, Labels
<1>5. \A h \in Handlers : RequestKnown(h)
  BY DEF Init, RequestKnown
<1> QED
  BY <1>1, <1>2, <1>3, <1>4, <1>5, TypeParts DEF TypeInv

\* How a request ends.
LEMMA EndTypes ==
  ASSUME TypeInv, NEW h \in Handlers, End(h)
  PROVE  /\ RequestTypes'
         /\ \A g \in Handlers : RequestKnown(g)'
         /\ waiting' \in [Replies -> Handlers \union {NoHandler}]
         /\ outcome' \in [Replies -> {"new", "posted", "timeout", "done"}]
         /\ posts' = posts
         /\ pc[h] # "idle" => reply[h] \in Replies
<1>0. BrokerTypes /\ RequestTypes /\ \A g \in Handlers : RequestKnown(g)
  BY TypeParts DEF TypeInv
<1>1. RequestTypes'
  BY <1>0 DEF RequestTypes, End, Goto, Labels
<1>2. ASSUME NEW g \in Handlers PROVE RequestKnown(g)'
  BY <1>0 DEF RequestTypes, RequestKnown, End, Goto
<1>3. /\ waiting' \in [Replies -> Handlers \union {NoHandler}]
      /\ outcome' \in [Replies -> {"new", "posted", "timeout", "done"}]
      /\ posts' = posts
  BY <1>0 DEF BrokerTypes, End
<1> QED
  BY <1>0, <1>1, <1>2, <1>3 DEF RequestKnown

LEMMA StartTypes ==
  ASSUME TypeInv, NEW e \in Replies, NEW h \in Handlers,
         NEW l \in {"select", "overrides"}, Start(e, h, l)
  PROVE  /\ RequestTypes' /\ ChannelTypes' /\ LogTypes'
         /\ \A g \in Handlers : RequestKnown(g)'
         /\ posts' \in [Replies -> Nat]
<1>0. /\ BrokerTypes /\ ChannelTypes /\ LogTypes /\ RequestTypes
      /\ \A g \in Handlers : RequestKnown(g)
  BY TypeParts DEF TypeInv
<1>1. posts' \in [Replies -> Nat]
  BY <1>0 DEF Start, BrokerTypes
<1>2. RequestTypes'
  BY <1>0, <1>1 DEF Start, RequestTypes, Goto, Labels
<1>3. ASSUME NEW g \in Handlers PROVE RequestKnown(g)'
  BY <1>0 DEF Start, RequestTypes, RequestKnown, Goto
<1>4. ChannelTypes' /\ LogTypes'
  BY <1>0 DEF Start, ChannelTypes, LogTypes
<1> QED
  BY <1>1, <1>2, <1>3, <1>4

LEMMA TargetsTypes ==
  ASSUME TypeInv, NEW h \in Handlers, NEW found \in SUBSET Unsure
  PROVE  Targets(h, found) \subseteq Target
<1>1. own[h] \subseteq Target
  BY TypeParts DEF TypeInv, RequestTypes
<1>2. \A t \in Uncovered(own[h], SmartDefaults(reply[h], found)) : t \in Types
  BY TypeParts, ReplyAssumption DEF TypeInv, ChannelTypes, Uncovered, SmartDefaults
<1> QED
  BY <1>1, <1>2 DEF Targets, FitBinding, Target

\* Every step keeps the types.
LEMMA TypeNext == TypeInv /\ [Next]_vars => TypeInv'
<1> SUFFICES ASSUME TypeInv, [Next]_vars PROVE TypeInv'
  OBVIOUS
<1>0. /\ BrokerTypes /\ ChannelTypes /\ LogTypes /\ RequestTypes
      /\ \A g \in Handlers : RequestKnown(g)
  BY TypeParts DEF TypeInv
<1> SUFFICES /\ BrokerTypes' /\ ChannelTypes' /\ LogTypes' /\ RequestTypes'
             /\ \A g \in Handlers : RequestKnown(g)'
  BY TypeParts DEF TypeInv
<1>1. ASSUME NEW e \in Replies, NEW h \in Handlers, Post(e, h)
      PROVE  /\ BrokerTypes' /\ ChannelTypes' /\ LogTypes' /\ RequestTypes'
             /\ \A g \in Handlers : RequestKnown(g)'
  <2>1. BrokerTypes'
    BY <1>0, <1>1, StartTypes DEF Post, Start, BrokerTypes
  <2> QED
    BY <1>1, <2>1, StartTypes DEF Post
<1>2. ASSUME NEW e \in Replies, NEW h \in Handlers, PostDirect(e, h)
      PROVE  /\ BrokerTypes' /\ ChannelTypes' /\ LogTypes' /\ RequestTypes'
             /\ \A g \in Handlers : RequestKnown(g)'
  <2>1. BrokerTypes'
    BY <1>0, <1>2, StartTypes DEF PostDirect, Start, BrokerTypes
  <2> QED
    BY <1>2, <2>1, StartTypes DEF PostDirect
<1>3. ASSUME NEW e \in Replies, BrokerTimeout(e)
      PROVE  /\ BrokerTypes' /\ ChannelTypes' /\ LogTypes' /\ RequestTypes'
             /\ \A g \in Handlers : RequestKnown(g)'
  BY <1>0, <1>3 DEF BrokerTimeout, Fault, BrokerTypes, ChannelTypes, LogTypes, RequestTypes,
    RequestKnown
<1>4. ASSUME NEW e \in Replies, Age(e)
      PROVE  /\ BrokerTypes' /\ ChannelTypes' /\ LogTypes' /\ RequestTypes'
             /\ \A g \in Handlers : RequestKnown(g)'
  BY <1>0, <1>4 DEF Age, Fault, BrokerTypes, ChannelTypes, LogTypes, RequestTypes,
    RequestKnown
<1>5. ASSUME NEW h \in Handlers, SelectClaim(h)
      PROVE  /\ BrokerTypes' /\ ChannelTypes' /\ LogTypes' /\ RequestTypes'
             /\ \A g \in Handlers : RequestKnown(g)'
  <2>e. ASSUME End(h)
        PROVE  /\ RequestTypes' /\ \A g \in Handlers : RequestKnown(g)'
               /\ waiting' \in [Replies -> Handlers \union {NoHandler}]
               /\ outcome' \in [Replies -> {"new", "posted", "timeout", "done"}]
               /\ posts' = posts
    BY <2>e, EndTypes
  <2>1. BrokerTypes'
    BY <1>0, <1>5, <2>e DEF SelectClaim, Refuse, Claimable, Goto, BrokerTypes, Settled
  <2>2. ChannelTypes'
    BY <1>0, <1>5, <2>e DEF SelectClaim, Refuse, Claimable, Goto, ChannelTypes
  <2>3. LogTypes'
    BY <1>0, <1>5, <2>e DEF SelectClaim, Refuse, Claimable, Goto, LogTypes, RequestKnown
  <2>4. RequestTypes'
    BY <1>0, <1>5, <2>e DEF SelectClaim, Refuse, Claimable, Goto, RequestTypes, Labels
  <2>5. \A g \in Handlers : RequestKnown(g)'
    BY <1>0, <1>5, <2>e DEF SelectClaim, Refuse, Claimable, Goto, RequestTypes, RequestKnown
  <2> QED
    BY <2>1, <2>2, <2>3, <2>4, <2>5
<1>6. ASSUME NEW h \in Handlers, InsertClaim(h)
      PROVE  /\ BrokerTypes' /\ ChannelTypes' /\ LogTypes' /\ RequestTypes'
             /\ \A g \in Handlers : RequestKnown(g)'
  <2>e. ASSUME End(h)
        PROVE  /\ RequestTypes' /\ \A g \in Handlers : RequestKnown(g)'
               /\ waiting' \in [Replies -> Handlers \union {NoHandler}]
               /\ outcome' \in [Replies -> {"new", "posted", "timeout", "done"}]
               /\ posts' = posts
    BY <2>e, EndTypes
  <2>1. BrokerTypes'
    BY <1>0, <1>6, <2>e DEF InsertClaim, Take, Refuse, Goto, BrokerTypes, Settled
  <2>2. ChannelTypes'
    BY <1>0, <1>6, <2>e DEF InsertClaim, Take, Refuse, Goto, ChannelTypes
  <2>3. LogTypes'
    BY <1>0, <1>6, <2>e DEF InsertClaim, Take, Refuse, Goto, LogTypes, RequestKnown
  <2>4. RequestTypes'
    BY <1>0, <1>6, <2>e DEF InsertClaim, Take, Refuse, Goto, RequestTypes, Labels
  <2>5. \A g \in Handlers : RequestKnown(g)'
    BY <1>0, <1>6, <2>e DEF InsertClaim, Take, Refuse, Goto, RequestTypes, RequestKnown
  <2> QED
    BY <2>1, <2>2, <2>3, <2>4, <2>5
<1>7. ASSUME NEW h \in Handlers, Check(h)
      PROVE  /\ BrokerTypes' /\ ChannelTypes' /\ LogTypes' /\ RequestTypes'
             /\ \A g \in Handlers : RequestKnown(g)'
  <2>e. ASSUME End(h)
        PROVE  /\ RequestTypes' /\ \A g \in Handlers : RequestKnown(g)'
               /\ waiting' \in [Replies -> Handlers \union {NoHandler}]
               /\ outcome' \in [Replies -> {"new", "posted", "timeout", "done"}]
               /\ posts' = posts
    BY <2>e, EndTypes
  <2>1. BrokerTypes'
    BY <1>0, <1>7, <2>e DEF Check, Settle, Fault, Goto, BrokerTypes, Settled
  <2>2. ChannelTypes'
    BY <1>0, <1>7, <2>e DEF Check, Settle, Fault, Goto, ChannelTypes
  <2>3. LogTypes'
    BY <1>0, <1>7, <2>e DEF Check, Settle, Fault, Goto, LogTypes, RequestKnown
  <2>4. RequestTypes'
    BY <1>0, <1>7, <2>e DEF Check, Settle, Fault, Goto, RequestTypes, Labels
  <2>5. \A g \in Handlers : RequestKnown(g)'
    BY <1>0, <1>7, <2>e DEF Check, Settle, Fault, Goto, RequestTypes, RequestKnown
  <2> QED
    BY <2>1, <2>2, <2>3, <2>4, <2>5
<1>8. ASSUME NEW h \in Handlers, SelectOverrides(h)
      PROVE  /\ BrokerTypes' /\ ChannelTypes' /\ LogTypes' /\ RequestTypes'
             /\ \A g \in Handlers : RequestKnown(g)'
  <2>1. BrokerTypes'
    BY <1>0, <1>8 DEF SelectOverrides, Target, Goto, BrokerTypes, Settled
  <2>2. ChannelTypes'
    BY <1>0, <1>8 DEF SelectOverrides, Target, Goto, ChannelTypes
  <2>3. LogTypes'
    BY <1>0, <1>8 DEF SelectOverrides, Target, Goto, LogTypes, RequestKnown
  <2>4. RequestTypes'
    <3>1. {[type |-> t, row |-> override[t]] : t \in enabled} \subseteq Target
      BY <1>0 DEF ChannelTypes, Target
    <3> QED
      BY <1>0, <1>8, <3>1 DEF SelectOverrides, Goto, RequestTypes, Labels
  <2>5. \A g \in Handlers : RequestKnown(g)'
    BY <1>0, <1>8 DEF SelectOverrides, Target, Goto, RequestTypes, RequestKnown
  <2> QED
    BY <2>1, <2>2, <2>3, <2>4, <2>5
<1>9. ASSUME NEW h \in Handlers, CheckHealth(h)
      PROVE  /\ BrokerTypes' /\ ChannelTypes' /\ LogTypes' /\ RequestTypes'
             /\ \A g \in Handlers : RequestKnown(g)'
  <2>1. BrokerTypes'
    BY <1>0, <1>9 DEF CheckHealth, Goto, BrokerTypes, Settled
  <2>2. ChannelTypes'
    BY <1>0, <1>9 DEF CheckHealth, Goto, ChannelTypes
  <2>3. LogTypes'
    BY <1>0, <1>9 DEF CheckHealth, Goto, LogTypes, RequestKnown
  <2>4. RequestTypes'
    BY <1>0, <1>9 DEF CheckHealth, Goto, RequestTypes, Labels
  <2>5. \A g \in Handlers : RequestKnown(g)'
    BY <1>0, <1>9 DEF CheckHealth, Goto, RequestTypes, RequestKnown
  <2> QED
    BY <2>1, <2>2, <2>3, <2>4, <2>5
<1>10. ASSUME NEW h \in Handlers, Refresh(h)
      PROVE  /\ BrokerTypes' /\ ChannelTypes' /\ LogTypes' /\ RequestTypes'
             /\ \A g \in Handlers : RequestKnown(g)'
  <2>1. BrokerTypes'
    BY <1>0, <1>10 DEF Refresh, Allowed, Goto, BrokerTypes, Settled
  <2>2. ChannelTypes'
    BY <1>0, <1>10 DEF Refresh, Allowed, Goto, ChannelTypes
  <2>3. LogTypes'
    BY <1>0, <1>10 DEF Refresh, Allowed, Goto, LogTypes, RequestKnown
  <2>4. RequestTypes'
    <3>1. healthy \in SUBSET Types /\ {} \in SUBSET Types
      BY <1>0 DEF ChannelTypes
    <3> QED
      BY <1>0, <1>10, <3>1 DEF Refresh, Goto, RequestTypes, Labels
  <2>5. \A g \in Handlers : RequestKnown(g)'
    BY <1>0, <1>10 DEF Refresh, Allowed, Goto, RequestTypes, RequestKnown
  <2> QED
    BY <2>1, <2>2, <2>3, <2>4, <2>5
<1>11. ASSUME NEW h \in Handlers, ChooseTargets(h)
      PROVE  /\ BrokerTypes' /\ ChannelTypes' /\ LogTypes' /\ RequestTypes'
             /\ \A g \in Handlers : RequestKnown(g)'
  <2>1. BrokerTypes'
    BY <1>0, <1>11 DEF ChooseTargets, Goto, BrokerTypes, Settled
  <2>2. ChannelTypes'
    BY <1>0, <1>11 DEF ChooseTargets, Goto, ChannelTypes
  <2>3. LogTypes'
    <3>1. PICK found \in SUBSET Unsure : chosen' = chosen \union
            {[reply |-> reply[h], post |-> post[h], target |-> c] : c \in Targets(h, found)}
      BY <1>11 DEF ChooseTargets
    <3>2. Targets(h, found) \subseteq Target
      BY TargetsTypes
    <3>3. reply[h] \in Replies /\ post[h] \in Nat
      BY <1>0, <1>11 DEF ChooseTargets, RequestKnown, RequestTypes
    <3> QED
      BY <1>0, <1>11, <3>1, <3>2, <3>3 DEF ChooseTargets, LogTypes
  <2>4. RequestTypes'
    <3>1. PICK found \in SUBSET Unsure : todo' = [todo EXCEPT ![h] = Targets(h, found)]
      BY <1>11 DEF ChooseTargets
    <3>2. Targets(h, found) \subseteq Target
      BY TargetsTypes
    <3> QED
      BY <1>0, <1>11, <3>1, <3>2 DEF ChooseTargets, Goto, RequestTypes, Labels
  <2>5. \A g \in Handlers : RequestKnown(g)'
    BY <1>0, <1>11 DEF ChooseTargets, Goto, RequestTypes, RequestKnown
  <2> QED
    BY <2>1, <2>2, <2>3, <2>4, <2>5
<1>12. ASSUME NEW h \in Handlers, Dispatch(h)
      PROVE  /\ BrokerTypes' /\ ChannelTypes' /\ LogTypes' /\ RequestTypes'
             /\ \A g \in Handlers : RequestKnown(g)'
  <2>e. ASSUME End(h)
        PROVE  /\ RequestTypes' /\ \A g \in Handlers : RequestKnown(g)'
               /\ waiting' \in [Replies -> Handlers \union {NoHandler}]
               /\ outcome' \in [Replies -> {"new", "posted", "timeout", "done"}]
               /\ posts' = posts
    BY <2>e, EndTypes
  <2>1. BrokerTypes'
    BY <1>0, <1>12, <2>e DEF Dispatch, Abort, RowOf, Row, Statuses, Goto, BrokerTypes, Settled
  <2>2. ChannelTypes'
    BY <1>0, <1>12, <2>e DEF Dispatch, Abort, RowOf, Row, Statuses, Goto, ChannelTypes
  <2>3. LogTypes'
    <3>1. reply[h] \in Replies /\ post[h] \in Nat /\ todo[h] \subseteq Target
      BY <1>0, <1>12 DEF Dispatch, RequestKnown, RequestTypes
    <3>2. \A c \in todo[h] :
            RowOf(h, c) \in [reply : Replies, post : Nat, target : Target, status : Statuses]
      BY <3>1 DEF RowOf, Row, Statuses
    <3> HIDE DEF RowOf
    <3> QED
      BY <1>0, <1>12, <3>1, <3>2 DEF Dispatch, Abort, LogTypes
  <2>4. RequestTypes'
    BY <1>0, <1>12, <2>e DEF Dispatch, Abort, RowOf, Row, Statuses, Goto, RequestTypes, Labels
  <2>5. \A g \in Handlers : RequestKnown(g)'
    BY <1>0, <1>12, <2>e DEF Dispatch, Abort, RowOf, Row, Statuses, Goto, RequestTypes, RequestKnown
  <2> QED
    BY <2>1, <2>2, <2>3, <2>4, <2>5
<1>13. ASSUME NEW h \in Handlers, Deliver(h)
      PROVE  /\ BrokerTypes' /\ ChannelTypes' /\ LogTypes' /\ RequestTypes'
             /\ \A g \in Handlers : RequestKnown(g)'
  <2>1. BrokerTypes'
    BY <1>0, <1>13 DEF Deliver, StatusOf, Goto, BrokerTypes, Settled
  <2>2. ChannelTypes'
    BY <1>0, <1>13 DEF Deliver, StatusOf, Goto, ChannelTypes
  <2>3. LogTypes'
    <3>1. reply[h] \in Replies /\ target[h].type \in Types
      BY <1>0, <1>13 DEF Deliver, RequestKnown, Target
    <3>2. [sent EXCEPT ![reply[h]][target[h].type] = @ + 1] \in [Replies -> [Types -> Nat]]
      BY <1>0, <3>1 DEF LogTypes
    <3> QED
      BY <1>0, <1>13, <3>2 DEF Deliver, LogTypes
  <2>4. RequestTypes'
    BY <1>0, <1>13 DEF Deliver, StatusOf, Goto, RequestTypes, Labels
  <2>5. \A g \in Handlers : RequestKnown(g)'
    BY <1>0, <1>13 DEF Deliver, StatusOf, Goto, RequestTypes, RequestKnown
  <2> QED
    BY <2>1, <2>2, <2>3, <2>4, <2>5
<1>14. ASSUME NEW h \in Handlers, Store(h)
      PROVE  /\ BrokerTypes' /\ ChannelTypes' /\ LogTypes' /\ RequestTypes'
             /\ \A g \in Handlers : RequestKnown(g)'
  <2>e. ASSUME End(h)
        PROVE  /\ RequestTypes' /\ \A g \in Handlers : RequestKnown(g)'
               /\ waiting' \in [Replies -> Handlers \union {NoHandler}]
               /\ outcome' \in [Replies -> {"new", "posted", "timeout", "done"}]
               /\ posts' = posts
    BY <2>e, EndTypes
  <2>1. BrokerTypes'
    BY <1>0, <1>14, <2>e DEF Store, Abort, Fault, Row, Remaining, Statuses, Goto, BrokerTypes, Settled
  <2>2. ChannelTypes'
    BY <1>0, <1>14, <2>e DEF Store, Abort, Fault, Row, Remaining, Statuses, Goto, ChannelTypes
  <2>3. LogTypes'
    BY <1>0, <1>14, <2>e DEF Store, Abort, Fault, Row, Remaining, Statuses, Goto, LogTypes, RequestKnown
  <2>4. RequestTypes'
    BY <1>0, <1>14, <2>e DEF Store, Abort, Fault, Row, Remaining, Statuses, Goto, RequestTypes, Labels
  <2>5. \A g \in Handlers : RequestKnown(g)'
    BY <1>0, <1>14, <2>e DEF Store, Abort, Fault, Row, Remaining, Statuses, Goto, RequestTypes, RequestKnown
  <2> QED
    BY <2>1, <2>2, <2>3, <2>4, <2>5
<1>15. ASSUME NEW h \in Handlers, SettleSuccess(h)
      PROVE  /\ BrokerTypes' /\ ChannelTypes' /\ LogTypes' /\ RequestTypes'
             /\ \A g \in Handlers : RequestKnown(g)'
  <2>e. ASSUME End(h)
        PROVE  /\ RequestTypes' /\ \A g \in Handlers : RequestKnown(g)'
               /\ waiting' \in [Replies -> Handlers \union {NoHandler}]
               /\ outcome' \in [Replies -> {"new", "posted", "timeout", "done"}]
               /\ posts' = posts
    BY <2>e, EndTypes
  <2>1. BrokerTypes'
    BY <1>0, <1>15, <2>e DEF SettleSuccess, Settle, Fault, Goto, BrokerTypes, Settled
  <2>2. ChannelTypes'
    BY <1>0, <1>15, <2>e DEF SettleSuccess, Settle, Fault, Goto, ChannelTypes
  <2>3. LogTypes'
    BY <1>0, <1>15, <2>e DEF SettleSuccess, Settle, Fault, Goto, LogTypes, RequestKnown
  <2>4. RequestTypes'
    BY <1>0, <1>15, <2>e DEF SettleSuccess, Settle, Fault, Goto, RequestTypes, Labels
  <2>5. \A g \in Handlers : RequestKnown(g)'
    BY <1>0, <1>15, <2>e DEF SettleSuccess, Settle, Fault, Goto, RequestTypes, RequestKnown
  <2> QED
    BY <2>1, <2>2, <2>3, <2>4, <2>5
<1>16. ASSUME NEW h \in Handlers, FailsEarly(h)
      PROVE  /\ BrokerTypes' /\ ChannelTypes' /\ LogTypes' /\ RequestTypes'
             /\ \A g \in Handlers : RequestKnown(g)'
  <2>e. ASSUME End(h)
        PROVE  /\ RequestTypes' /\ \A g \in Handlers : RequestKnown(g)'
               /\ waiting' \in [Replies -> Handlers \union {NoHandler}]
               /\ outcome' \in [Replies -> {"new", "posted", "timeout", "done"}]
               /\ posts' = posts
    BY <2>e, EndTypes
  <2>1. BrokerTypes'
    BY <1>0, <1>16, <2>e DEF FailsEarly, Fault, Goto, BrokerTypes, Settled
  <2>2. ChannelTypes'
    BY <1>0, <1>16, <2>e DEF FailsEarly, Fault, Goto, ChannelTypes
  <2>3. LogTypes'
    BY <1>0, <1>16, <2>e DEF FailsEarly, Fault, Goto, LogTypes, RequestKnown
  <2>4. RequestTypes'
    BY <1>0, <1>16, <2>e DEF FailsEarly, Fault, Goto, RequestTypes, Labels
  <2>5. \A g \in Handlers : RequestKnown(g)'
    BY <1>0, <1>16, <2>e DEF FailsEarly, Fault, Goto, RequestTypes, RequestKnown
  <2> QED
    BY <2>1, <2>2, <2>3, <2>4, <2>5
<1>17. ASSUME NEW h \in Handlers, Crash(h)
      PROVE  /\ BrokerTypes' /\ ChannelTypes' /\ LogTypes' /\ RequestTypes'
             /\ \A g \in Handlers : RequestKnown(g)'
  <2>e. ASSUME End(h)
        PROVE  /\ RequestTypes' /\ \A g \in Handlers : RequestKnown(g)'
               /\ waiting' \in [Replies -> Handlers \union {NoHandler}]
               /\ outcome' \in [Replies -> {"new", "posted", "timeout", "done"}]
               /\ posts' = posts
    BY <2>e, EndTypes
  <2>1. BrokerTypes'
    BY <1>0, <1>17, <2>e DEF Crash, Fault, Goto, BrokerTypes, Settled
  <2>2. ChannelTypes'
    BY <1>0, <1>17, <2>e DEF Crash, Fault, Goto, ChannelTypes
  <2>3. LogTypes'
    BY <1>0, <1>17, <2>e DEF Crash, Fault, Goto, LogTypes, RequestKnown
  <2>4. RequestTypes'
    BY <1>0, <1>17, <2>e DEF Crash, Fault, Goto, RequestTypes, Labels
  <2>5. \A g \in Handlers : RequestKnown(g)'
    BY <1>0, <1>17, <2>e DEF Crash, Fault, Goto, RequestTypes, RequestKnown
  <2> QED
    BY <2>1, <2>2, <2>3, <2>4, <2>5
<1>18. ASSUME NEW t \in Editable, NEW on \in BOOLEAN, SaveOverride(t, on)
      PROVE  /\ BrokerTypes' /\ ChannelTypes' /\ LogTypes' /\ RequestTypes'
             /\ \A g \in Handlers : RequestKnown(g)'
  <2>1. BrokerTypes' /\ RequestTypes' /\ \A g \in Handlers : RequestKnown(g)'
    BY <1>0, <1>18 DEF SaveOverride, others, Edit, BrokerTypes, RequestTypes, RequestKnown
  <2>2. ChannelTypes' /\ LogTypes'
    BY <1>0, <1>18, ReplyAssumption DEF SaveOverride, others, Edit, ChannelTypes, LogTypes
  <2> QED
    BY <2>1, <2>2
<1>19. ASSUME NEW ts \in SUBSET Types, Delete(ts)
      PROVE  /\ BrokerTypes' /\ ChannelTypes' /\ LogTypes' /\ RequestTypes'
             /\ \A g \in Handlers : RequestKnown(g)'
  <2>1. BrokerTypes' /\ RequestTypes' /\ \A g \in Handlers : RequestKnown(g)'
    BY <1>0, <1>19 DEF Delete, others, Edit, BrokerTypes, RequestTypes, RequestKnown
  <2>2. ChannelTypes' /\ LogTypes'
    BY <1>0, <1>19, ReplyAssumption DEF Delete, others, Edit, ChannelTypes, LogTypes
  <2> QED
    BY <2>1, <2>2
<1>20. ASSUME NEW t \in Editable, HealthChanges(t)
      PROVE  /\ BrokerTypes' /\ ChannelTypes' /\ LogTypes' /\ RequestTypes'
             /\ \A g \in Handlers : RequestKnown(g)'
  <2>1. BrokerTypes' /\ RequestTypes' /\ \A g \in Handlers : RequestKnown(g)'
    BY <1>0, <1>20 DEF HealthChanges, others, Edit, BrokerTypes, RequestTypes, RequestKnown
  <2>2. ChannelTypes' /\ LogTypes'
    BY <1>0, <1>20, ReplyAssumption DEF HealthChanges, others, Edit, ChannelTypes, LogTypes
  <2> QED
    BY <2>1, <2>2
<1>21. ASSUME Startup
      PROVE  /\ BrokerTypes' /\ ChannelTypes' /\ LogTypes' /\ RequestTypes'
             /\ \A g \in Handlers : RequestKnown(g)'
  <2>1. BrokerTypes' /\ RequestTypes' /\ \A g \in Handlers : RequestKnown(g)'
    BY <1>0, <1>21 DEF Startup, others, Edit, Allowed, BrokerTypes, RequestTypes, RequestKnown
  <2>2. ChannelTypes' /\ LogTypes'
    BY <1>0, <1>21, ReplyAssumption DEF Startup, others, Edit, Allowed, ChannelTypes, LogTypes
  <2> QED
    BY <2>1, <2>2
<1>22. CASE UNCHANGED vars
  BY <1>0, <1>22 DEF vars, BrokerTypes, ChannelTypes, LogTypes, RequestTypes, RequestKnown
<1> QED
  BY <1>1, <1>2, <1>3, <1>4, <1>5, <1>6, <1>7, <1>8, <1>9, <1>10, <1>11, <1>12, <1>13,
     <1>14, <1>15, <1>16, <1>17, <1>18, <1>19, <1>20, <1>21, <1>22, ReplyAssumption
     DEF Next, HandlerStep, DeleteOverride, ResetOverrides

(***************************************************************************)
(* A request touches its own state only, and what an event is stays.       *)
(***************************************************************************)
RequestActs(h) ==
  \/ HandlerStep(h) \/ FailsEarly(h) \/ Crash(h)
  \/ \E e \in Replies : Post(e, h) \/ PostDirect(e, h)
Surroundings ==
  \/ \E e \in Replies : BrokerTimeout(e) \/ Age(e)
  \/ \E t \in Editable, on \in BOOLEAN : SaveOverride(t, on)
  \/ \E ts \in SUBSET Types : (\A t \in ts : override[t] # 0) /\ Delete(ts)
  \/ \E t \in Editable : HealthChanges(t)
  \/ Startup

LEMMA NextParts ==
  ASSUME TypeInv, [Next]_vars
  PROVE  (\E h \in Handlers : RequestActs(h)) \/ Surroundings \/ UNCHANGED vars
<1>1. ASSUME NEW t \in Editable, DeleteOverride(t) PROVE Surroundings
  <2>1. {t} \in SUBSET Types /\ \A u \in {t} : override[u] # 0
    BY <1>1, ReplyAssumption DEF DeleteOverride
  <2> QED
    BY <1>1, <2>1 DEF DeleteOverride, Surroundings
<1>2. ASSUME ResetOverrides PROVE Surroundings
  BY <1>2 DEF ResetOverrides, Surroundings
<1>3. ASSUME NEW t \in Editable, SaveOverride(t, TRUE) \/ SaveOverride(t, FALSE)
      PROVE  Surroundings
  BY <1>3 DEF Surroundings
<1> QED
  BY <1>1, <1>2, <1>3 DEF Next, RequestActs, Surroundings

LEMMA OthersKeep ==
  ASSUME TypeInv, NEW h \in Handlers, RequestActs(h), NEW g \in Handlers, g # h
  PROVE  /\ pc'[g] = pc[g] /\ reply'[g] = reply[g] /\ post'[g] = post[g]
         /\ own'[g] = own[g] /\ todo'[g] = todo[g] /\ target'[g] = target[g]
         /\ answer'[g] = answer[g]
<1>0. RequestTypes
  BY TypeParts DEF TypeInv
<1> DEFINE P == /\ pc'[g] = pc[g] /\ reply'[g] = reply[g] /\ post'[g] = post[g]
                /\ own'[g] = own[g] /\ todo'[g] = todo[g] /\ target'[g] = target[g]
                /\ answer'[g] = answer[g]
<1>e. End(h) => P
  BY <1>0 DEF End, Goto, RequestTypes
<1>s. \A e \in Replies : \A l : Start(e, h, l) => P
  BY <1>0 DEF Start, Goto, RequestTypes
<1> HIDE DEF P
<1>1. SelectClaim(h) \/ InsertClaim(h) \/ Check(h) => P
  BY <1>0, <1>e DEF SelectClaim, InsertClaim, Check, Take, Refuse, Settle, Goto, RequestTypes, P
<1>2. SelectOverrides(h) \/ CheckHealth(h) \/ Refresh(h) \/ ChooseTargets(h) => P
  BY <1>0 DEF SelectOverrides, CheckHealth, Refresh, ChooseTargets, Goto, RequestTypes, P
<1>3. Dispatch(h) \/ Deliver(h) \/ Store(h) => P
  BY <1>0, <1>e DEF Dispatch, Deliver, Store, Abort, Goto, RequestTypes, P
<1>4. SettleSuccess(h) \/ FailsEarly(h) \/ Crash(h) => P
  BY <1>e DEF SettleSuccess, Settle, FailsEarly, Crash
<1>5. \A e \in Replies : Post(e, h) \/ PostDirect(e, h) => P
  BY <1>s DEF Post, PostDirect
<1> QED
  BY <1>1, <1>2, <1>3, <1>4, <1>5 DEF RequestActs, HandlerStep, P

LEMMA SurroundingsKeep ==
  ASSUME Surroundings \/ UNCHANGED vars
  PROVE  UNCHANGED <<fixed, pc, local, sent, taken, chosen, posts>>
BY DEF Surroundings, vars, BrokerTimeout, Age, SaveOverride, Delete, HealthChanges, Startup,
  others

LEMMA RequestsKeep ==
  ASSUME NEW h \in Handlers, RequestActs(h)
  PROVE  /\ UNCHANGED <<fixed, overrides>>
         /\ Deliver(h) \/ sent' = sent
<1>1. CASE \E e \in Replies : Post(e, h) \/ PostDirect(e, h)
  BY <1>1 DEF Post, PostDirect, Start
<1>2. CASE SelectClaim(h) \/ InsertClaim(h) \/ Check(h) \/ SelectOverrides(h) \/ CheckHealth(h)
  BY <1>2 DEF SelectClaim, InsertClaim, Check, SelectOverrides, CheckHealth
<1>3. CASE Refresh(h) \/ ChooseTargets(h) \/ Dispatch(h) \/ Deliver(h) \/ Store(h)
  BY <1>3 DEF Refresh, ChooseTargets, Dispatch, Deliver, Store
<1>4. CASE SettleSuccess(h) \/ FailsEarly(h) \/ Crash(h)
  BY <1>4 DEF SettleSuccess, FailsEarly, Crash
<1> QED
  BY <1>1, <1>2, <1>3, <1>4 DEF RequestActs, HandlerStep

LEMMA FixedKept == ASSUME TypeInv, [Next]_vars PROVE UNCHANGED fixed
BY NextParts, SurroundingsKeep, RequestsKeep

(***************************************************************************)
(* The plan of a request: at most one target of each type, all of them fit *)
(* for the reply, and none of the type it is trying.                       *)
(***************************************************************************)
Fits(e, t) == t \in TicketTypes <=> binding[e] = "TICKET_THREAD"
OneOfType(ts) == \A c, d \in ts : c.type = d.type => c = d
Trying == {"deliver", "store"}
PlanKept(h) ==
  /\ OneOfType(own[h]) /\ OneOfType(todo[h])
  /\ pc[h] \notin {"dispatch"} \union Trying => todo[h] = {}
  /\ \A c \in todo[h] : Fits(reply[h], c.type)
  /\ pc[h] \in Trying => /\ Fits(reply[h], target[h].type)
                         /\ \A c \in todo[h] : c.type # target[h].type
PlanInv == \A h \in Handlers : PlanKept(h)

LEMMA TargetsFit ==
  ASSUME NEW h, NEW found, OneOfType(own[h])
  PROVE  /\ OneOfType(Targets(h, found))
         /\ \A c \in Targets(h, found) : Fits(reply[h], c.type)
<1>1. OneOfType(Targets(h, found))
  BY DEF OneOfType, Targets, FitBinding, Uncovered
<1>2. \A c \in Targets(h, found) : Fits(reply[h], c.type)
  BY DEF Targets, FitBinding, Fits
<1> QED
  BY <1>1, <1>2

LEMMA PlanInit == Init => PlanInv
BY DEF Init, PlanInv, PlanKept, OneOfType, Trying

LEMMA EndPlan ==
  ASSUME TypeInv, NEW h \in Handlers, End(h) PROVE PlanKept(h)'
BY TypeParts DEF TypeInv, RequestTypes, End, Goto, PlanKept, OneOfType, Trying

LEMMA PlanNext == TypeInv /\ PlanInv /\ [Next]_vars => PlanInv'
<1> SUFFICES ASSUME TypeInv, PlanInv, [Next]_vars PROVE PlanInv'
  OBVIOUS
<1>0. RequestTypes /\ UNCHANGED fixed
  BY FixedKept, TypeParts DEF TypeInv
<1>1. ASSUME Surroundings \/ UNCHANGED vars PROVE PlanInv'
  BY <1>0, <1>1, SurroundingsKeep DEF PlanInv, PlanKept, OneOfType, Fits
<1>2. ASSUME NEW h \in Handlers, RequestActs(h), PlanKept(h)' PROVE PlanInv'
  <2>1. ASSUME NEW g \in Handlers, g # h PROVE PlanKept(g)'
    BY <1>0, <1>2, <2>1, OthersKeep DEF PlanInv, PlanKept, OneOfType, Fits
  <2> QED
    BY <1>2, <2>1 DEF PlanInv
<1>3. ASSUME NEW h \in Handlers, RequestActs(h) PROVE PlanKept(h)'
  <2>0. PlanKept(h)
    BY DEF PlanInv
  <2>e. End(h) => PlanKept(h)'
    BY EndPlan
  <2>1. CASE \E e \in Replies : Post(e, h) \/ PostDirect(e, h)
    BY <1>0, <2>0, <2>1 DEF Post, PostDirect, Start, Goto, RequestTypes, PlanKept, OneOfType,
      Trying
  <2>2. CASE SelectClaim(h) \/ InsertClaim(h) \/ Check(h) \/ CheckHealth(h) \/ Refresh(h)
    BY <1>0, <2>0, <2>e, <2>2 DEF SelectClaim, InsertClaim, Check, CheckHealth, Refresh,
      Take, Refuse, Settle, Goto, RequestTypes, PlanKept, OneOfType, Trying
  <2>3. CASE SelectOverrides(h)
    <3>1. OneOfType({[type |-> t, row |-> override[t]] : t \in enabled})
      BY DEF OneOfType
    <3> QED
      BY <1>0, <2>0, <2>3, <3>1 DEF SelectOverrides, Goto, RequestTypes, PlanKept, Trying
  <2>4. CASE ChooseTargets(h)
    <3>1. PICK found \in SUBSET Unsure : todo' = [todo EXCEPT ![h] = Targets(h, found)]
      BY <2>4 DEF ChooseTargets
    <3>2. todo'[h] = Targets(h, found) /\ own'[h] = {} /\ pc'[h] = "dispatch"
          /\ reply'[h] = reply[h]
      BY <1>0, <2>4, <3>1 DEF ChooseTargets, Goto, RequestTypes
    <3>3. OneOfType(Targets(h, found)) /\ \A c \in Targets(h, found) : Fits(reply[h], c.type)
      BY <2>0, TargetsFit DEF PlanKept
    <3>4. OneOfType(todo[h])' /\ OneOfType(own[h])'
      BY <3>2, <3>3 DEF OneOfType
    <3>5. \A c \in todo'[h] : Fits(reply[h], c.type)'
      BY <1>0, <3>2, <3>3 DEF Fits
    <3> QED
      BY <3>2, <3>4, <3>5 DEF PlanKept, Trying
  <2>5. CASE Dispatch(h)
    BY <1>0, <2>0, <2>e, <2>5 DEF Dispatch, Abort, Goto, RequestTypes, PlanKept, OneOfType,
      Trying, Fits
  <2>6. CASE Deliver(h) \/ Store(h)
    BY <1>0, <2>0, <2>e, <2>6 DEF Deliver, Store, Abort, Remaining, Goto, RequestTypes,
      PlanKept, OneOfType, Trying, Fits
  <2>7. CASE SettleSuccess(h) \/ FailsEarly(h) \/ Crash(h)
    BY <2>e, <2>7 DEF SettleSuccess, Settle, FailsEarly, Crash
  <2> QED
    BY <1>3, <2>1, <2>2, <2>3, <2>4, <2>5, <2>6, <2>7 DEF RequestActs, HandlerStep
<1> QED
  BY <1>1, <1>2, <1>3, NextParts

(***************************************************************************)
(* A claim is good for one message on each channel: a request that may     *)
(* still send one has claimed the event, and no two have by one claim.     *)
(***************************************************************************)
Choosing == {"check", "overrides", "health", "refresh", "upsert", "defaults"}
MaySend(h, t) ==
  \/ pc[h] \in Choosing
  \/ \E c \in todo[h] : c.type = t
  \/ pc[h] = "deliver" /\ target[h].type = t
Senders(e, t) == {h \in Handlers : reply[h] = e /\ MaySend(h, t)}
OnceInv ==
  \A e \in Replies, t \in Types : Cardinality(Senders(e, t)) + sent[e][t] <= taken[e]

LEMMA SendersFinite ==
  /\ \A e, t : IsFiniteSet(Senders(e, t)) /\ Cardinality(Senders(e, t)) \in Nat
  /\ \A e, t : IsFiniteSet(Senders(e, t)') /\ Cardinality(Senders(e, t))' \in Nat
<1>1. \A e, t : Senders(e, t) \in SUBSET Handlers /\ Senders(e, t)' \in SUBSET Handlers
  BY DEF Senders
<1>2. \A S \in SUBSET Handlers : IsFiniteSet(S) /\ Cardinality(S) \in Nat
  BY ReplyAssumption, FS_Subset, FS_CardinalityType
<1> QED
  BY <1>1, <1>2

LEMMA OnceInit == Init => OnceInv
<1> SUFFICES ASSUME Init, NEW e \in Replies, NEW t \in Types
             PROVE  Cardinality(Senders(e, t)) + sent[e][t] <= taken[e]
  BY DEF OnceInv
<1>1. Senders(e, t) = {}
  BY DEF Init, Senders, MaySend, Choosing
<1> QED
  BY <1>1, FS_EmptySet DEF Init

LEMMA OnceNext == TypeInv /\ TypeInv' /\ PlanInv /\ OnceInv /\ [Next]_vars => OnceInv'
<1> SUFFICES ASSUME TypeInv, TypeInv', PlanInv, OnceInv, [Next]_vars,
                    NEW e \in Replies, NEW t \in Types
             PROVE  Cardinality(Senders(e, t)') + sent'[e][t] <= taken'[e]
  BY DEF OnceInv
<1>0. RequestTypes /\ BrokerTypes /\ LogTypes /\ BrokerTypes' /\ LogTypes'
  BY TypeParts DEF TypeInv
<1>n. /\ sent[e][t] \in Nat /\ taken[e] \in Nat /\ sent'[e][t] \in Nat /\ taken'[e] \in Nat
      /\ Cardinality(Senders(e, t)) + sent[e][t] <= taken[e]
  BY <1>0 DEF LogTypes, BrokerTypes, OnceInv
<1>f. /\ IsFiniteSet(Senders(e, t)) /\ Cardinality(Senders(e, t)) \in Nat
      /\ Cardinality(Senders(e, t)') \in Nat
  BY SendersFinite
\* The three ways a step may go.
<1>a. ASSUME Senders(e, t)' \subseteq Senders(e, t), sent'[e][t] = sent[e][t],
             taken'[e] >= taken[e]
      PROVE  Cardinality(Senders(e, t)') + sent'[e][t] <= taken'[e]
  <2>1. Cardinality(Senders(e, t)') <= Cardinality(Senders(e, t))
    BY <1>a, <1>f, FS_Subset
  <2> QED
    BY <1>a, <1>n, <1>f, <2>1
<1>b. ASSUME NEW h, Senders(e, t)' \subseteq Senders(e, t) \union {h},
             sent'[e][t] = sent[e][t], taken'[e] = taken[e] + 1
      PROVE  Cardinality(Senders(e, t)') + sent'[e][t] <= taken'[e]
  <2>a. /\ IsFiniteSet(Senders(e, t) \union {h})
        /\ Cardinality(Senders(e, t) \union {h})
             = IF h \in Senders(e, t) THEN Cardinality(Senders(e, t))
               ELSE Cardinality(Senders(e, t)) + 1
    BY <1>f, FS_AddElement, Zenon
  <2>1. /\ IsFiniteSet(Senders(e, t) \union {h})
        /\ Cardinality(Senders(e, t) \union {h}) <= Cardinality(Senders(e, t)) + 1
    BY <1>f, <2>a
  <2>2. Cardinality(Senders(e, t)') <= Cardinality(Senders(e, t) \union {h})
    BY <1>b, <2>1, FS_Subset
  <2>3. Cardinality(Senders(e, t) \union {h}) \in Nat
    BY <2>1, FS_CardinalityType
  <2> QED
    BY <1>b, <1>n, <1>f, <2>1, <2>2, <2>3
<1>c. ASSUME NEW h \in Senders(e, t), Senders(e, t)' \subseteq Senders(e, t) \ {h},
             sent'[e][t] <= sent[e][t] + 1, taken'[e] = taken[e]
      PROVE  Cardinality(Senders(e, t)') + sent'[e][t] <= taken'[e]
  <2>1. /\ IsFiniteSet(Senders(e, t) \ {h})
        /\ Cardinality(Senders(e, t) \ {h}) = Cardinality(Senders(e, t)) - 1
    BY <1>f, FS_RemoveElement
  <2>2. Cardinality(Senders(e, t)') <= Cardinality(Senders(e, t) \ {h})
    BY <1>c, <2>1, FS_Subset
  <2>3. Cardinality(Senders(e, t) \ {h}) \in Nat
    BY <2>1, FS_CardinalityType
  <2> QED
    BY <1>c, <1>n, <1>f, <2>1, <2>2, <2>3
<1>1. CASE Surroundings \/ UNCHANGED vars
  <2>1. Senders(e, t)' = Senders(e, t) /\ sent' = sent /\ taken' = taken
    BY <1>1, SurroundingsKeep DEF Senders, MaySend
  <2> QED
    BY <1>a, <1>n, <2>1
<1>2. ASSUME NEW h \in Handlers, RequestActs(h)
      PROVE  Cardinality(Senders(e, t)') + sent'[e][t] <= taken'[e]
  <2>p. PlanKept(h)
    BY DEF PlanInv
  <2>o. Senders(e, t)' \subseteq Senders(e, t) \union {h}
    BY <1>2, OthersKeep DEF Senders, MaySend
  <2>h. h \in Senders(e, t)' <=> reply'[h] = e /\ MaySend(h, t)'
    BY DEF Senders
  <2>e. ASSUME End(h), sent' = sent, taken' = taken
        PROVE  Cardinality(Senders(e, t)') + sent'[e][t] <= taken'[e]
    <3>1. reply'[h] = NoReply
      BY <1>0, <2>e DEF End, RequestTypes
    <3>2. h \notin Senders(e, t)'
      BY <3>1, <2>h, ReplyAssumption
    <3> QED
      BY <1>a, <1>n, <2>e, <2>o, <3>2
  <2>k. ASSUME reply'[h] = reply[h], MaySend(h, t)' => MaySend(h, t), sent' = sent,
               taken' = taken
        PROVE  Cardinality(Senders(e, t)') + sent'[e][t] <= taken'[e]
    <3>1. h \in Senders(e, t)' => h \in Senders(e, t)
      BY <2>k, <2>h DEF Senders
    <3> QED
      BY <1>a, <1>n, <2>k, <2>o, <3>1
  <2>1. CASE \E d \in Replies : Post(d, h)
    <3>1. MaySend(h, t)' = FALSE /\ sent' = sent /\ taken' = taken
      BY <1>0, <2>1, <2>p DEF Post, Start, Goto, RequestTypes, PlanKept, MaySend, Choosing, Trying
    <3> QED
      BY <1>a, <1>n, <2>o, <2>h, <3>1
  <2>2. CASE \E d \in Replies : PostDirect(d, h)
    <3>1. PICK d \in Replies : PostDirect(d, h)
      BY <2>2
    <3>2. CASE d = e
      <4>1. sent' = sent /\ taken'[e] = taken[e] + 1
        BY <1>0, <3>1, <3>2 DEF PostDirect, Start, BrokerTypes
      <4> QED
        BY <1>b, <2>o, <4>1
    <3>3. CASE d # e
      <4>1. sent' = sent /\ taken'[e] = taken[e] /\ reply'[h] = d
        BY <1>0, <3>1, <3>3 DEF PostDirect, Start, BrokerTypes, RequestTypes
      <4> QED
        BY <1>a, <1>n, <2>o, <2>h, <3>3, <4>1
    <3> QED
      BY <3>2, <3>3
  <2>3. CASE SelectClaim(h)
    BY <1>0, <2>3, <2>e, <2>k, <2>p DEF SelectClaim, Refuse, Goto, RequestTypes, MaySend,
      Choosing, PlanKept, Trying
  <2>4. CASE InsertClaim(h)
    <3>1. CASE Refuse(h)
      BY <2>4, <3>1, <2>e DEF InsertClaim, Refuse
    <3>2. CASE Take(h) /\ reply[h] = e
      <4>1. sent' = sent /\ taken'[e] = taken[e] + 1
        BY <1>0, <2>4, <3>2 DEF InsertClaim, Take, BrokerTypes
      <4> QED
        BY <1>b, <2>o, <4>1
    <3>3. CASE Take(h) /\ reply[h] # e
      <4>1. sent' = sent /\ taken'[e] = taken[e] /\ reply' = reply
        BY <1>0, <2>4, <3>3 DEF InsertClaim, Take, BrokerTypes
      <4> QED
        BY <1>a, <1>n, <2>o, <2>h, <3>3, <4>1
    <3> QED
      BY <2>4, <3>1, <3>2, <3>3 DEF InsertClaim
  <2>5. CASE Check(h)
    BY <1>0, <2>5, <2>e, <2>k DEF Check, Settle, Goto, RequestTypes, MaySend, Choosing
  <2>6. CASE SelectOverrides(h) \/ CheckHealth(h) \/ Refresh(h)
    BY <1>0, <2>6, <2>k DEF SelectOverrides, CheckHealth, Refresh, Goto, RequestTypes, MaySend,
      Choosing
  <2>7. CASE ChooseTargets(h)
    BY <1>0, <2>7, <2>k DEF ChooseTargets, Goto, RequestTypes, MaySend, Choosing
  <2>8. CASE Dispatch(h)
    <3>1. CASE End(h)
      BY <2>8, <3>1, <2>e DEF Dispatch
    <3>2. CASE ~End(h)
      BY <1>0, <2>8, <3>2, <2>k DEF Dispatch, Abort, Goto, RequestTypes, MaySend, Choosing
    <3> QED
      BY <3>1, <3>2
  <2>9. CASE Deliver(h)
    <3>0. /\ pc[h] = "deliver" /\ reply[h] \in Replies /\ target[h].type \in Types
          /\ pc'[h] = "store" /\ reply' = reply /\ todo' = todo /\ target' = target
          /\ taken' = taken
      BY <1>0, <2>9 DEF Deliver, Goto, RequestTypes, TypeInv, RequestKnown, Target
    <3>1. CASE reply[h] = e /\ target[h].type = t
      <4>1. h \in Senders(e, t)
        BY <3>0, <3>1 DEF Senders, MaySend
      <4>2. h \notin Senders(e, t)'
        BY <2>h, <2>p, <3>0, <3>1 DEF MaySend, Choosing, PlanKept, Trying
      <4>3. sent'[e][t] <= sent[e][t] + 1
        BY <1>0, <1>n, <2>9, <3>1 DEF Deliver, LogTypes
      <4> QED
        BY <1>c, <2>o, <3>0, <4>1, <4>2, <4>3
    <3>2. CASE ~(reply[h] = e /\ target[h].type = t)
      <4>1. sent'[e][t] = sent[e][t]
        BY <1>0, <2>9, <3>2 DEF Deliver, LogTypes
      <4>2. h \in Senders(e, t)' => h \in Senders(e, t)
        BY <3>0, <2>h DEF Senders, MaySend, Choosing
      <4> QED
        BY <1>a, <1>n, <2>o, <3>0, <4>1, <4>2
    <3> QED
      BY <3>1, <3>2
  <2>10. CASE Store(h)
    <3>1. CASE End(h)
      BY <2>10, <3>1, <2>e DEF Store
    <3>2. CASE ~End(h)
      BY <1>0, <2>10, <3>2, <2>k DEF Store, Abort, Remaining, Goto, RequestTypes, MaySend,
        Choosing
    <3> QED
      BY <3>1, <3>2
  <2>11. CASE SettleSuccess(h) \/ FailsEarly(h) \/ Crash(h)
    BY <2>e, <2>11 DEF SettleSuccess, Settle, FailsEarly, Crash
  <2> QED
    BY <1>2, <2>1, <2>2, <2>3, <2>4, <2>5, <2>6, <2>7, <2>8, <2>9, <2>10, <2>11
       DEF RequestActs, HandlerStep
<1> QED
  BY <1>1, <1>2, NextParts

\* What is sent, fits.
LEMMA BindingNext ==
  TypeInv /\ PlanInv /\ BindingKept /\ [Next]_vars => BindingKept'
<1> SUFFICES ASSUME TypeInv, PlanInv, BindingKept, [Next]_vars,
                    NEW e \in Replies, NEW t \in Types, sent'[e][t] > 0
             PROVE  Fits(e, t)
  BY FixedKept DEF BindingKept, Fits
<1>0. LogTypes
  BY TypeParts DEF TypeInv
<1>1. ASSUME NEW h \in Handlers, Deliver(h) PROVE Fits(e, t)
  <2>1. CASE reply[h] = e /\ target[h].type = t
    BY <1>1, <2>1 DEF Deliver, PlanInv, PlanKept, Trying
  <2>2. CASE ~(reply[h] = e /\ target[h].type = t)
    <3>1. sent'[e][t] = sent[e][t]
      BY <1>0, <1>1, <2>2 DEF Deliver, LogTypes
    <3> QED
      BY <3>1 DEF BindingKept, Fits
  <2> QED
    BY <2>1, <2>2
<1>2. CASE sent' = sent
  BY <1>2 DEF BindingKept, Fits
<1> QED
  BY <1>1, <1>2, NextParts, RequestsKeep, SurroundingsKeep

(***************************************************************************)
(* An override that is gone does not come back: its id is never given      *)
(* again.  So a target stays recorded, or tried, once it is.               *)
(***************************************************************************)
Recorded(e, c) == ~Present(c) \/ \E l \in log : l.reply = e /\ l.target = c
Tried(e, c) ==
  ~Present(c) \/ \E l \in log : l.reply = e /\ l.target = c /\ l.status # "PENDING"
IdsInv ==
  /\ nextId > 0
  /\ \A t \in Types : override[t] < nextId
  /\ \A c \in chosen : c.target.row < nextId
  /\ \A h \in Handlers : \A c \in own[h] : c.row < nextId

LEMMA IdsInit == Init => IdsInv
BY DEF Init, IdsInv

LEMMA OverrideSteps ==
  ASSUME Surroundings \/ UNCHANGED vars
  PROVE  \/ UNCHANGED overrides
         \/ \E t \in Editable, on \in BOOLEAN : SaveOverride(t, on)
         \/ \E ts \in SUBSET Types : Delete(ts)
BY DEF Surroundings, vars, BrokerTimeout, Age, HealthChanges, Startup, others

LEMMA NextIdGrows ==
  ASSUME TypeInv, [Next]_vars PROVE nextId' \in Nat /\ nextId' >= nextId
<1>0. nextId \in Nat
  BY TypeParts DEF TypeInv, ChannelTypes
<1>1. Surroundings \/ UNCHANGED vars => nextId' = nextId \/ nextId' = nextId + 1
  BY DEF Surroundings, vars, BrokerTimeout, Age, SaveOverride, Delete, HealthChanges,
    Startup, others
<1> QED
  BY <1>0, <1>1, NextParts, RequestsKeep

\* What is chosen has been taken from the table or is a default.
LEMMA ChosenGrows ==
  ASSUME TypeInv, NEW h \in Handlers, RequestActs(h)
  PROVE  \/ chosen' = chosen
         \/ /\ ChooseTargets(h)
            /\ \E found \in SUBSET Unsure :
                 /\ todo' = [todo EXCEPT ![h] = Targets(h, found)]
                 /\ chosen' = chosen \union
                      {[reply |-> reply[h], post |-> post[h], target |-> c] :
                         c \in Targets(h, found)}
<1>1. CASE \E e \in Replies : Post(e, h) \/ PostDirect(e, h)
  BY <1>1 DEF Post, PostDirect, Start
<1>2. CASE SelectClaim(h) \/ InsertClaim(h) \/ Check(h) \/ SelectOverrides(h) \/ CheckHealth(h)
  BY <1>2 DEF SelectClaim, InsertClaim, Check, SelectOverrides, CheckHealth
<1>3. CASE Refresh(h) \/ Dispatch(h) \/ Deliver(h) \/ Store(h)
  BY <1>3 DEF Refresh, Dispatch, Deliver, Store
<1>4. CASE SettleSuccess(h) \/ FailsEarly(h) \/ Crash(h)
  BY <1>4 DEF SettleSuccess, FailsEarly, Crash
<1>5. CASE ChooseTargets(h)
  BY <1>5 DEF ChooseTargets
<1> QED
  BY <1>1, <1>2, <1>3, <1>4, <1>5 DEF RequestActs, HandlerStep

LEMMA OwnGrows ==
  ASSUME TypeInv, NEW h \in Handlers, RequestActs(h)
  PROVE  \A c \in own'[h] : c \in own[h] \/ \E t \in enabled : c.row = override[t]
<1>0. RequestTypes
  BY TypeParts DEF TypeInv
<1>e. End(h) => own'[h] = {}
  BY <1>0 DEF End, RequestTypes
<1>1. CASE \E e \in Replies : Post(e, h) \/ PostDirect(e, h)
  BY <1>1 DEF Post, PostDirect, Start
<1>2. CASE SelectClaim(h) \/ InsertClaim(h) \/ Check(h) \/ CheckHealth(h)
  BY <1>2, <1>e DEF SelectClaim, InsertClaim, Check, CheckHealth, Take, Refuse, Settle
<1>3. CASE Refresh(h) \/ Dispatch(h) \/ Deliver(h) \/ Store(h)
  BY <1>3, <1>e DEF Refresh, Dispatch, Deliver, Store, Abort
<1>4. CASE SettleSuccess(h) \/ FailsEarly(h) \/ Crash(h)
  BY <1>4, <1>e DEF SettleSuccess, Settle, FailsEarly, Crash
<1>5. CASE ChooseTargets(h)
  BY <1>0, <1>5 DEF ChooseTargets, RequestTypes
<1>6. CASE SelectOverrides(h)
  BY <1>0, <1>6 DEF SelectOverrides, RequestTypes
<1> QED
  BY <1>1, <1>2, <1>3, <1>4, <1>5, <1>6 DEF RequestActs, HandlerStep

LEMMA IdsNext == TypeInv /\ IdsInv /\ [Next]_vars => IdsInv'
<1> SUFFICES ASSUME TypeInv, IdsInv, [Next]_vars PROVE IdsInv'
  OBVIOUS
<1>0. ChannelTypes /\ RequestTypes /\ LogTypes
  BY TypeParts DEF TypeInv
<1>n. nextId' \in Nat /\ nextId' >= nextId
  BY NextIdGrows
<1>r. /\ \A c \in chosen : c.target.row \in Nat
      /\ \A h \in Handlers : \A c \in own[h] : c.row \in Nat
  BY <1>0 DEF LogTypes, RequestTypes, Target
<1>1. ASSUME Surroundings \/ UNCHANGED vars PROVE IdsInv'
  <2>1. chosen' = chosen /\ own' = own
    BY <1>1, SurroundingsKeep
  <2>2. \A t \in Types : override'[t] < nextId'
    <3>1. CASE UNCHANGED overrides
      BY <3>1 DEF IdsInv
    <3>2. CASE \E t \in Editable, on \in BOOLEAN : SaveOverride(t, on)
      BY <1>0, <3>2 DEF SaveOverride, IdsInv, ChannelTypes
    <3>3. CASE \E ts \in SUBSET Types : Delete(ts)
      BY <1>0, <3>3 DEF Delete, IdsInv, ChannelTypes
    <3> QED
      BY <1>1, <3>1, <3>2, <3>3, OverrideSteps
  <2>3. /\ \A c \in chosen : c.target.row < nextId'
        /\ \A h \in Handlers : \A c \in own[h] : c.row < nextId'
    BY <1>0, <1>n, <1>r DEF IdsInv, ChannelTypes
  <2> QED
    BY <1>0, <1>n, <2>1, <2>2, <2>3 DEF IdsInv, ChannelTypes
<1>2. ASSUME NEW h \in Handlers, RequestActs(h) PROVE IdsInv'
  <2>1. UNCHANGED overrides
    BY <1>2, RequestsKeep
  <2>2. \A g \in Handlers : \A c \in own'[g] : c.row < nextId
    <3>1. ASSUME NEW g \in Handlers, g # h PROVE \A c \in own'[g] : c.row < nextId
      BY <1>2, <3>1, OthersKeep DEF IdsInv
    <3>2. \A c \in own'[h] : c.row < nextId
      BY <1>0, <1>2, OwnGrows DEF IdsInv, ChannelTypes
    <3> QED
      BY <3>1, <3>2
  <2>3. \A found \in SUBSET Unsure : \A c \in Targets(h, found) : c.row < nextId
    BY DEF Targets, FitBinding, IdsInv
  <2>4. \A c \in chosen' : c.target.row < nextId
    BY <1>2, <2>3, ChosenGrows DEF IdsInv
  <2> QED
    BY <2>1, <2>2, <2>4 DEF IdsInv
<1> QED
  BY <1>1, <1>2, NextParts

LEMMA GoneStaysGone ==
  ASSUME TypeInv, IdsInv, [Next]_vars, NEW c \in chosen, ~Present(c.target)
  PROVE  ~Present(c.target)'
<1>0. ChannelTypes /\ c.target.type \in Types /\ c.target.row \in Nat
  BY TypeParts DEF TypeInv, LogTypes, Target
<1>1. c.target.row < nextId /\ c.target.row # 0 /\ override[c.target.type] # c.target.row
  BY DEF IdsInv, Present
<1>2. CASE UNCHANGED overrides
  BY <1>1, <1>2 DEF Present
<1>3. CASE \E t \in Editable, on \in BOOLEAN : SaveOverride(t, on)
  BY <1>0, <1>1, <1>3 DEF SaveOverride, ChannelTypes, Present
<1>4. CASE \E ts \in SUBSET Types : Delete(ts)
  BY <1>0, <1>1, <1>4 DEF Delete, Present
<1> QED
  BY <1>2, <1>3, <1>4, OverrideSteps, NextParts, RequestsKeep

\* The three ways the log may change.
LEMMA LogSteps ==
  ASSUME TypeInv, [Next]_vars
  PROVE  \/ log' = log
         \/ \E h \in Handlers :
              /\ Dispatch(h) /\ ~End(h)
              /\ \E c \in todo[h] : Present(c) /\ log' = log \union {RowOf(h, c)}
         \/ \E h \in Handlers :
              /\ Store(h) /\ ~End(h)
              /\ Row(h, target[h], "PENDING") \in log
              /\ log' = (log \ {Row(h, target[h], "PENDING")})
                          \union {Row(h, target[h], answer[h])}
         \/ \E ts \in SUBSET Types :
              (\A t \in ts : override[t] # 0) /\ Delete(ts)
<1>0. RequestTypes
  BY TypeParts DEF TypeInv
<1>1. Surroundings \/ UNCHANGED vars =>
        \/ log' = log
        \/ \E ts \in SUBSET Types : (\A t \in ts : override[t] # 0) /\ Delete(ts)
  BY DEF Surroundings, vars, BrokerTimeout, Age, SaveOverride, HealthChanges, Startup, others
<1>2. ASSUME NEW h \in Handlers, RequestActs(h), ~Dispatch(h), ~Store(h) PROVE log' = log
  BY <1>2 DEF RequestActs, HandlerStep, Post, PostDirect, Start, SelectClaim, InsertClaim,
    Check, SelectOverrides, CheckHealth, Refresh, ChooseTargets, Deliver, SettleSuccess,
    FailsEarly, Crash
<1>e. ASSUME NEW h \in Handlers, End(h), pc[h] # "idle" PROVE reply'[h] # reply[h]
  BY <1>0, <1>e, ReplyAssumption DEF End, RequestTypes, TypeInv, RequestKnown
<1>3. ASSUME NEW h \in Handlers, Dispatch(h)
      PROVE  \/ log' = log
             \/ ~End(h) /\ \E c \in todo[h] : Present(c) /\ log' = log \union {RowOf(h, c)}
  <2>1. UNCHANGED request => ~End(h)
    BY <1>3, <1>e DEF Dispatch
  <2> QED
    BY <1>3, <2>1 DEF Dispatch
<1>4. ASSUME NEW h \in Handlers, Store(h)
      PROVE  \/ log' = log
             \/ /\ ~End(h)
                /\ Row(h, target[h], "PENDING") \in log
                /\ log' = (log \ {Row(h, target[h], "PENDING")})
                            \union {Row(h, target[h], answer[h])}
  <2>1. UNCHANGED request => ~End(h)
    BY <1>4, <1>e DEF Store
  <2> QED
    BY <1>4, <2>1 DEF Store
<1> QED
  BY <1>1, <1>2, <1>3, <1>4, NextParts

LEMMA TriedStaysTried ==
  ASSUME TypeInv, IdsInv, [Next]_vars, NEW c \in chosen
  PROVE  /\ Recorded(c.reply, c.target) => Recorded(c.reply, c.target)'
         /\ Tried(c.reply, c.target) => Tried(c.reply, c.target)'
<1> DEFINE e == c.reply
           x == c.target
<1>0. /\ ChannelTypes /\ LogTypes /\ x.type \in Types /\ x.row \in Nat
      /\ x = [type |-> x.type, row |-> x.row]
  BY TypeParts DEF TypeInv, LogTypes, Target
<1>1. ~Present(x) => ~Present(x)'
  BY GoneStaysGone
<1>2. CASE log' = log
  BY <1>1, <1>2 DEF Recorded, Tried
<1>3. ASSUME NEW h \in Handlers, NEW d, log' = log \union {RowOf(h, d)}
      PROVE  (Recorded(e, x) => Recorded(e, x)') /\ (Tried(e, x) => Tried(e, x)')
  BY <1>1, <1>3 DEF Recorded, Tried
<1>4. ASSUME NEW h \in Handlers, Store(h),
             log' = (log \ {Row(h, target[h], "PENDING")})
                      \union {Row(h, target[h], answer[h])}
      PROVE  (Recorded(e, x) => Recorded(e, x)') /\ (Tried(e, x) => Tried(e, x)')
  <2>1. ASSUME NEW l \in log
        PROVE  \E k \in log' : /\ k.reply = l.reply /\ k.target = l.target
                               /\ l.status # "PENDING" => k.status # "PENDING"
    <3>1. CASE l = Row(h, target[h], "PENDING")
      <4>1. Row(h, target[h], answer[h]) \in log'
        BY <1>4
      <4> QED
        BY <3>1, <4>1 DEF Row
    <3>2. CASE l # Row(h, target[h], "PENDING")
      BY <1>4, <3>2
    <3> QED
      BY <3>1, <3>2
  <2> QED
    BY <1>1, <2>1 DEF Recorded, Tried
<1>5. ASSUME NEW ts \in SUBSET Types, \A t \in ts : override[t] # 0, Delete(ts)
      PROVE  (Recorded(e, x) => Recorded(e, x)') /\ (Tried(e, x) => Tried(e, x)')
  <2>1. CASE \E t \in ts : x = [type |-> t, row |-> override[t]]
    <3>1. PICK t \in ts : x = [type |-> t, row |-> override[t]]
      BY <2>1
    <3>2. x.type = t /\ x.row # 0
      BY <1>5, <3>1
    <3>3. override'[t] = 0
      BY <1>5 DEF Delete
    <3>4. ~Present(x)'
      BY <3>2, <3>3 DEF Present
    <3> QED
      BY <3>4 DEF Recorded, Tried
  <2>2. CASE \A t \in ts : x # [type |-> t, row |-> override[t]]
    <3>1. \A l \in log : l.target = x => l \in log'
      BY <1>5, <2>2 DEF Delete
    <3> QED
      BY <1>1, <3>1 DEF Recorded, Tried
  <2> QED
    BY <2>1, <2>2
<1> QED
  BY <1>2, <1>3, <1>4, <1>5, LogSteps

(***************************************************************************)
(* What the log says.                                                      *)
(***************************************************************************)
Choice(e, p, c) == [reply |-> e, post |-> p, target |-> c]
ChoicesKnown(h) ==
  /\ \A c \in todo[h] : Choice(reply[h], post[h], c) \in chosen
  /\ pc[h] \in Trying =>
       /\ Choice(reply[h], post[h], target[h]) \in chosen
       /\ Recorded(reply[h], target[h])
SentIsRecorded ==
  \A e \in Replies, t \in Types : sent[e][t] > 0 =>
    \E c \in chosen : c.reply = e /\ c.target.type = t /\ Recorded(e, c.target)
RecordInv == (\A h \in Handlers : ChoicesKnown(h)) /\ SentIsRecorded

LEMMA RecordInit == Init => RecordInv
BY DEF Init, RecordInv, ChoicesKnown, SentIsRecorded, Trying

LEMMA ChosenStays == ASSUME TypeInv, [Next]_vars PROVE chosen \subseteq chosen'
BY NextParts, SurroundingsKeep, ChosenGrows

LEMMA EndChoices ==
  ASSUME TypeInv, NEW h \in Handlers, End(h) PROVE ChoicesKnown(h)'
BY TypeParts DEF TypeInv, RequestTypes, End, Goto, ChoicesKnown, Trying

LEMMA RecordNext ==
  TypeInv /\ PlanInv /\ IdsInv /\ RecordInv /\ [Next]_vars => RecordInv'
<1> SUFFICES ASSUME TypeInv, PlanInv, IdsInv, RecordInv, [Next]_vars PROVE RecordInv'
  OBVIOUS
<1>0. RequestTypes /\ LogTypes
  BY TypeParts DEF TypeInv
<1>c. chosen \subseteq chosen'
  BY ChosenStays
<1>k. \A e, p, x : Choice(e, p, x) \in chosen /\ Recorded(e, x) => Recorded(e, x)'
  BY TriedStaysTried DEF Choice
<1>l. \A c \in chosen : Recorded(c.reply, c.target) => Recorded(c.reply, c.target)'
  BY TriedStaysTried
<1>u. ASSUME NEW h \in Handlers, pc'[h] = pc[h], reply'[h] = reply[h], post'[h] = post[h],
             todo'[h] = todo[h], target'[h] = target[h]
      PROVE  ChoicesKnown(h)'
  <2>1. ChoicesKnown(h)
    BY DEF RecordInv
  <2>2. \A c \in todo'[h] : Choice(reply'[h], post'[h], c) \in chosen'
    BY <1>c, <1>u, <2>1 DEF ChoicesKnown, Choice
  <2>3. ASSUME pc[h] \in Trying
        PROVE  (Choice(reply[h], post[h], target[h]) \in chosen /\ Recorded(reply[h], target[h]))'
    <3>0. PICK e, p, x : e = reply[h] /\ p = post[h] /\ x = target[h]
      OBVIOUS
    <3>1. Choice(e, p, x) \in chosen /\ Recorded(e, x)
      BY <2>1, <2>3, <3>0 DEF ChoicesKnown
    <3>2. Recorded(e, x)' /\ Choice(e, p, x) \in chosen'
      BY <1>c, <1>k, <3>1
    <3> QED
      BY <1>u, <3>0, <3>2 DEF Choice, Recorded, Present
  <2> QED
    BY <1>u, <2>2, <2>3 DEF ChoicesKnown, Choice
<1>s. ASSUME sent' = sent PROVE SentIsRecorded'
  BY <1>c, <1>l, <1>s DEF RecordInv, SentIsRecorded
<1>1. ASSUME Surroundings \/ UNCHANGED vars PROVE RecordInv'
  <2>1. UNCHANGED <<pc, reply, post, todo, target, sent>>
    BY <1>1, SurroundingsKeep
  <2> QED
    BY <1>u, <1>s, <2>1 DEF RecordInv
<1>2. ASSUME NEW h \in Handlers, RequestActs(h) PROVE ChoicesKnown(h)'
  <2>0. ChoicesKnown(h) /\ PlanKept(h)
    BY DEF RecordInv, PlanInv
  <2>e. End(h) => ChoicesKnown(h)'
    BY EndChoices
  <2>1. CASE \E e \in Replies : Post(e, h) \/ PostDirect(e, h)
    BY <1>0, <2>0, <2>1 DEF Post, PostDirect, Start, Goto, RequestTypes, PlanKept,
      ChoicesKnown, Trying
  <2>2. CASE SelectClaim(h) \/ InsertClaim(h) \/ Check(h)
    BY <1>0, <2>0, <2>e, <2>2 DEF SelectClaim, InsertClaim, Check, Take, Refuse, Settle,
      Goto, RequestTypes, PlanKept, ChoicesKnown, Trying
  <2>3. CASE SelectOverrides(h) \/ CheckHealth(h) \/ Refresh(h)
    BY <1>0, <2>0, <2>3 DEF SelectOverrides, CheckHealth, Refresh, Goto, RequestTypes,
      PlanKept, ChoicesKnown, Trying
  <2>4. CASE ChooseTargets(h)
    <3>1. /\ \A c \in todo'[h] : Choice(reply[h], post[h], c) \in chosen'
          /\ pc'[h] = "dispatch" /\ UNCHANGED request
      BY <1>0, <2>4 DEF ChooseTargets, Goto, RequestTypes, Choice
    <3> QED
      BY <3>1 DEF ChoicesKnown, Trying, Choice
  <2>5. CASE Dispatch(h)
    <3>1. CASE End(h)
      BY <3>1, <2>e
    <3>2. CASE UNCHANGED request /\ pc'[h] \notin Trying /\ todo'[h] \subseteq todo[h]
      BY <1>c, <2>0, <3>2 DEF ChoicesKnown, Choice
    <3>3. ASSUME NEW c \in todo[h], Present(c), log' = log \union {RowOf(h, c)},
                 todo' = [todo EXCEPT ![h] = @ \ {c}], Goto(h, "deliver"),
                 target' = [target EXCEPT ![h] = c], UNCHANGED request
          PROVE  ChoicesKnown(h)'
      <4>1. target'[h] = c /\ todo'[h] \subseteq todo[h] /\ UNCHANGED request
        BY <1>0, <3>3 DEF RequestTypes
      <4>2. Choice(reply[h], post[h], c) \in chosen'
        BY <1>c, <2>0 DEF ChoicesKnown
      <4>3. \E l \in log' : l.reply = reply[h] /\ l.target = c
        <5>1. RowOf(h, c) \in log'
          BY <3>3
        <5>2. RowOf(h, c).reply = reply[h] /\ RowOf(h, c).target = c
          BY DEF RowOf, Row
        <5> QED
          BY <5>1, <5>2
      <4> QED
        BY <1>c, <2>0, <4>1, <4>2, <4>3 DEF ChoicesKnown, Choice, Recorded
    <3>4. pc[h] = "dispatch"
      BY <2>5 DEF Dispatch
    <3> QED
      BY <1>0, <2>5, <3>1, <3>2, <3>3, <3>4 DEF Dispatch, Abort, Goto, RequestTypes, Trying
  <2>6. CASE Deliver(h)
    <3>1. /\ pc[h] = "deliver" /\ pc'[h] = "store" /\ UNCHANGED <<request, todo, target, log>>
          /\ UNCHANGED <<overrides, chosen>>
      BY <1>0, <2>6 DEF Deliver, Goto, RequestTypes
    <3> QED
      BY <2>0, <3>1 DEF ChoicesKnown, Trying, Choice, Recorded, Present
  <2>7. CASE Store(h)
    <3>1. CASE End(h)
      BY <3>1, <2>e
    <3>2. CASE ~End(h)
      <4>1. pc'[h] = "dispatch" /\ UNCHANGED request /\ todo'[h] = todo[h]
        BY <1>0, <2>7, <3>2 DEF Store, Abort, Remaining, Goto, RequestTypes
      <4> QED
        BY <1>c, <2>0, <4>1 DEF ChoicesKnown, Trying, Choice
    <3> QED
      BY <3>1, <3>2
  <2>8. CASE SettleSuccess(h) \/ FailsEarly(h) \/ Crash(h)
    BY <2>e, <2>8 DEF SettleSuccess, Settle, FailsEarly, Crash
  <2> QED
    BY <1>2, <2>1, <2>2, <2>3, <2>4, <2>5, <2>6, <2>7, <2>8 DEF RequestActs, HandlerStep
<1>3. ASSUME NEW h \in Handlers, RequestActs(h) PROVE SentIsRecorded'
  <2>1. CASE sent' = sent
    BY <1>s, <2>1
  <2>2. CASE Deliver(h)
    <3>0. reply[h] \in Replies /\ pc[h] = "deliver" /\ target[h] \in Target
      BY <2>2 DEF Deliver, TypeInv, RequestKnown
    <3>e. PICK d, p, x : d = reply[h] /\ p = post[h] /\ x = target[h]
      OBVIOUS
    <3>1. Choice(d, p, x) \in chosen' /\ Recorded(d, x)'
      <4>1. Choice(d, p, x) \in chosen /\ Recorded(d, x)
        BY <3>0, <3>e DEF RecordInv, ChoicesKnown, Trying
      <4> QED
        BY <1>c, <1>k, <4>1
    <3>2. ASSUME NEW e \in Replies, NEW t \in Types, sent'[e][t] > 0
          PROVE  \E c \in chosen' : c.reply = e /\ c.target.type = t /\ Recorded(e, c.target)'
      <4>1. CASE reply[h] = e /\ target[h].type = t
        BY <3>e, <3>1, <4>1 DEF Choice
      <4>2. CASE ~(reply[h] = e /\ target[h].type = t)
        <5>1. sent'[e][t] = sent[e][t]
          BY <1>0, <2>2, <4>2 DEF Deliver, LogTypes
        <5> QED
          BY <1>c, <1>l, <3>2, <5>1 DEF RecordInv, SentIsRecorded
      <4> QED
        BY <4>1, <4>2
    <3> QED
      BY <3>2 DEF SentIsRecorded
  <2> QED
    BY <1>3, <2>1, <2>2, RequestsKeep
<1>4. ASSUME NEW h \in Handlers, RequestActs(h) PROVE RecordInv'
  <2>1. ASSUME NEW g \in Handlers, g # h PROVE ChoicesKnown(g)'
    BY <1>4, <1>u, <2>1, OthersKeep
  <2> QED
    BY <1>2, <1>3, <1>4, <2>1 DEF RecordInv
<1> QED
  BY <1>1, <1>4, NextParts

(***************************************************************************)
(* No delivery is reported that was not made: a row that says so belongs   *)
(* to a message that is out, and so does a result still to be stored.      *)
(***************************************************************************)
Delivered(e, t) == {l \in log : l.reply = e /\ l.target.type = t /\ l.status = "DELIVERED"}
Storing(e, t) ==
  {h \in Handlers : /\ reply[h] = e /\ pc[h] = "store"
                    /\ target[h].type = t /\ answer[h] = "DELIVERED"}
TruthInv ==
  /\ IsFiniteSet(log)
  /\ \A e \in Replies, t \in Types :
       Cardinality(Delivered(e, t)) + Cardinality(Storing(e, t)) <= sent[e][t]

LEMMA TruthInit == Init => TruthInv
<1> SUFFICES ASSUME Init PROVE TruthInv
  OBVIOUS
<1>1. IsFiniteSet(log)
  BY FS_EmptySet DEF Init
<1>2. ASSUME NEW e \in Replies, NEW t \in Types
      PROVE  Cardinality(Delivered(e, t)) + Cardinality(Storing(e, t)) <= sent[e][t]
  <2>1. Delivered(e, t) = {} /\ Storing(e, t) = {}
    BY DEF Init, Delivered, Storing
  <2> QED
    BY <2>1, FS_EmptySet DEF Init
<1> QED
  BY <1>1, <1>2 DEF TruthInv

LEMMA StoringFinite ==
  /\ \A e, t : IsFiniteSet(Storing(e, t)) /\ Cardinality(Storing(e, t)) \in Nat
  /\ \A e, t : IsFiniteSet(Storing(e, t)') /\ Cardinality(Storing(e, t))' \in Nat
<1>1. \A e, t : Storing(e, t) \in SUBSET Handlers /\ Storing(e, t)' \in SUBSET Handlers
  BY DEF Storing
<1>2. \A S \in SUBSET Handlers : IsFiniteSet(S) /\ Cardinality(S) \in Nat
  BY ReplyAssumption, FS_Subset, FS_CardinalityType
<1> QED
  BY <1>1, <1>2

LEMMA LogFinite == ASSUME TypeInv, [Next]_vars, IsFiniteSet(log) PROVE IsFiniteSet(log')
<1>1. \A r, x : IsFiniteSet(log \union {r}) /\ IsFiniteSet((log \ {x}) \union {r})
  BY FS_AddElement, FS_RemoveElement
<1>2. \A ts \in SUBSET Types : Delete(ts) => log' \subseteq log
  BY DEF Delete
<1>3. \A S \in SUBSET log : IsFiniteSet(S)
  BY FS_Subset
<1> QED
  BY <1>1, <1>2, <1>3, LogSteps

\* A set that gains at most one element.
LEMMA OneMore ==
  ASSUME NEW S, IsFiniteSet(S), NEW x, NEW T, T \subseteq S \union {x}
  PROVE  /\ IsFiniteSet(T) /\ Cardinality(T) \in Nat
         /\ Cardinality(T) <= Cardinality(S) + 1
<1>1. /\ IsFiniteSet(S \union {x})
      /\ Cardinality(S \union {x}) = IF x \in S THEN Cardinality(S) ELSE Cardinality(S) + 1
  BY FS_AddElement, Zenon
<1>2. IsFiniteSet(T) /\ Cardinality(T) <= Cardinality(S \union {x})
  BY <1>1, FS_Subset
<1>3. Cardinality(S) \in Nat /\ Cardinality(T) \in Nat /\ Cardinality(S \union {x}) \in Nat
  BY <1>1, <1>2, FS_CardinalityType
<1> QED
  BY <1>1, <1>2, <1>3

LEMMA OneLess ==
  ASSUME NEW S, IsFiniteSet(S), NEW x \in S, NEW T, T \subseteq S \ {x}
  PROVE  /\ IsFiniteSet(T) /\ Cardinality(T) \in Nat
         /\ Cardinality(T) <= Cardinality(S) - 1
<1>1. IsFiniteSet(S \ {x}) /\ Cardinality(S \ {x}) = Cardinality(S) - 1
  BY FS_RemoveElement
<1>2. IsFiniteSet(T) /\ Cardinality(T) <= Cardinality(S \ {x})
  BY <1>1, FS_Subset
<1>3. Cardinality(S) \in Nat /\ Cardinality(T) \in Nat
  BY <1>2, FS_CardinalityType
<1> QED
  BY <1>1, <1>2, <1>3

LEMMA TruthNext ==
  TypeInv /\ TypeInv' /\ PlanInv /\ TruthInv /\ [Next]_vars => TruthInv'
<1> SUFFICES ASSUME TypeInv, TypeInv', PlanInv, TruthInv, [Next]_vars PROVE TruthInv'
  OBVIOUS
<1>0. RequestTypes /\ LogTypes /\ LogTypes'
  BY TypeParts DEF TypeInv
<1>l. IsFiniteSet(log')
  BY LogFinite DEF TruthInv
<1> SUFFICES ASSUME NEW e \in Replies, NEW t \in Types
             PROVE  Cardinality(Delivered(e, t)') + Cardinality(Storing(e, t)') <= sent'[e][t]
  BY <1>l DEF TruthInv
<1> DEFINE D == Delivered(e, t)
           S == Storing(e, t)
           Goal == Cardinality(D') + Cardinality(S') <= sent'[e][t]
<1>n. /\ sent[e][t] \in Nat /\ sent'[e][t] \in Nat
      /\ Cardinality(D) + Cardinality(S) <= sent[e][t]
  BY <1>0 DEF LogTypes, TruthInv
<1>f. /\ IsFiniteSet(D) /\ IsFiniteSet(S) /\ Cardinality(D) \in Nat /\ Cardinality(S) \in Nat
      /\ Cardinality(D') \in Nat /\ Cardinality(S') \in Nat
  <2>1. D \subseteq log /\ D' \subseteq log'
    BY DEF Delivered
  <2>2. IsFiniteSet(D) /\ IsFiniteSet(D')
    BY <1>l, <2>1, FS_Subset DEF TruthInv
  <2> QED
    BY <2>2, FS_CardinalityType, StoringFinite
<1>h. D' = Delivered(e, t)' /\ S' = Storing(e, t)'
  OBVIOUS
<1> HIDE DEF D, S
\* The ways a step may go.
<1>a. ASSUME D' \subseteq D, S' \subseteq S, sent'[e][t] >= sent[e][t] PROVE Goal
  <2>1. Cardinality(D') <= Cardinality(D) /\ Cardinality(S') <= Cardinality(S)
    BY <1>a, <1>f, FS_Subset
  <2> QED
    BY <1>a, <1>n, <1>f, <2>1
<1>b. ASSUME NEW h, D' \subseteq D, S' \subseteq S \union {h}, sent'[e][t] = sent[e][t] + 1
      PROVE  Goal
  <2>1. Cardinality(D') <= Cardinality(D) /\ Cardinality(S') <= Cardinality(S) + 1
    BY <1>b, <1>f, FS_Subset, OneMore
  <2> QED
    BY <1>b, <1>n, <1>f, <2>1
<1>c. ASSUME NEW h \in S, NEW l, D' \subseteq D \union {l}, S' \subseteq S \ {h},
             sent'[e][t] = sent[e][t]
      PROVE  Goal
  <2>1. Cardinality(D') <= Cardinality(D) + 1 /\ Cardinality(S') <= Cardinality(S) - 1
    BY <1>c, <1>f, OneMore, OneLess
  <2> QED
    BY <1>c, <1>n, <1>f, <2>1
<1>1. ASSUME Surroundings \/ UNCHANGED vars PROVE Goal
  <2>1. S' = S /\ sent' = sent
    BY <1>1, <1>h, SurroundingsKeep DEF Storing, S
  <2>2. log' \subseteq log
    BY <1>1 DEF Surroundings, vars, BrokerTimeout, Age, SaveOverride, Delete, HealthChanges,
      Startup, others
  <2>3. D' \subseteq D
    BY <1>h, <2>2 DEF Delivered, D
  <2> QED
    BY <1>a, <1>n, <2>1, <2>3
<1>2. ASSUME NEW h \in Handlers, RequestActs(h) PROVE Goal
  <2>p. PlanKept(h)
    BY DEF PlanInv
  <2>o. S' \subseteq S \union {h}
    BY <1>2, <1>h, OthersKeep DEF Storing, S
  <2>h. h \in S' <=> /\ reply'[h] = e /\ pc'[h] = "store"
                     /\ target'[h].type = t /\ answer'[h] = "DELIVERED"
    BY <1>h DEF Storing
  <2>1. CASE Deliver(h)
    <3>0. /\ pc[h] = "deliver" /\ reply[h] \in Replies /\ target[h] \in Target
          /\ target[h].type \in Types /\ target[h].type \in Handled
          /\ pc'[h] = "store" /\ reply' = reply /\ target' = target /\ log' = log
      BY <1>0, <2>1 DEF Deliver, Goto, RequestTypes, TypeInv, RequestKnown, Target
    <3>d. D' = D
      BY <1>h, <3>0 DEF Delivered, D
    <3>1. PICK result \in Results(target[h].type, reply[h]) :
            /\ sent' = IF result \in Out
                       THEN [sent EXCEPT ![reply[h]][target[h].type] = @ + 1] ELSE sent
            /\ answer' = [answer EXCEPT ![h] = StatusOf(result)]
      BY <2>1 DEF Deliver
    <3>2. result # "skipped"
      <4>1. Fits(reply[h], target[h].type)
        BY <2>p, <3>0 DEF PlanKept, Trying
      <4>2. target[h].type # "ZAMMAD" => result \in {"delivered", "failed", "unclear"}
        BY <3>0, <3>1 DEF Results, Handled, SlackDeliver, EmailDeliver, WebhookDeliver,
          TestDeliver
      <4>3. target[h].type = "ZAMMAD" => result \in ZammadDeliver(reply[h])
        BY <3>1 DEF Results
      <4> QED
        BY <4>1, <4>2, <4>3 DEF ZammadDeliver, Fits, TicketTypes
    <3>3. answer'[h] = "DELIVERED" => result = "delivered"
      BY <1>0, <3>1, <3>2 DEF StatusOf, RequestTypes
    <3>4. CASE reply[h] = e /\ target[h].type = t /\ result \in Out
      <4>1. sent'[e][t] = sent[e][t] + 1
        BY <1>0, <3>1, <3>4 DEF LogTypes
      <4> QED
        BY <1>b, <2>o, <3>d, <4>1
    <3>5. CASE ~(reply[h] = e /\ target[h].type = t /\ result \in Out)
      <4>1. sent'[e][t] = sent[e][t]
        BY <1>0, <3>1, <3>5 DEF LogTypes
      <4>2. h \notin S'
        BY <2>h, <3>0, <3>3, <3>5 DEF Out
      <4> QED
        BY <1>a, <1>n, <2>o, <3>d, <4>1, <4>2
    <3> QED
      BY <3>4, <3>5
  <2>2. CASE ~Deliver(h)
    <3>0. sent' = sent
      BY <1>2, <2>2, RequestsKeep
    <3>1. CASE Store(h) /\ ~End(h)
      <4>0. /\ pc[h] = "store" /\ pc'[h] = "dispatch" /\ reply[h] \in Replies
            /\ log' = (log \ {Row(h, target[h], "PENDING")})
                         \union {Row(h, target[h], answer[h])}
        BY <1>0, <3>1 DEF Store, Abort, Goto, RequestTypes, TypeInv, RequestKnown
      <4>1. h \notin S'
        BY <2>h, <4>0
      <4>2. CASE h \in S
        <5>1. D' \subseteq D \union {Row(h, target[h], answer[h])}
          BY <1>h, <4>0 DEF Delivered, D
        <5> QED
          BY <1>c, <2>o, <3>0, <4>1, <4>2, <5>1
      <4>3. CASE h \notin S
        <5>1. ~(reply[h] = e /\ target[h].type = t /\ answer[h] = "DELIVERED")
          BY <4>0, <4>3 DEF Storing, S
        <5>2. D' \subseteq D
          BY <1>h, <4>0, <5>1 DEF Delivered, D, Row
        <5> QED
          BY <1>a, <1>n, <2>o, <3>0, <4>1, <5>2
      <4> QED
        BY <4>2, <4>3
    <3>2. CASE ~(Store(h) /\ ~End(h))
      <4>1. pc'[h] # "store"
        <5>e. End(h) => pc'[h] = "idle"
          BY <1>0 DEF End, Goto, RequestTypes
        <5>1. CASE \E d \in Replies : Post(d, h) \/ PostDirect(d, h)
          BY <1>0, <5>1 DEF Post, PostDirect, Start, Goto, RequestTypes
        <5>2. CASE SelectClaim(h) \/ InsertClaim(h) \/ Check(h)
          BY <1>0, <5>2, <5>e DEF SelectClaim, InsertClaim, Check, Take, Refuse, Settle, Goto,
            RequestTypes
        <5>3. CASE SelectOverrides(h) \/ CheckHealth(h) \/ Refresh(h) \/ ChooseTargets(h)
          BY <1>0, <5>3 DEF SelectOverrides, CheckHealth, Refresh, ChooseTargets, Goto,
            RequestTypes
        <5>4. CASE Dispatch(h)
          BY <1>0, <5>4, <5>e DEF Dispatch, Abort, Goto, RequestTypes
        <5>5. CASE SettleSuccess(h) \/ FailsEarly(h) \/ Crash(h) \/ End(h)
          BY <5>5, <5>e DEF SettleSuccess, Settle, FailsEarly, Crash
        <5> QED
          BY <1>2, <2>2, <3>2, <5>1, <5>2, <5>3, <5>4, <5>5 DEF RequestActs, HandlerStep
      <4>2. S' \subseteq S
        BY <2>h, <2>o, <4>1
      <4>3. \/ log' = log
            \/ \E c : log' = log \union {RowOf(h, c)}
        <5>1. CASE Dispatch(h)
          BY <5>1 DEF Dispatch
        <5>2. CASE Store(h)
          <6>1. pc'[h] = "idle"
            BY <1>0, <3>2, <5>2 DEF End, Goto, RequestTypes
          <6> QED
            BY <1>0, <5>2, <6>1 DEF Store, Goto, RequestTypes
        <5>3. CASE ~Dispatch(h) /\ ~Store(h)
          BY <1>2, <5>3 DEF RequestActs, HandlerStep, Post, PostDirect, Start, SelectClaim,
            InsertClaim, Check, SelectOverrides, CheckHealth, Refresh, ChooseTargets, Deliver,
            SettleSuccess, FailsEarly, Crash
        <5> QED
          BY <5>1, <5>2, <5>3
      <4>4. \A c : RowOf(h, c).status # "DELIVERED"
        BY DEF RowOf, Row
      <4>5. D' \subseteq D
        BY <1>h, <4>3, <4>4 DEF Delivered, D
      <4> QED
        BY <1>a, <1>n, <3>0, <4>2, <4>5
    <3> QED
      BY <3>1, <3>2
  <2> QED
    BY <2>1, <2>2
<1> QED
  BY <1>1, <1>2, NextParts DEF D, S

(***************************************************************************)
(* An event nothing has disturbed is posted once, to one request, which    *)
(* has every channel chosen for it still before it, under way or tried.    *)
(***************************************************************************)
Undisturbed(e) ==
  /\ outcome[e] # "timeout"
  /\ outcome[e] = "new" =>
       /\ claim[e] # "success"
       /\ \A h \in Handlers : reply[h] # e
       /\ \A c \in chosen : c.reply # e
  /\ \A h \in Handlers : reply[h] = e =>
       /\ waiting[e] = h /\ claim[e] # "success"
       /\ \A c \in chosen : c.reply = e =>
            /\ pc[h] \in {"dispatch", "settle"} \union Trying
            /\ \/ c.target \in todo[h]
               \/ pc[h] \in Trying /\ c.target = target[h]
               \/ Tried(e, c.target)
  /\ claim[e] = "success" => \A c \in chosen : c.reply = e => Tried(e, c.target)
SuccessInv ==
  /\ \A e \in Replies : kind[e] = "direct" => claim[e] # "success"
  /\ \A e \in Replies \ cut : kind[e] # "direct" => Undisturbed(e)

LEMMA SuccessInit == Init => SuccessInv
BY ReplyAssumption DEF Init, SuccessInv, Undisturbed

\* An event's claim, outcome and request change by steps for this event only.
LEMMA OtherEvents ==
  ASSUME TypeInv, NEW h \in Handlers, RequestActs(h), NEW e \in Replies, reply[h] # e,
         \A d \in Replies : Post(d, h) => d # e
  PROVE  /\ claim'[e] = claim[e]
         /\ reply'[h] # e \/ PostDirect(e, h)
         /\ \/ outcome'[e] = outcome[e] /\ waiting'[e] = waiting[e]
            \/ waiting[e] = h /\ outcome'[e] = "done" /\ waiting'[e] = NoHandler
         /\ \A c \in chosen' : c.reply = e => c \in chosen
<1>0. RequestTypes /\ BrokerTypes
  BY TypeParts DEF TypeInv
<1> DEFINE O == \/ outcome'[e] = outcome[e] /\ waiting'[e] = waiting[e]
                \/ waiting[e] = h /\ outcome'[e] = "done" /\ waiting'[e] = NoHandler
           R == reply'[h] # e \/ PostDirect(e, h)
<1>e. End(h) => O /\ R
  BY <1>0, ReplyAssumption DEF End, RequestTypes, BrokerTypes
<1>c. \A c \in chosen' : c.reply = e => c \in chosen
  BY ChosenGrows
<1>1. CASE \E d \in Replies : Post(d, h) \/ PostDirect(d, h)
  <2>1. O
    BY <1>0, <1>1 DEF Post, PostDirect, Start, BrokerTypes
  <2>2. R
    BY <1>0, <1>1 DEF Post, PostDirect, Start, RequestTypes
  <2>3. claim' = claim
    BY <1>1 DEF Post, PostDirect, Start
  <2> QED
    BY <1>c, <2>1, <2>2, <2>3
<1>2. CASE SelectClaim(h) \/ InsertClaim(h) \/ Check(h)
  <2>1. claim'[e] = claim[e]
    BY <1>0, <1>2 DEF SelectClaim, InsertClaim, Check, Take, Refuse, Settle, BrokerTypes
  <2>2. O /\ R
    BY <1>2, <1>e DEF SelectClaim, InsertClaim, Check, Take, Refuse, Settle
  <2> QED
    BY <1>c, <2>1, <2>2
<1>3. CASE SelectOverrides(h) \/ CheckHealth(h) \/ Refresh(h) \/ ChooseTargets(h) \/ Deliver(h)
  BY <1>c, <1>3 DEF SelectOverrides, CheckHealth, Refresh, ChooseTargets, Deliver
<1>4. CASE Dispatch(h) \/ Store(h)
  <2>1. claim'[e] = claim[e]
    BY <1>4 DEF Dispatch, Store, Abort
  <2>2. O /\ R
    BY <1>4, <1>e DEF Dispatch, Store, Abort
  <2> QED
    BY <1>c, <2>1, <2>2
<1>5. CASE SettleSuccess(h) \/ FailsEarly(h) \/ Crash(h)
  <2>1. claim'[e] = claim[e]
    BY <1>0, <1>5 DEF SettleSuccess, Settle, FailsEarly, Crash, BrokerTypes
  <2>2. O /\ R
    BY <1>5, <1>e DEF SettleSuccess, Settle, FailsEarly, Crash
  <2> QED
    BY <1>c, <2>1, <2>2
<1> QED
  BY <1>1, <1>2, <1>3, <1>4, <1>5 DEF RequestActs, HandlerStep

LEMMA CutGrows == ASSUME TypeInv, [Next]_vars PROVE cut \subseteq cut'
<1>1. Surroundings \/ UNCHANGED vars => cut \subseteq cut'
  BY DEF Surroundings, vars, BrokerTimeout, Age, Fault, SaveOverride, Delete, HealthChanges,
    Startup, others
<1>2. ASSUME NEW h \in Handlers, RequestActs(h) PROVE cut \subseteq cut'
  <2>1. CASE \E e \in Replies : Post(e, h) \/ PostDirect(e, h)
    BY <2>1 DEF Post, PostDirect, Start
  <2>2. CASE SelectClaim(h) \/ InsertClaim(h) \/ Check(h)
    BY <2>2 DEF SelectClaim, InsertClaim, Check, Settle, Fault
  <2>3. CASE SelectOverrides(h) \/ CheckHealth(h) \/ Refresh(h) \/ ChooseTargets(h) \/ Deliver(h)
    BY <2>3 DEF SelectOverrides, CheckHealth, Refresh, ChooseTargets, Deliver
  <2>4. CASE Dispatch(h) \/ Store(h)
    BY <2>4 DEF Dispatch, Store, Abort, Fault
  <2>5. CASE SettleSuccess(h) \/ FailsEarly(h) \/ Crash(h)
    BY <2>5 DEF SettleSuccess, Settle, FailsEarly, Crash, Fault
  <2> QED
    BY <1>2, <2>1, <2>2, <2>3, <2>4, <2>5 DEF RequestActs, HandlerStep
<1> QED
  BY <1>1, <1>2, NextParts

\* The claim of a direct delivery is never settled.
LEMMA DirectNext ==
  ASSUME TypeInv, [Next]_vars, NEW e \in Replies, kind[e] = "direct", claim[e] # "success"
  PROVE  claim'[e] # "success"
<1>0. BrokerTypes
  BY TypeParts DEF TypeInv
<1>1. ASSUME Surroundings \/ UNCHANGED vars PROVE claim'[e] # "success"
  <2>1. \/ claim' = claim
        \/ \E d \in Replies : claim' = [claim EXCEPT ![d] = "stale"]
    BY <1>1 DEF Surroundings, vars, BrokerTimeout, Age, SaveOverride, Delete, HealthChanges,
      Startup, others
  <2> QED
    BY <1>0, <2>1 DEF BrokerTypes
<1>2. ASSUME NEW h \in Handlers, RequestActs(h) PROVE claim'[e] # "success"
  <2>1. CASE \E d \in Replies : Post(d, h) \/ PostDirect(d, h)
    BY <2>1 DEF Post, PostDirect, Start
  <2>2. CASE SelectClaim(h) \/ InsertClaim(h) \/ Check(h)
    BY <1>0, <2>2 DEF SelectClaim, InsertClaim, Check, Take, Refuse, Settle, BrokerTypes
  <2>3. CASE SelectOverrides(h) \/ CheckHealth(h) \/ Refresh(h) \/ ChooseTargets(h) \/ Deliver(h)
    BY <2>3 DEF SelectOverrides, CheckHealth, Refresh, ChooseTargets, Deliver
  <2>4. CASE Dispatch(h) \/ Store(h)
    BY <2>4 DEF Dispatch, Store, Abort
  <2>5. CASE SettleSuccess(h) \/ FailsEarly(h) \/ Crash(h)
    BY <1>0, <2>5 DEF SettleSuccess, Settle, FailsEarly, Crash, BrokerTypes
  <2> QED
    BY <1>2, <2>1, <2>2, <2>3, <2>4, <2>5 DEF RequestActs, HandlerStep
<1> QED
  BY <1>1, <1>2, NextParts

\* A request that ends without a success leaves the event undisturbed or cut.
LEMMA EndUndisturbed ==
  ASSUME TypeInv, NEW h \in Handlers, NEW e \in Replies, reply[h] = e, Undisturbed(e), End(h),
         RequestActs(h),
         \/ claim'[e] # "success"
         \/ \A c \in chosen : c.reply = e => Tried(e, c.target)',
         chosen' = chosen
  PROVE  Undisturbed(e)'
<1>0. RequestTypes /\ BrokerTypes
  BY TypeParts DEF TypeInv
<1>1. waiting[e] = h
  BY DEF Undisturbed
<1>2. outcome'[e] = "done"
  BY <1>0, <1>1 DEF End, BrokerTypes
<1>3. reply'[h] = NoReply
  BY <1>0 DEF End, RequestTypes
<1>4. \A g \in Handlers : reply'[g] # e
  <2>1. ASSUME NEW g \in Handlers, g # h PROVE reply'[g] # e
    BY <1>1, <2>1, OthersKeep DEF Undisturbed
  <2> QED
    BY <1>3, <2>1, ReplyAssumption
<1> QED
  BY <1>2, <1>4 DEF Undisturbed

LEMMA SuccessNext ==
  TypeInv /\ PlanInv /\ IdsInv /\ SuccessInv /\ [Next]_vars => SuccessInv'
<1> SUFFICES ASSUME TypeInv, PlanInv, IdsInv, SuccessInv, [Next]_vars PROVE SuccessInv'
  OBVIOUS
<1>0. RequestTypes /\ BrokerTypes /\ LogTypes /\ kind' = kind /\ cut \subseteq cut'
  BY TypeParts, FixedKept, CutGrows DEF TypeInv
<1>d. \A e \in Replies : kind'[e] = "direct" => claim'[e] # "success"
  BY <1>0, DirectNext DEF SuccessInv
<1> SUFFICES ASSUME NEW e \in Replies, e \notin cut', kind[e] # "direct"
             PROVE  Undisturbed(e)'
  BY <1>0, <1>d DEF SuccessInv
<1>u. e \notin cut /\ Undisturbed(e)
  BY <1>0 DEF SuccessInv
<1>t. \A c \in chosen : c.reply = e /\ Tried(e, c.target) => Tried(e, c.target)'
  BY TriedStaysTried
<1>1. ASSUME Surroundings \/ UNCHANGED vars PROVE Undisturbed(e)'
  <2>1. UNCHANGED <<pc, reply, todo, target, chosen>>
    BY <1>1, SurroundingsKeep
  <2>2. /\ outcome'[e] = outcome[e] /\ waiting'[e] = waiting[e]
        /\ claim'[e] = claim[e] \/ claim'[e] = "stale"
    BY <1>0, <1>1 DEF Surroundings, vars, BrokerTimeout, Age, Fault, SaveOverride, Delete,
      HealthChanges, Startup, others, BrokerTypes
  <2> QED
    BY <1>t, <1>u, <2>1, <2>2 DEF Undisturbed
<1>2. ASSUME NEW h \in Handlers, RequestActs(h), reply[h] # e,
             \A d \in Replies : Post(d, h) => d # e
      PROVE  Undisturbed(e)'
  <2>1. /\ claim'[e] = claim[e] /\ reply'[h] # e
        /\ \/ outcome'[e] = outcome[e] /\ waiting'[e] = waiting[e]
           \/ waiting[e] = h /\ outcome'[e] = "done" /\ waiting'[e] = NoHandler
        /\ \A c \in chosen' : c.reply = e => c \in chosen
    BY <1>2, OtherEvents DEF PostDirect
  <2>2. \A g \in Handlers : reply'[g] = e => g # h /\ reply[g] = e
    BY <1>2, <2>1, OthersKeep
  <2>3. \A g \in Handlers : reply'[g] = e =>
          /\ waiting'[e] = g /\ claim'[e] # "success"
          /\ \A c \in chosen' : c.reply = e =>
               /\ pc'[g] \in {"dispatch", "settle"} \union Trying
               /\ \/ c.target \in todo'[g]
                  \/ pc'[g] \in Trying /\ c.target = target'[g]
                  \/ Tried(e, c.target)'
    <3>1. ASSUME NEW g \in Handlers, reply'[g] = e
          PROVE  /\ waiting'[e] = g /\ claim'[e] # "success"
                 /\ \A c \in chosen' : c.reply = e =>
                      /\ pc'[g] \in {"dispatch", "settle"} \union Trying
                      /\ \/ c.target \in todo'[g]
                         \/ pc'[g] \in Trying /\ c.target = target'[g]
                         \/ Tried(e, c.target)'
      <4>1. g # h /\ reply[g] = e
        BY <2>2, <3>1
      <4>2. pc'[g] = pc[g] /\ todo'[g] = todo[g] /\ target'[g] = target[g]
        BY <1>2, <4>1, OthersKeep
      <4>3. /\ waiting[e] = g /\ claim[e] # "success"
            /\ \A c \in chosen : c.reply = e =>
                 /\ pc[g] \in {"dispatch", "settle"} \union Trying
                 /\ \/ c.target \in todo[g]
                    \/ pc[g] \in Trying /\ c.target = target[g]
                    \/ Tried(e, c.target)
        BY <1>u, <4>1 DEF Undisturbed
      <4> QED
        BY <1>t, <2>1, <4>1, <4>2, <4>3
    <3> QED
      BY <3>1
  <2>4. outcome'[e] # "timeout" /\ (outcome'[e] = "new" => outcome[e] = "new")
    BY <1>u, <2>1 DEF Undisturbed
  <2>5. outcome'[e] = "new" =>
          /\ claim'[e] # "success"
          /\ \A g \in Handlers : reply'[g] # e
          /\ \A c \in chosen' : c.reply # e
    BY <1>u, <2>1, <2>2, <2>4 DEF Undisturbed
  <2>6. claim'[e] = "success" => \A c \in chosen' : c.reply = e => Tried(e, c.target)'
    BY <1>t, <1>u, <2>1 DEF Undisturbed
  <2> QED
    BY <2>3, <2>4, <2>5, <2>6 DEF Undisturbed
<1>3. ASSUME NEW h \in Handlers, Post(e, h) PROVE Undisturbed(e)'
  <2>1. /\ outcome[e] = "new" /\ outcome'[e] = "posted" /\ waiting'[e] = h
        /\ chosen' = chosen /\ claim' = claim
    BY <1>0, <1>3, <1>u DEF Post, Start, BrokerTypes, Undisturbed
  <2>2. \A g \in Handlers : reply'[g] = e => g = h
    BY <1>0, <1>3, <1>u, <2>1 DEF Post, Start, RequestTypes, Undisturbed
  <2> QED
    BY <1>u, <2>1, <2>2 DEF Undisturbed
<1>4. ASSUME NEW h \in Handlers, RequestActs(h), reply[h] = e PROVE Undisturbed(e)'
  <2>p. PlanKept(h)
    BY DEF PlanInv
  <2>i. pc[h] # "idle"
    BY <1>4, ReplyAssumption DEF TypeInv, RequestKnown
  <2>u. /\ waiting[e] = h /\ claim[e] # "success" /\ outcome[e] # "new" /\ outcome[e] # "timeout"
        /\ \A g \in Handlers : reply[g] = e => g = h
        /\ \A c \in chosen : c.reply = e =>
             /\ pc[h] \in {"dispatch", "settle"} \union Trying
             /\ \/ c.target \in todo[h]
                \/ pc[h] \in Trying /\ c.target = target[h]
                \/ Tried(e, c.target)
    BY <1>4, <1>u DEF Undisturbed
  <2>e. ASSUME End(h), chosen' = chosen, claim'[e] # "success"
        PROVE  Undisturbed(e)'
    BY <1>4, <1>u, <2>e, EndUndisturbed
  \* A step after which the request goes on.
  <2>g. ASSUME reply'[h] = reply[h], outcome'[e] = outcome[e], waiting'[e] = waiting[e],
               claim'[e] # "success",
               \A c \in chosen' : c.reply = e =>
                 /\ pc'[h] \in {"dispatch", "settle"} \union Trying
                 /\ \/ c.target \in todo'[h]
                    \/ pc'[h] \in Trying /\ c.target = target'[h]
                    \/ Tried(e, c.target)'
        PROVE  Undisturbed(e)'
    <3>1. \A g \in Handlers : reply'[g] = e => g = h
      BY <1>4, <2>u, OthersKeep
    <3> QED
      BY <2>u, <2>g, <3>1 DEF Undisturbed
  <2>1. CASE \E d \in Replies : Post(d, h) \/ PostDirect(d, h)
    BY <2>1, <2>i DEF Post, PostDirect, Start
  <2>2. CASE SelectClaim(h) \/ InsertClaim(h) \/ Check(h)
    <3>1. chosen' = chosen /\ \A c \in chosen : c.reply # e
      BY <2>2, <2>u DEF SelectClaim, InsertClaim, Check, Trying
    <3>2. claim'[e] # "success"
      BY <1>0, <1>4, <2>2, <2>u DEF SelectClaim, InsertClaim, Check, Take, Refuse, Settle,
        BrokerTypes
    <3>3. CASE End(h)
      BY <2>e, <3>1, <3>2, <3>3
    <3>4. CASE ~End(h)
      <4>1. reply'[h] = reply[h] /\ outcome' = outcome /\ waiting' = waiting
        BY <2>2, <3>4 DEF SelectClaim, InsertClaim, Check, Take, Refuse, Settle
      <4> QED
        BY <2>g, <3>1, <3>2, <4>1
    <3> QED
      BY <3>3, <3>4
  <2>3. CASE SelectOverrides(h) \/ CheckHealth(h) \/ Refresh(h)
    <3>1. /\ chosen' = chosen /\ claim' = claim /\ reply' = reply
          /\ outcome' = outcome /\ waiting' = waiting /\ \A c \in chosen : c.reply # e
      BY <2>3, <2>u DEF SelectOverrides, CheckHealth, Refresh, Trying
    <3> QED
      BY <2>g, <2>u, <3>1
  <2>4. CASE ChooseTargets(h)
    <3>1. PICK found \in SUBSET Unsure :
            /\ todo' = [todo EXCEPT ![h] = Targets(h, found)]
            /\ chosen' = chosen \union
                 {[reply |-> reply[h], post |-> post[h], target |-> c] : c \in Targets(h, found)}
      BY <2>4 DEF ChooseTargets
    <3>2. /\ claim' = claim /\ reply' = reply /\ outcome' = outcome /\ waiting' = waiting
          /\ pc'[h] = "dispatch" /\ todo'[h] = Targets(h, found)
          /\ \A c \in chosen : c.reply # e
      BY <1>0, <2>4, <2>u, <3>1 DEF ChooseTargets, Goto, RequestTypes, Trying
    <3>3. \A c \in chosen' : c.reply = e => c.target \in todo'[h]
      BY <3>1, <3>2
    <3> QED
      BY <2>g, <2>u, <3>2, <3>3
  <2>5. CASE Dispatch(h)
    <3>1. chosen' = chosen /\ claim' = claim /\ pc[h] = "dispatch"
      BY <2>5 DEF Dispatch, Abort
    <3>2. CASE End(h)
      BY <2>e, <2>u, <3>1, <3>2
    <3>3. CASE ~End(h)
      <4>1. reply' = reply /\ outcome' = outcome /\ waiting' = waiting
        BY <2>5, <3>3 DEF Dispatch, Abort
      <4>2. CASE todo[h] = {} /\ pc'[h] = "settle" /\ UNCHANGED local
        BY <1>t, <2>g, <2>u, <3>1, <4>1, <4>2 DEF Trying
      <4>3. ASSUME NEW x \in todo[h], log' = log \union {RowOf(h, x)},
                   todo' = [todo EXCEPT ![h] = @ \ {x}],
                   IF x.type \in Handled
                   THEN Goto(h, "deliver") /\ target' = [target EXCEPT ![h] = x]
                   ELSE UNCHANGED <<pc, target>>
            PROVE  Undisturbed(e)'
        <5>0. todo'[h] = todo[h] \ {x}
          BY <1>0, <4>3 DEF RequestTypes
        <5>1. /\ pc'[h] \in {"dispatch", "deliver"}
              /\ x.type \in Handled => pc'[h] = "deliver" /\ target'[h] = x
          BY <1>0, <3>1, <4>3 DEF Goto, RequestTypes
        <5>2. x.type \notin Handled => Tried(e, x)'
          <6>1. x.type \notin Handled => RowOf(h, x).status = "FAILED"
            BY DEF RowOf, Row
          <6>2. RowOf(h, x).reply = e /\ RowOf(h, x).target = x /\ RowOf(h, x) \in log'
            BY <1>4, <4>3 DEF RowOf, Row
          <6> QED
            BY <6>1, <6>2 DEF Tried
        <5>3. ASSUME NEW c \in chosen, c.reply = e
              PROVE  \/ c.target \in todo'[h]
                     \/ pc'[h] \in Trying /\ c.target = target'[h]
                     \/ Tried(e, c.target)'
          BY <1>t, <2>u, <3>1, <5>0, <5>1, <5>2, <5>3 DEF Trying
        <5> QED
          BY <2>g, <2>u, <3>1, <4>1, <5>1, <5>3 DEF Trying
      <4> QED
        BY <1>0, <2>5, <3>3, <4>2, <4>3 DEF Dispatch, Abort, Goto, RequestTypes
    <3> QED
      BY <3>2, <3>3
  <2>6. CASE Deliver(h)
    <3>1. /\ chosen' = chosen /\ claim' = claim /\ reply' = reply /\ outcome' = outcome
          /\ waiting' = waiting /\ todo' = todo /\ target' = target
          /\ pc[h] = "deliver" /\ pc'[h] = "store"
      BY <1>0, <2>6 DEF Deliver, Goto, RequestTypes
    <3> QED
      BY <1>t, <2>g, <2>u, <3>1 DEF Trying
  <2>7. CASE Store(h)
    <3>1. chosen' = chosen /\ claim' = claim /\ pc[h] = "store"
      BY <2>7 DEF Store, Abort
    <3>2. CASE End(h)
      BY <2>e, <2>u, <3>1, <3>2
    <3>3. CASE ~End(h)
      <4>1. /\ reply' = reply /\ outcome' = outcome /\ waiting' = waiting
            /\ pc'[h] = "dispatch" /\ todo'[h] = todo[h]
            /\ Row(h, target[h], answer[h]) \in log'
        BY <1>0, <2>7, <3>3 DEF Store, Abort, Remaining, Goto, RequestTypes
      <4>2. \E l \in log' : l.reply = e /\ l.target = target[h] /\ l.status # "PENDING"
        <5>1. answer[h] # "PENDING"
          BY <3>1 DEF TypeInv, RequestKnown
        <5> QED
          BY <1>4, <4>1, <5>1 DEF Row
      <4>3. ASSUME NEW c \in chosen, c.reply = e
            PROVE  c.target \in todo'[h] \/ Tried(e, c.target)'
        <5>1. CASE c.target = target[h]
          BY <4>2, <5>1 DEF Tried
        <5>2. CASE c.target # target[h]
          BY <1>t, <2>u, <4>1, <4>3, <5>2
        <5> QED
          BY <5>1, <5>2
      <4> QED
        BY <2>g, <2>u, <3>1, <4>1, <4>3
    <3> QED
      BY <3>2, <3>3
  <2>8. CASE SettleSuccess(h)
    <3>1. /\ End(h) /\ chosen' = chosen /\ pc[h] = "settle"
      BY <2>8 DEF SettleSuccess, Settle
    <3>2. \A c \in chosen : c.reply = e => Tried(e, c.target)'
      BY <1>t, <2>p, <2>u, <3>1 DEF PlanKept, Trying
    <3> QED
      BY <1>4, <1>u, <3>1, <3>2, EndUndisturbed
  <2>9. CASE FailsEarly(h) \/ Crash(h)
    <3>1. e \in cut'
      BY <1>4, <2>9 DEF FailsEarly, Crash, Fault
    <3> QED
      BY <3>1
  <2> QED
    BY <1>4, <2>1, <2>2, <2>3, <2>4, <2>5, <2>6, <2>7, <2>8, <2>9 DEF RequestActs, HandlerStep
<1> QED
  BY <1>1, <1>2, <1>3, <1>4, NextParts

(***************************************************************************)
(* The theorems.                                                           *)
(***************************************************************************)
ReplyInv ==
  /\ TypeInv /\ PlanInv /\ OnceInv /\ BindingKept
  /\ IdsInv /\ RecordInv /\ TruthInv /\ SuccessInv

LEMMA ReplyInvariant == Spec => []ReplyInv
<1>1. Init => ReplyInv
  <2>1. Init => BindingKept
    BY DEF Init, BindingKept
  <2> QED
    BY <2>1, TypeInit, PlanInit, OnceInit, IdsInit, RecordInit, TruthInit, SuccessInit
       DEF ReplyInv
<1>2. ReplyInv /\ [Next]_vars => ReplyInv'
  BY TypeNext, PlanNext, OnceNext, BindingNext, IdsNext, RecordNext, TruthNext, SuccessNext
     DEF ReplyInv
<1> QED
  BY <1>1, <1>2, PTL DEF Spec

\* The variables have their types (ReplyDelivery).
THEOREM ReplyTypes == Spec => []TypeOK
<1>1. ReplyInv => TypeOK
  BY DEF ReplyInv, TypeInv
<1> QED
  BY <1>1, ReplyInvariant, PTL

\* One claim, one message on a channel at most: however many pods are handed the
\* reply, whichever of them takes a stale claim over, and whatever the user edits
\* meanwhile (handle_cloudevent, _get_user_integration_configs).
THEOREM SentOncePerClaim == Spec => []OncePerClaim
<1>1. ReplyInv => OncePerClaim
  <2> SUFFICES ASSUME ReplyInv, NEW e \in Replies, NEW t \in Types
               PROVE  sent[e][t] <= taken[e]
    BY DEF OncePerClaim
  <2>1. /\ Cardinality(Senders(e, t)) + sent[e][t] <= taken[e]
        /\ Cardinality(Senders(e, t)) \in Nat /\ sent[e][t] \in Nat /\ taken[e] \in Nat
    BY SendersFinite, TypeParts DEF ReplyInv, OnceInv, TypeInv, LogTypes, BrokerTypes
  <2> QED
    BY <2>1
<1> QED
  BY <1>1, ReplyInvariant, PTL

\* A reply into a ticket is sent to the ticket alone, any other never to it
\* (filter_configs_for_delivery_binding).
THEOREM TicketsKeptApart == Spec => []BindingKept
<1>1. ReplyInv => BindingKept
  BY DEF ReplyInv
<1> QED
  BY <1>1, ReplyInvariant, PTL

\* delivery_logs has a row of every message that is out, unless its override is
\* gone, and of none that is not (_dispatch_single, _create_delivery_log).
THEOREM LogIsTruthful == Spec => []LogMatchesSent
<1>1. ReplyInv => LogMatchesSent
  <2> SUFFICES ASSUME ReplyInv, NEW e \in Replies, NEW t \in Types
               PROVE  LET rows == {l \in log : l.reply = e /\ l.target.type = t}
                      IN /\ sent[e][t] > 0 =>
                              rows # {} \/ \E c \in chosen : /\ c.reply = e /\ c.target.type = t
                                                             /\ ~Present(c.target)
                         /\ Cardinality({l \in rows : l.status = "DELIVERED"}) <= sent[e][t]
    BY DEF LogMatchesSent
  <2> DEFINE rows == {l \in log : l.reply = e /\ l.target.type = t}
  <2>1. ASSUME sent[e][t] > 0
        PROVE  rows # {} \/ \E c \in chosen : /\ c.reply = e /\ c.target.type = t
                                              /\ ~Present(c.target)
    <3>1. PICK c \in chosen : c.reply = e /\ c.target.type = t /\ Recorded(e, c.target)
      BY <2>1 DEF ReplyInv, RecordInv, SentIsRecorded
    <3> QED
      BY <3>1 DEF Recorded
  <2>2. {l \in rows : l.status = "DELIVERED"} = Delivered(e, t)
    BY DEF Delivered
  <2>3. Cardinality(Delivered(e, t)) <= sent[e][t]
    <3>1. /\ Cardinality(Delivered(e, t)) + Cardinality(Storing(e, t)) <= sent[e][t]
          /\ IsFiniteSet(log) /\ sent[e][t] \in Nat
      BY TypeParts DEF ReplyInv, TruthInv, TypeInv, LogTypes
    <3>2. IsFiniteSet(Delivered(e, t))
      <4>1. Delivered(e, t) \in SUBSET log
        BY DEF Delivered
      <4> QED
        BY <3>1, <4>1, FS_Subset
    <3>3. Cardinality(Delivered(e, t)) \in Nat /\ Cardinality(Storing(e, t)) \in Nat
      BY <3>2, FS_CardinalityType, StoringFinite
    <3> QED
      BY <3>1, <3>3
  <2> QED
    BY <2>1, <2>2, <2>3
<1> QED
  BY <1>1, ReplyInvariant, PTL

\* "success" means that every channel chosen for the reply has been tried, as long as
\* no fault or deletion cut its handling short (dispatch, handle_cloudevent).
THEOREM SuccessIsEarned == Spec => []SuccessMeansAllTried
<1>1. ReplyInv => SuccessMeansAllTried
  <2> SUFFICES ASSUME ReplyInv, NEW c \in chosen, claim[c.reply] = "success",
                      c.reply \notin cut, Present(c.target)
               PROVE  \E l \in log : /\ l.reply = c.reply /\ l.target = c.target
                                     /\ l.status # "PENDING"
    BY DEF SuccessMeansAllTried
  <2>1. c.reply \in Replies
    BY TypeParts DEF ReplyInv, TypeInv, LogTypes
  <2>2. Tried(c.reply, c.target)
    BY <2>1 DEF ReplyInv, SuccessInv, Undisturbed
  <2> QED
    BY <2>2 DEF Tried
<1> QED
  BY <1>1, ReplyInvariant, PTL
=============================================================================
