---------------------------- MODULE Ingress_proofs ----------------------------
(***************************************************************************)
(* Proofs about Ingress, for every number of messages, pods, publishers,   *)
(* posts, retries and faults.                                              *)
(***************************************************************************)
EXTENDS Ingress, TLAPS

USE DEF inbound, claims, outbox, handlers, leaders, publishers, fixed

(***************************************************************************)
(* Type correctness.  A handler that is at work has a message, and holds   *)
(* the thread's lock only where the lock protects it.                      *)
(***************************************************************************)
\* TypeOK by who has the variables.
FixedTypes ==
  /\ channel \in Channels
  /\ kind \in [Messages -> {"request", "own", "empty"}]
  /\ \A m \in Messages : customer[m] \in Customers[m] \union {NoCustomer}
HandlerTypes ==
  /\ \A p \in Pods : lock = p => pc[p] \in Locked
  /\ lock \in Pods \union {NoPod}
  /\ pc \in [Pods -> Labels]
  /\ msg \in [Pods -> Messages \union {NoMessage}]
MessageKnown == \A p \in Pods : pc[p] # "idle" => msg[p] \in Messages
InboundTypes ==
  /\ deliveries \in [Messages -> Nat]
  /\ acked \subseteq Messages /\ dropped \subseteq Messages
  /\ harmed \subseteq Messages
  /\ cooling \subseteq Pods
  /\ claim \in [Messages -> {"none", "fresh", "stale"}]
  /\ faults \in Nat
LeaderTypes ==
  /\ \A p \in Pods : leaderLock = p => p \in leading
  /\ leading \subseteq Pods
  /\ leaderLock \in Pods \union {NoPod}
  /\ todo \in [Pods -> SUBSET Messages]
OutboxTypes ==
  /\ posted \subseteq Messages
  /\ clock \in Nat
  /\ createdAt \in [Messages -> Nat]
  /\ status \in [Messages -> Statuses]
  /\ retries \in [Messages -> Nat]
PublisherTypes ==
  /\ ppc \in [Pods -> PublisherLabels]
  /\ batch \in [Pods -> SUBSET Messages]
TypeInv == /\ FixedTypes /\ HandlerTypes /\ MessageKnown /\ InboundTypes
           /\ LeaderTypes /\ OutboxTypes /\ PublisherTypes

\* The initial states have their types.
LEMMA TypeInit == Init => TypeInv
BY IngressAssumption
DEF Init, TypeInv, FixedTypes, HandlerTypes, MessageKnown, InboundTypes, LeaderTypes,
  OutboxTypes, PublisherTypes, Statuses, Labels, Locked, PublisherLabels

\* A handler that begins, goes on or ends keeps the types.
LEMMA StartTypes ==
  ASSUME HandlerTypes, MessageKnown, UNCHANGED lock,
         NEW p \in Pods, pc[p] = "idle", NEW m \in Messages, Start(p, m)
  PROVE  HandlerTypes' /\ MessageKnown'
BY DEF HandlerTypes, MessageKnown, Start, FirstStep, Labels, Locked

LEMMA GotoTypes ==
  ASSUME HandlerTypes, MessageKnown,
         NEW p \in Pods, pc[p] # "idle", NEW label \in Labels, Goto(p, label),
         UNCHANGED lock \/ lock' = p,
         label \in Locked \/ (UNCHANGED lock /\ pc[p] \notin Locked)
  PROVE  HandlerTypes' /\ MessageKnown'
BY DEF HandlerTypes, MessageKnown, Goto

LEMMA EndTypes ==
  ASSUME HandlerTypes, MessageKnown, InboundTypes,
         NEW p \in Pods, pc[p] # "idle", NEW ack, EndHandler(p, ack)
  PROVE  HandlerTypes' /\ MessageKnown' /\ acked' \subseteq Messages
BY IngressAssumption
DEF HandlerTypes, MessageKnown, InboundTypes, EndHandler, Unlocked, Labels

\* Every step keeps the types.
LEMMA TypeNext == TypeInv /\ [Next]_vars => TypeInv'
<1> SUFFICES ASSUME TypeInv, [Next]_vars PROVE TypeInv'
  OBVIOUS
<1>0. /\ FixedTypes /\ HandlerTypes /\ MessageKnown /\ InboundTypes
      /\ LeaderTypes /\ OutboxTypes /\ PublisherTypes
  BY DEF TypeInv
<1>1. ASSUME NEW p \in Pods, NEW m \in Messages, Webhook(p, m) PROVE TypeInv'
  <2>1. FixedTypes'
    BY <1>1, <1>0 DEF Webhook, FixedTypes
  <2>2. HandlerTypes' /\ MessageKnown'
    BY <1>1, <1>0, StartTypes DEF Webhook, HandlerTypes, MessageKnown
  <2>3. InboundTypes'
    BY <1>1, <1>0 DEF Webhook, Start, FirstStep, InboundTypes
  <2>4. LeaderTypes'
    BY <1>1, <1>0, IngressAssumption DEF Webhook, Start, FirstStep, LeaderTypes
  <2>5. OutboxTypes'
    BY <1>1, <1>0, IngressAssumption DEF Webhook, Start, FirstStep, OutboxTypes,
      Statuses, HandlerTypes, MessageKnown
  <2>6. PublisherTypes'
    BY <1>1, <1>0, IngressAssumption DEF Webhook, Start, FirstStep, PublisherTypes,
      PublisherLabels
  <2> QED
    BY <2>1, <2>2, <2>3, <2>4, <2>5, <2>6 DEF TypeInv
<1>2. ASSUME NEW p \in Pods, NEW m \in Messages, Command(p, m) PROVE TypeInv'
  <2>1. FixedTypes'
    BY <1>2, <1>0 DEF Command, FixedTypes
  <2>2. HandlerTypes' /\ MessageKnown'
    BY <1>2, <1>0, StartTypes DEF Command, SlashCommand, HandlerTypes, MessageKnown
  <2>3. InboundTypes'
    BY <1>2, <1>0 DEF Command, SlashCommand, Start, FirstStep, InboundTypes
  <2>4. LeaderTypes'
    BY <1>2, <1>0, IngressAssumption DEF Command, SlashCommand, Start, FirstStep,
      LeaderTypes
  <2>5. OutboxTypes'
    BY <1>2, <1>0, IngressAssumption DEF Command, SlashCommand, Start, FirstStep,
      OutboxTypes, Statuses, HandlerTypes, MessageKnown
  <2>6. PublisherTypes'
    BY <1>2, <1>0, IngressAssumption DEF Command, SlashCommand, Start, FirstStep,
      PublisherTypes, PublisherLabels
  <2> QED
    BY <2>1, <2>2, <2>3, <2>4, <2>5, <2>6 DEF TypeInv
<1>3. ASSUME NEW p \in Pods, NEW m \in Messages, Interact(p, m) PROVE TypeInv'
  <2>1. FixedTypes'
    BY <1>3, <1>0 DEF Interact, FixedTypes
  <2>2. HandlerTypes' /\ MessageKnown'
    BY <1>3, <1>0, StartTypes DEF Interact, ShowSession, NewSession, HandlerTypes,
      MessageKnown
  <2>3. InboundTypes'
    BY <1>3, <1>0 DEF Interact, ShowSession, NewSession, Start, FirstStep, InboundTypes
  <2>4. LeaderTypes'
    BY <1>3, <1>0, IngressAssumption DEF Interact, ShowSession, NewSession, Start,
      FirstStep, LeaderTypes
  <2>5. OutboxTypes'
    BY <1>3, <1>0, IngressAssumption DEF Interact, ShowSession, NewSession, Start,
      FirstStep, OutboxTypes, Statuses, HandlerTypes, MessageKnown
  <2>6. PublisherTypes'
    BY <1>3, <1>0, IngressAssumption DEF Interact, ShowSession, NewSession, Start,
      FirstStep, PublisherTypes, PublisherLabels
  <2> QED
    BY <2>1, <2>2, <2>3, <2>4, <2>5, <2>6 DEF TypeInv
<1>4. ASSUME NEW m \in Messages, MailArrives(m) PROVE TypeInv'
  <2>1. FixedTypes'
    BY <1>4, <1>0 DEF MailArrives, FixedTypes
  <2>2. HandlerTypes' /\ MessageKnown'
    BY <1>4, <1>0, IngressAssumption DEF MailArrives, HandlerTypes, MessageKnown,
      Labels, Locked
  <2>3. InboundTypes'
    BY <1>4, <1>0 DEF MailArrives, InboundTypes
  <2>4. LeaderTypes'
    BY <1>4, <1>0, IngressAssumption DEF MailArrives, LeaderTypes
  <2>5. OutboxTypes'
    BY <1>4, <1>0, IngressAssumption DEF MailArrives, OutboxTypes, Statuses,
      HandlerTypes, MessageKnown
  <2>6. PublisherTypes'
    BY <1>4, <1>0, IngressAssumption DEF MailArrives, PublisherTypes, PublisherLabels
  <2> QED
    BY <2>1, <2>2, <2>3, <2>4, <2>5, <2>6 DEF TypeInv
<1>5. ASSUME NEW p \in Pods, BecomeLeader(p) PROVE TypeInv'
  <2>1. FixedTypes'
    BY <1>5, <1>0 DEF BecomeLeader, FixedTypes
  <2>2. HandlerTypes' /\ MessageKnown'
    BY <1>5, <1>0, IngressAssumption DEF BecomeLeader, HandlerTypes, MessageKnown,
      Labels, Locked
  <2>3. InboundTypes'
    BY <1>5, <1>0 DEF BecomeLeader, InboundTypes
  <2>4. LeaderTypes'
    BY <1>5, <1>0, IngressAssumption DEF BecomeLeader, LeaderTypes
  <2>5. OutboxTypes'
    BY <1>5, <1>0, IngressAssumption DEF BecomeLeader, OutboxTypes, Statuses,
      HandlerTypes, MessageKnown
  <2>6. PublisherTypes'
    BY <1>5, <1>0, IngressAssumption DEF BecomeLeader, PublisherTypes, PublisherLabels
  <2> QED
    BY <2>1, <2>2, <2>3, <2>4, <2>5, <2>6 DEF TypeInv
<1>6. ASSUME NEW p \in Pods, RenewFails(p) PROVE TypeInv'
  <2>1. FixedTypes'
    BY <1>6, <1>0 DEF RenewFails, FixedTypes
  <2>2. HandlerTypes' /\ MessageKnown'
    BY <1>6, <1>0, IngressAssumption DEF RenewFails, BetweenMails, ReleaseLeadership,
      LeaderUnlocked, HandlerTypes, MessageKnown, Labels, Locked
  <2>3. InboundTypes'
    BY <1>6, <1>0 DEF RenewFails, BetweenMails, ReleaseLeadership, LeaderUnlocked,
      InboundTypes
  <2>4. LeaderTypes'
    BY <1>6, <1>0, IngressAssumption DEF RenewFails, BetweenMails, ReleaseLeadership,
      LeaderUnlocked, LeaderTypes
  <2>5. OutboxTypes'
    BY <1>6, <1>0, IngressAssumption DEF RenewFails, BetweenMails, ReleaseLeadership,
      LeaderUnlocked, OutboxTypes, Statuses, HandlerTypes, MessageKnown
  <2>6. PublisherTypes'
    BY <1>6, <1>0, IngressAssumption DEF RenewFails, BetweenMails, ReleaseLeadership,
      LeaderUnlocked, PublisherTypes, PublisherLabels
  <2> QED
    BY <2>1, <2>2, <2>3, <2>4, <2>5, <2>6 DEF TypeInv
<1>7. ASSUME NEW p \in Pods, Poll(p) PROVE TypeInv'
  <2>1. FixedTypes'
    BY <1>7, <1>0 DEF Poll, FixedTypes
  <2>2. HandlerTypes' /\ MessageKnown'
    BY <1>7, <1>0, IngressAssumption DEF Poll, BetweenMails, Unseen, HandlerTypes,
      MessageKnown, Labels, Locked
  <2>3. InboundTypes'
    BY <1>7, <1>0 DEF Poll, BetweenMails, Unseen, InboundTypes
  <2>4. LeaderTypes'
    BY <1>7, <1>0, IngressAssumption DEF Poll, BetweenMails, Unseen, LeaderTypes
  <2>5. OutboxTypes'
    BY <1>7, <1>0, IngressAssumption DEF Poll, BetweenMails, Unseen, OutboxTypes,
      Statuses, HandlerTypes, MessageKnown
  <2>6. PublisherTypes'
    BY <1>7, <1>0, IngressAssumption DEF Poll, BetweenMails, Unseen, PublisherTypes,
      PublisherLabels
  <2> QED
    BY <2>1, <2>2, <2>3, <2>4, <2>5, <2>6 DEF TypeInv
<1>8. ASSUME NEW p \in Pods, NEW m \in Messages, NextMail(p, m) PROVE TypeInv'
  <2>1. FixedTypes'
    BY <1>8, <1>0 DEF NextMail, FixedTypes
  <2>2. HandlerTypes' /\ MessageKnown'
    BY <1>8, <1>0, StartTypes DEF NextMail, BetweenMails, HandlerTypes, MessageKnown
  <2>3. InboundTypes'
    BY <1>8, <1>0 DEF NextMail, BetweenMails, Start, FirstStep, InboundTypes
  <2>4. LeaderTypes'
    BY <1>8, <1>0, IngressAssumption DEF NextMail, BetweenMails, Start, FirstStep,
      LeaderTypes
  <2>5. OutboxTypes'
    BY <1>8, <1>0, IngressAssumption DEF NextMail, BetweenMails, Start, FirstStep,
      OutboxTypes, Statuses, HandlerTypes, MessageKnown
  <2>6. PublisherTypes'
    BY <1>8, <1>0, IngressAssumption DEF NextMail, BetweenMails, Start, FirstStep,
      PublisherTypes, PublisherLabels
  <2> QED
    BY <2>1, <2>2, <2>3, <2>4, <2>5, <2>6 DEF TypeInv
<1>9. ASSUME NEW p \in Pods, PollFails(p) PROVE TypeInv'
  <2>1. FixedTypes'
    BY <1>9, <1>0 DEF PollFails, FixedTypes
  <2>2. HandlerTypes' /\ MessageKnown'
    BY <1>9, <1>0, IngressAssumption DEF PollFails, BetweenMails, Fault,
      ReleaseLeadership, LeaderUnlocked, HandlerTypes, MessageKnown, Labels, Locked
  <2>3. InboundTypes'
    BY <1>9, <1>0 DEF PollFails, BetweenMails, Fault, ReleaseLeadership,
      LeaderUnlocked, InboundTypes
  <2>4. LeaderTypes'
    BY <1>9, <1>0, IngressAssumption DEF PollFails, BetweenMails, Fault,
      ReleaseLeadership, LeaderUnlocked, LeaderTypes
  <2>5. OutboxTypes'
    BY <1>9, <1>0, IngressAssumption DEF PollFails, BetweenMails, Fault,
      ReleaseLeadership, LeaderUnlocked, OutboxTypes, Statuses, HandlerTypes,
      MessageKnown
  <2>6. PublisherTypes'
    BY <1>9, <1>0, IngressAssumption DEF PollFails, BetweenMails, Fault,
      ReleaseLeadership, LeaderUnlocked, PublisherTypes, PublisherLabels
  <2> QED
    BY <2>1, <2>2, <2>3, <2>4, <2>5, <2>6 DEF TypeInv
<1>10. ASSUME LeaderConnectionLost PROVE TypeInv'
  <2>1. FixedTypes'
    BY <1>10, <1>0 DEF LeaderConnectionLost, FixedTypes
  <2>2. HandlerTypes' /\ MessageKnown'
    BY <1>10, <1>0, IngressAssumption DEF LeaderConnectionLost, Fault, HandlerTypes,
      MessageKnown, Labels, Locked
  <2>3. InboundTypes'
    BY <1>10, <1>0 DEF LeaderConnectionLost, Fault, InboundTypes
  <2>4. LeaderTypes'
    BY <1>10, <1>0, IngressAssumption DEF LeaderConnectionLost, Fault, LeaderTypes
  <2>5. OutboxTypes'
    BY <1>10, <1>0, IngressAssumption DEF LeaderConnectionLost, Fault, OutboxTypes,
      Statuses, HandlerTypes, MessageKnown
  <2>6. PublisherTypes'
    BY <1>10, <1>0, IngressAssumption DEF LeaderConnectionLost, Fault,
      PublisherTypes, PublisherLabels
  <2> QED
    BY <2>1, <2>2, <2>3, <2>4, <2>5, <2>6 DEF TypeInv
<1>11. ASSUME NEW p \in Pods, SelectClaim(p) PROVE TypeInv'
  <2>1. FixedTypes'
    BY <1>11, <1>0 DEF SelectClaim, FixedTypes
  <2>2. HandlerTypes' /\ MessageKnown'
    BY <1>11, <1>0, IngressAssumption DEF SelectClaim, Refuse, Goto, NoFault,
      EndHandler, Unlocked, HandlerTypes, MessageKnown, Labels, Locked
  <2>3. InboundTypes'
    <3>1. acked' \subseteq Messages
      BY <1>11, <1>0, EndTypes DEF SelectClaim, Refuse, Goto, NoFault, InboundTypes,
        Locked
    <3>2. msg[p] \in Messages
      BY <1>11, <1>0 DEF SelectClaim, MessageKnown, Locked
    <3> QED
      BY <1>11, <1>0, <3>1, <3>2 DEF SelectClaim, Refuse, Goto, NoFault, EndHandler,
        Unlocked, InboundTypes
  <2>4. LeaderTypes'
    BY <1>11, <1>0, IngressAssumption DEF SelectClaim, Refuse, Goto, NoFault,
      EndHandler, Unlocked, LeaderTypes
  <2>5. OutboxTypes'
    BY <1>11, <1>0, IngressAssumption DEF SelectClaim, Refuse, Goto, NoFault,
      EndHandler, Unlocked, OutboxTypes, Statuses, HandlerTypes, MessageKnown
  <2>6. PublisherTypes'
    BY <1>11, <1>0, IngressAssumption DEF SelectClaim, Refuse, Goto, NoFault,
      EndHandler, Unlocked, PublisherTypes, PublisherLabels
  <2> QED
    BY <2>1, <2>2, <2>3, <2>4, <2>5, <2>6 DEF TypeInv
<1>12. ASSUME NEW p \in Pods, InsertClaim(p) PROVE TypeInv'
  <2>1. FixedTypes'
    BY <1>12, <1>0 DEF InsertClaim, FixedTypes
  <2>2. HandlerTypes' /\ MessageKnown'
    BY <1>12, <1>0, IngressAssumption DEF InsertClaim, Refuse, Goto, AfterClaim,
      NoFault, EndHandler, Unlocked, HandlerTypes, MessageKnown, Labels, Locked
  <2>3. InboundTypes'
    <3>1. acked' \subseteq Messages
      BY <1>12, <1>0, EndTypes DEF InsertClaim, Refuse, Goto, AfterClaim, NoFault,
        InboundTypes, Locked
    <3>2. msg[p] \in Messages
      BY <1>12, <1>0 DEF InsertClaim, MessageKnown, Locked
    <3> QED
      BY <1>12, <1>0, <3>1, <3>2 DEF InsertClaim, Refuse, Goto, AfterClaim, NoFault,
        EndHandler, Unlocked, InboundTypes
  <2>4. LeaderTypes'
    BY <1>12, <1>0, IngressAssumption DEF InsertClaim, Refuse, Goto, AfterClaim,
      NoFault, EndHandler, Unlocked, LeaderTypes
  <2>5. OutboxTypes'
    BY <1>12, <1>0, IngressAssumption DEF InsertClaim, Refuse, Goto, AfterClaim,
      NoFault, EndHandler, Unlocked, OutboxTypes, Statuses, HandlerTypes, MessageKnown
  <2>6. PublisherTypes'
    BY <1>12, <1>0, IngressAssumption DEF InsertClaim, Refuse, Goto, AfterClaim,
      NoFault, EndHandler, Unlocked, PublisherTypes, PublisherLabels
  <2> QED
    BY <2>1, <2>2, <2>3, <2>4, <2>5, <2>6 DEF TypeInv
<1>13. ASSUME NEW p \in Pods, RetakeClaim(p) PROVE TypeInv'
  <2>1. FixedTypes'
    BY <1>13, <1>0 DEF RetakeClaim, FixedTypes
  <2>2. HandlerTypes' /\ MessageKnown'
    BY <1>13, <1>0, IngressAssumption DEF RetakeClaim, Goto, AfterClaim, NoFault,
      HandlerTypes, MessageKnown, Labels, Locked
  <2>3. InboundTypes'
    BY <1>13, <1>0 DEF RetakeClaim, Goto, AfterClaim, NoFault, InboundTypes
  <2>4. LeaderTypes'
    BY <1>13, <1>0, IngressAssumption DEF RetakeClaim, Goto, AfterClaim, NoFault,
      LeaderTypes
  <2>5. OutboxTypes'
    BY <1>13, <1>0, IngressAssumption DEF RetakeClaim, Goto, AfterClaim, NoFault,
      OutboxTypes, Statuses, HandlerTypes, MessageKnown
  <2>6. PublisherTypes'
    BY <1>13, <1>0, IngressAssumption DEF RetakeClaim, Goto, AfterClaim, NoFault,
      PublisherTypes, PublisherLabels
  <2> QED
    BY <2>1, <2>2, <2>3, <2>4, <2>5, <2>6 DEF TypeInv
<1>14. ASSUME NEW p \in Pods, ClaimFails(p) PROVE TypeInv'
  <2>1. FixedTypes'
    BY <1>14, <1>0 DEF ClaimFails, FixedTypes
  <2>2. HandlerTypes' /\ MessageKnown'
    BY <1>14, <1>0, IngressAssumption DEF ClaimFails, Fault, Refuse, EndHandler,
      Unlocked, HandlerTypes, MessageKnown, Labels, Locked
  <2>3. InboundTypes'
    <3>1. acked' \subseteq Messages
      BY <1>14, <1>0, EndTypes DEF ClaimFails, Fault, Refuse, InboundTypes, Locked
    <3>2. msg[p] \in Messages
      BY <1>14, <1>0 DEF ClaimFails, MessageKnown, Locked
    <3> QED
      BY <1>14, <1>0, <3>1, <3>2 DEF ClaimFails, Fault, Refuse, EndHandler, Unlocked,
        InboundTypes
  <2>4. LeaderTypes'
    BY <1>14, <1>0, IngressAssumption DEF ClaimFails, Fault, Refuse, EndHandler,
      Unlocked, LeaderTypes
  <2>5. OutboxTypes'
    BY <1>14, <1>0, IngressAssumption DEF ClaimFails, Fault, Refuse, EndHandler,
      Unlocked, OutboxTypes, Statuses, HandlerTypes, MessageKnown
  <2>6. PublisherTypes'
    BY <1>14, <1>0, IngressAssumption DEF ClaimFails, Fault, Refuse, EndHandler,
      Unlocked, PublisherTypes, PublisherLabels
  <2> QED
    BY <2>1, <2>2, <2>3, <2>4, <2>5, <2>6 DEF TypeInv
<1>15. ASSUME NEW m \in Messages, Age(m) PROVE TypeInv'
  <2>1. FixedTypes'
    BY <1>15, <1>0 DEF Age, FixedTypes
  <2>2. HandlerTypes' /\ MessageKnown'
    BY <1>15, <1>0, IngressAssumption DEF Age, HandlerTypes, MessageKnown, Labels,
      Locked
  <2>3. InboundTypes'
    BY <1>15, <1>0 DEF Age, InboundTypes
  <2>4. LeaderTypes'
    BY <1>15, <1>0, IngressAssumption DEF Age, LeaderTypes
  <2>5. OutboxTypes'
    BY <1>15, <1>0, IngressAssumption DEF Age, OutboxTypes, Statuses, HandlerTypes,
      MessageKnown
  <2>6. PublisherTypes'
    BY <1>15, <1>0, IngressAssumption DEF Age, PublisherTypes, PublisherLabels
  <2> QED
    BY <2>1, <2>2, <2>3, <2>4, <2>5, <2>6 DEF TypeInv
<1>16. ASSUME NEW p \in Pods, Screen(p) PROVE TypeInv'
  <2>1. FixedTypes'
    BY <1>16, <1>0 DEF Screen, FixedTypes
  <2>2. HandlerTypes' /\ MessageKnown'
    BY <1>16, <1>0, IngressAssumption DEF Screen, SlackScreen, MailScreen,
      TicketScreen, CommandScreen, Goto, NoFault, EndHandler, Unlocked, HandlerTypes,
      MessageKnown, Labels, Locked
  <2>3. InboundTypes'
    <3>1. acked' \subseteq Messages
      BY <1>16, <1>0, EndTypes DEF Screen, SlackScreen, MailScreen, TicketScreen,
        CommandScreen, Goto, NoFault, InboundTypes, Locked
    <3>2. msg[p] \in Messages
      BY <1>16, <1>0 DEF Screen, MessageKnown, Locked
    <3> QED
      BY <1>16, <1>0, <3>1, <3>2 DEF Screen, SlackScreen, MailScreen, TicketScreen,
        CommandScreen, Goto, NoFault, EndHandler, Unlocked, InboundTypes
  <2>4. LeaderTypes'
    BY <1>16, <1>0, IngressAssumption DEF Screen, SlackScreen, MailScreen,
      TicketScreen, CommandScreen, Goto, NoFault, EndHandler, Unlocked, LeaderTypes
  <2>5. OutboxTypes'
    BY <1>16, <1>0, IngressAssumption DEF Screen, SlackScreen, MailScreen,
      TicketScreen, CommandScreen, Goto, NoFault, EndHandler, Unlocked, OutboxTypes,
      Statuses, HandlerTypes, MessageKnown
  <2>6. PublisherTypes'
    BY <1>16, <1>0, IngressAssumption DEF Screen, SlackScreen, MailScreen,
      TicketScreen, CommandScreen, Goto, NoFault, EndHandler, Unlocked,
      PublisherTypes, PublisherLabels
  <2> QED
    BY <2>1, <2>2, <2>3, <2>4, <2>5, <2>6 DEF TypeInv
<1>17. ASSUME NEW p \in Pods, CoolOff(p) PROVE TypeInv'
  <2>1. FixedTypes'
    BY <1>17, <1>0 DEF CoolOff, FixedTypes
  <2>2. HandlerTypes' /\ MessageKnown'
    BY <1>17, <1>0, IngressAssumption DEF CoolOff, HandlerTypes, MessageKnown,
      Labels, Locked
  <2>3. InboundTypes'
    BY <1>17, <1>0 DEF CoolOff, InboundTypes
  <2>4. LeaderTypes'
    BY <1>17, <1>0, IngressAssumption DEF CoolOff, LeaderTypes
  <2>5. OutboxTypes'
    BY <1>17, <1>0, IngressAssumption DEF CoolOff, OutboxTypes, Statuses,
      HandlerTypes, MessageKnown
  <2>6. PublisherTypes'
    BY <1>17, <1>0, IngressAssumption DEF CoolOff, PublisherTypes, PublisherLabels
  <2> QED
    BY <2>1, <2>2, <2>3, <2>4, <2>5, <2>6 DEF TypeInv
<1>18. ASSUME NEW p \in Pods, UserUnresolved(p) PROVE TypeInv'
  <2>1. FixedTypes'
    BY <1>18, <1>0 DEF UserUnresolved, FixedTypes
  <2>2. HandlerTypes' /\ MessageKnown'
    BY <1>18, <1>0, IngressAssumption DEF UserUnresolved, Fault, ErrorAcks,
      EndHandler, Unlocked, HandlerTypes, MessageKnown, Labels, Locked
  <2>3. InboundTypes'
    <3>1. acked' \subseteq Messages
      BY <1>18, <1>0, EndTypes DEF UserUnresolved, Fault, ErrorAcks, InboundTypes,
        Locked
    <3>2. msg[p] \in Messages
      BY <1>18, <1>0 DEF UserUnresolved, MessageKnown, Locked
    <3> QED
      BY <1>18, <1>0, <3>1, <3>2 DEF UserUnresolved, Fault, ErrorAcks, EndHandler,
        Unlocked, InboundTypes
  <2>4. LeaderTypes'
    BY <1>18, <1>0, IngressAssumption DEF UserUnresolved, Fault, ErrorAcks,
      EndHandler, Unlocked, LeaderTypes
  <2>5. OutboxTypes'
    BY <1>18, <1>0, IngressAssumption DEF UserUnresolved, Fault, ErrorAcks,
      EndHandler, Unlocked, OutboxTypes, Statuses, HandlerTypes, MessageKnown
  <2>6. PublisherTypes'
    BY <1>18, <1>0, IngressAssumption DEF UserUnresolved, Fault, ErrorAcks,
      EndHandler, Unlocked, PublisherTypes, PublisherLabels
  <2> QED
    BY <2>1, <2>2, <2>3, <2>4, <2>5, <2>6 DEF TypeInv
<1>19. ASSUME NEW p \in Pods, AcquireLock(p) PROVE TypeInv'
  <2>1. FixedTypes'
    BY <1>19, <1>0 DEF AcquireLock, FixedTypes
  <2>2. HandlerTypes' /\ MessageKnown'
    BY <1>19, <1>0, IngressAssumption DEF AcquireLock, LockFree, Goto, HandlerTypes,
      MessageKnown, Labels, Locked
  <2>3. InboundTypes'
    BY <1>19, <1>0 DEF AcquireLock, LockFree, Goto, InboundTypes
  <2>4. LeaderTypes'
    BY <1>19, <1>0, IngressAssumption DEF AcquireLock, LockFree, Goto, LeaderTypes
  <2>5. OutboxTypes'
    BY <1>19, <1>0, IngressAssumption DEF AcquireLock, LockFree, Goto, OutboxTypes,
      Statuses, HandlerTypes, MessageKnown
  <2>6. PublisherTypes'
    BY <1>19, <1>0, IngressAssumption DEF AcquireLock, LockFree, Goto,
      PublisherTypes, PublisherLabels
  <2> QED
    BY <2>1, <2>2, <2>3, <2>4, <2>5, <2>6 DEF TypeInv
<1>20. ASSUME NEW p \in Pods, LockTimeout(p) PROVE TypeInv'
  <2>1. FixedTypes'
    BY <1>20, <1>0 DEF LockTimeout, FixedTypes
  <2>2. HandlerTypes' /\ MessageKnown'
    BY <1>20, <1>0, IngressAssumption DEF LockTimeout, LockFree, Fault, ErrorAcks,
      EndHandler, Unlocked, HandlerTypes, MessageKnown, Labels, Locked
  <2>3. InboundTypes'
    <3>1. acked' \subseteq Messages
      BY <1>20, <1>0, EndTypes DEF LockTimeout, LockFree, Fault, ErrorAcks,
        InboundTypes, Locked
    <3>2. msg[p] \in Messages
      BY <1>20, <1>0 DEF LockTimeout, MessageKnown, Locked
    <3> QED
      BY <1>20, <1>0, <3>1, <3>2 DEF LockTimeout, LockFree, Fault, ErrorAcks,
        EndHandler, Unlocked, InboundTypes
  <2>4. LeaderTypes'
    BY <1>20, <1>0, IngressAssumption DEF LockTimeout, LockFree, Fault, ErrorAcks,
      EndHandler, Unlocked, LeaderTypes
  <2>5. OutboxTypes'
    BY <1>20, <1>0, IngressAssumption DEF LockTimeout, LockFree, Fault, ErrorAcks,
      EndHandler, Unlocked, OutboxTypes, Statuses, HandlerTypes, MessageKnown
  <2>6. PublisherTypes'
    BY <1>20, <1>0, IngressAssumption DEF LockTimeout, LockFree, Fault, ErrorAcks,
      EndHandler, Unlocked, PublisherTypes, PublisherLabels
  <2> QED
    BY <2>1, <2>2, <2>3, <2>4, <2>5, <2>6 DEF TypeInv
<1>21. ASSUME LockConnectionLost PROVE TypeInv'
  <2>1. FixedTypes'
    BY <1>21, <1>0 DEF LockConnectionLost, FixedTypes
  <2>2. HandlerTypes' /\ MessageKnown'
    BY <1>21, <1>0, IngressAssumption DEF LockConnectionLost, Fault, HandlerTypes,
      MessageKnown, Labels, Locked
  <2>3. InboundTypes'
    <3>1. lock \in Pods /\ pc[lock] # "idle"
      BY <1>21, <1>0 DEF LockConnectionLost, HandlerTypes, Locked
    <3>2. msg[lock] \in Messages
      BY <1>0, <3>1 DEF MessageKnown
    <3> QED
      BY <1>21, <1>0, <3>2 DEF LockConnectionLost, Fault, InboundTypes
  <2>4. LeaderTypes'
    BY <1>21, <1>0, IngressAssumption DEF LockConnectionLost, Fault, LeaderTypes
  <2>5. OutboxTypes'
    BY <1>21, <1>0, IngressAssumption DEF LockConnectionLost, Fault, OutboxTypes,
      Statuses, HandlerTypes, MessageKnown
  <2>6. PublisherTypes'
    BY <1>21, <1>0, IngressAssumption DEF LockConnectionLost, Fault, PublisherTypes,
      PublisherLabels
  <2> QED
    BY <2>1, <2>2, <2>3, <2>4, <2>5, <2>6 DEF TypeInv
<1>22. ASSUME NEW p \in Pods, Anchor(p) PROVE TypeInv'
  <2>1. FixedTypes'
    BY <1>22, <1>0 DEF Anchor, FixedTypes
  <2>2. HandlerTypes' /\ MessageKnown'
    BY <1>22, <1>0, IngressAssumption DEF Anchor, ApplyAnchor, Goto, NoFault,
      EndHandler, Unlocked, HandlerTypes, MessageKnown, Labels, Locked
  <2>3. InboundTypes'
    <3>1. acked' \subseteq Messages
      BY <1>22, <1>0, EndTypes DEF Anchor, ApplyAnchor, Goto, NoFault, InboundTypes,
        Locked
    <3>2. msg[p] \in Messages
      BY <1>22, <1>0 DEF Anchor, MessageKnown, Locked
    <3> QED
      BY <1>22, <1>0, <3>1, <3>2 DEF Anchor, ApplyAnchor, Goto, NoFault, EndHandler,
        Unlocked, InboundTypes
  <2>4. LeaderTypes'
    BY <1>22, <1>0, IngressAssumption DEF Anchor, ApplyAnchor, Goto, NoFault,
      EndHandler, Unlocked, LeaderTypes
  <2>5. OutboxTypes'
    BY <1>22, <1>0, IngressAssumption DEF Anchor, ApplyAnchor, Goto, NoFault,
      EndHandler, Unlocked, OutboxTypes, Statuses, HandlerTypes, MessageKnown
  <2>6. PublisherTypes'
    BY <1>22, <1>0, IngressAssumption DEF Anchor, ApplyAnchor, Goto, NoFault,
      EndHandler, Unlocked, PublisherTypes, PublisherLabels
  <2> QED
    BY <2>1, <2>2, <2>3, <2>4, <2>5, <2>6 DEF TypeInv
<1>23. ASSUME NEW p \in Pods, Insert(p) PROVE TypeInv'
  <2>1. FixedTypes'
    BY <1>23, <1>0 DEF Insert, FixedTypes
  <2>2. HandlerTypes' /\ MessageKnown'
    BY <1>23, <1>0, IngressAssumption DEF Insert, InsertRow, Goto, NoFault,
      EndHandler, Unlocked, HandlerTypes, MessageKnown, Labels, Locked
  <2>3. InboundTypes'
    <3>1. acked' \subseteq Messages
      BY <1>23, <1>0, EndTypes DEF Insert, InsertRow, Goto, NoFault, InboundTypes,
        Locked
    <3>2. msg[p] \in Messages
      BY <1>23, <1>0 DEF Insert, MessageKnown, Locked
    <3> QED
      BY <1>23, <1>0, <3>1, <3>2 DEF Insert, InsertRow, Goto, NoFault, EndHandler,
        Unlocked, InboundTypes
  <2>4. LeaderTypes'
    BY <1>23, <1>0, IngressAssumption DEF Insert, InsertRow, Goto, NoFault,
      EndHandler, Unlocked, LeaderTypes
  <2>5. OutboxTypes'
    BY <1>23, <1>0, IngressAssumption DEF Insert, InsertRow, Goto, NoFault,
      EndHandler, Unlocked, OutboxTypes, Statuses, HandlerTypes, MessageKnown
  <2>6. PublisherTypes'
    BY <1>23, <1>0, IngressAssumption DEF Insert, InsertRow, Goto, NoFault,
      EndHandler, Unlocked, PublisherTypes, PublisherLabels
  <2> QED
    BY <2>1, <2>2, <2>3, <2>4, <2>5, <2>6 DEF TypeInv
<1>24. ASSUME NEW p \in Pods, InsertFails(p) PROVE TypeInv'
  <2>1. FixedTypes'
    BY <1>24, <1>0 DEF InsertFails, FixedTypes
  <2>2. HandlerTypes' /\ MessageKnown'
    BY <1>24, <1>0, IngressAssumption DEF InsertFails, Fault, ErrorAcks, EndHandler,
      Unlocked, HandlerTypes, MessageKnown, Labels, Locked
  <2>3. InboundTypes'
    <3>1. acked' \subseteq Messages
      BY <1>24, <1>0, EndTypes DEF InsertFails, Fault, ErrorAcks, InboundTypes, Locked
    <3>2. msg[p] \in Messages
      BY <1>24, <1>0 DEF InsertFails, MessageKnown, Locked
    <3> QED
      BY <1>24, <1>0, <3>1, <3>2 DEF InsertFails, Fault, ErrorAcks, EndHandler,
        Unlocked, InboundTypes
  <2>4. LeaderTypes'
    BY <1>24, <1>0, IngressAssumption DEF InsertFails, Fault, ErrorAcks, EndHandler,
      Unlocked, LeaderTypes
  <2>5. OutboxTypes'
    BY <1>24, <1>0, IngressAssumption DEF InsertFails, Fault, ErrorAcks, EndHandler,
      Unlocked, OutboxTypes, Statuses, HandlerTypes, MessageKnown
  <2>6. PublisherTypes'
    BY <1>24, <1>0, IngressAssumption DEF InsertFails, Fault, ErrorAcks, EndHandler,
      Unlocked, PublisherTypes, PublisherLabels
  <2> QED
    BY <2>1, <2>2, <2>3, <2>4, <2>5, <2>6 DEF TypeInv
<1>25. ASSUME NEW p \in Pods, Send(p) PROVE TypeInv'
  <2>1. FixedTypes'
    BY <1>25, <1>0 DEF Send, FixedTypes
  <2>2. HandlerTypes' /\ MessageKnown'
    BY <1>25, <1>0, IngressAssumption DEF Send, Accepted, Goto, NoFault, EndHandler,
      Unlocked, HandlerTypes, MessageKnown, Labels, Locked
  <2>3. InboundTypes'
    <3>1. acked' \subseteq Messages
      BY <1>25, <1>0, EndTypes DEF Send, Accepted, Goto, NoFault, InboundTypes, Locked
    <3>2. msg[p] \in Messages
      BY <1>25, <1>0 DEF Send, MessageKnown, Locked
    <3> QED
      BY <1>25, <1>0, <3>1, <3>2 DEF Send, Accepted, Goto, NoFault, EndHandler,
        Unlocked, InboundTypes
  <2>4. LeaderTypes'
    BY <1>25, <1>0, IngressAssumption DEF Send, Accepted, Goto, NoFault, EndHandler,
      Unlocked, LeaderTypes
  <2>5. OutboxTypes'
    BY <1>25, <1>0, IngressAssumption DEF Send, Accepted, Goto, NoFault, EndHandler,
      Unlocked, OutboxTypes, Statuses, HandlerTypes, MessageKnown
  <2>6. PublisherTypes'
    BY <1>25, <1>0, IngressAssumption DEF Send, Accepted, Goto, NoFault, EndHandler,
      Unlocked, PublisherTypes, PublisherLabels
  <2> QED
    BY <2>1, <2>2, <2>3, <2>4, <2>5, <2>6 DEF TypeInv
<1>26. ASSUME NEW p \in Pods, Mark(p) PROVE TypeInv'
  <2>1. FixedTypes'
    BY <1>26, <1>0 DEF Mark, FixedTypes
  <2>2. HandlerTypes' /\ MessageKnown'
    BY <1>26, <1>0, IngressAssumption DEF Mark, MarkedPublished, NoFault, EndHandler,
      Unlocked, HandlerTypes, MessageKnown, Labels, Locked
  <2>3. InboundTypes'
    <3>1. acked' \subseteq Messages
      BY <1>26, <1>0, EndTypes DEF Mark, MarkedPublished, NoFault, InboundTypes, Locked
    <3>2. msg[p] \in Messages
      BY <1>26, <1>0 DEF Mark, MessageKnown, Locked
    <3> QED
      BY <1>26, <1>0, <3>1, <3>2 DEF Mark, MarkedPublished, NoFault, EndHandler,
        Unlocked, InboundTypes
  <2>4. LeaderTypes'
    BY <1>26, <1>0, IngressAssumption DEF Mark, MarkedPublished, NoFault, EndHandler,
      Unlocked, LeaderTypes
  <2>5. OutboxTypes'
    BY <1>26, <1>0, IngressAssumption DEF Mark, MarkedPublished, NoFault, EndHandler,
      Unlocked, OutboxTypes, Statuses, HandlerTypes, MessageKnown
  <2>6. PublisherTypes'
    BY <1>26, <1>0, IngressAssumption DEF Mark, MarkedPublished, NoFault, EndHandler,
      Unlocked, PublisherTypes, PublisherLabels
  <2> QED
    BY <2>1, <2>2, <2>3, <2>4, <2>5, <2>6 DEF TypeInv
<1>27. ASSUME NEW p \in Pods, MarkFails(p) PROVE TypeInv'
  <2>1. FixedTypes'
    BY <1>27, <1>0 DEF MarkFails, FixedTypes
  <2>2. HandlerTypes' /\ MessageKnown'
    BY <1>27, <1>0, IngressAssumption DEF MarkFails, MarkedPublished, Fault,
      ErrorAcks, EndHandler, Unlocked, HandlerTypes, MessageKnown, Labels, Locked
  <2>3. InboundTypes'
    <3>1. acked' \subseteq Messages
      BY <1>27, <1>0, EndTypes DEF MarkFails, MarkedPublished, Fault, ErrorAcks,
        InboundTypes, Locked
    <3>2. msg[p] \in Messages
      BY <1>27, <1>0 DEF MarkFails, MessageKnown, Locked
    <3> QED
      BY <1>27, <1>0, <3>1, <3>2 DEF MarkFails, MarkedPublished, Fault, ErrorAcks,
        EndHandler, Unlocked, InboundTypes
  <2>4. LeaderTypes'
    BY <1>27, <1>0, IngressAssumption DEF MarkFails, MarkedPublished, Fault,
      ErrorAcks, EndHandler, Unlocked, LeaderTypes
  <2>5. OutboxTypes'
    BY <1>27, <1>0, IngressAssumption DEF MarkFails, MarkedPublished, Fault,
      ErrorAcks, EndHandler, Unlocked, OutboxTypes, Statuses, HandlerTypes, MessageKnown
  <2>6. PublisherTypes'
    BY <1>27, <1>0, IngressAssumption DEF MarkFails, MarkedPublished, Fault,
      ErrorAcks, EndHandler, Unlocked, PublisherTypes, PublisherLabels
  <2> QED
    BY <2>1, <2>2, <2>3, <2>4, <2>5, <2>6 DEF TypeInv
<1>28. ASSUME NEW p \in Pods, SelectBatch(p) PROVE TypeInv'
  <2>1. FixedTypes'
    BY <1>28, <1>0 DEF SelectBatch, FixedTypes
  <2>2. HandlerTypes' /\ MessageKnown'
    BY <1>28, <1>0, IngressAssumption DEF SelectBatch, Pending, HandlerTypes,
      MessageKnown, Labels, Locked
  <2>3. InboundTypes'
    BY <1>28, <1>0 DEF SelectBatch, Pending, InboundTypes
  <2>4. LeaderTypes'
    BY <1>28, <1>0, IngressAssumption DEF SelectBatch, Pending, LeaderTypes
  <2>5. OutboxTypes'
    BY <1>28, <1>0, IngressAssumption DEF SelectBatch, Pending, OutboxTypes,
      Statuses, HandlerTypes, MessageKnown
  <2>6. PublisherTypes'
    BY <1>28, <1>0, IngressAssumption DEF SelectBatch, Pending, PublisherTypes,
      PublisherLabels
  <2> QED
    BY <2>1, <2>2, <2>3, <2>4, <2>5, <2>6 DEF TypeInv
<1>29. ASSUME NEW p \in Pods, NEW m \in Messages, PublishRow(p, m) PROVE TypeInv'
  <2>1. FixedTypes'
    BY <1>29, <1>0 DEF PublishRow, FixedTypes
  <2>2. HandlerTypes' /\ MessageKnown'
    BY <1>29, <1>0, IngressAssumption DEF PublishRow, First, Accepted, NoFault,
      Fault, HandlerTypes, MessageKnown, Labels, Locked
  <2>3. InboundTypes'
    BY <1>29, <1>0 DEF PublishRow, First, Accepted, NoFault, Fault, InboundTypes
  <2>4. LeaderTypes'
    BY <1>29, <1>0, IngressAssumption DEF PublishRow, First, Accepted, NoFault,
      Fault, LeaderTypes
  <2>5. OutboxTypes'
    BY <1>29, <1>0, IngressAssumption DEF PublishRow, First, Accepted, NoFault,
      Fault, OutboxTypes, Statuses, HandlerTypes, MessageKnown
  <2>6. PublisherTypes'
    BY <1>29, <1>0, IngressAssumption DEF PublishRow, First, Accepted, NoFault,
      Fault, PublisherTypes, PublisherLabels
  <2> QED
    BY <2>1, <2>2, <2>3, <2>4, <2>5, <2>6 DEF TypeInv
<1>30. ASSUME NEW p \in Pods, NEW m \in Messages, MarkPublished(p, m) PROVE TypeInv'
  <2>1. FixedTypes'
    BY <1>30, <1>0 DEF MarkPublished, FixedTypes
  <2>2. HandlerTypes' /\ MessageKnown'
    BY <1>30, <1>0, IngressAssumption DEF MarkPublished, NextRow, First,
      MarkedPublished, HandlerTypes, MessageKnown, Labels, Locked
  <2>3. InboundTypes'
    BY <1>30, <1>0 DEF MarkPublished, NextRow, First, MarkedPublished, InboundTypes
  <2>4. LeaderTypes'
    BY <1>30, <1>0, IngressAssumption DEF MarkPublished, NextRow, First,
      MarkedPublished, LeaderTypes
  <2>5. OutboxTypes'
    BY <1>30, <1>0, IngressAssumption DEF MarkPublished, NextRow, First,
      MarkedPublished, OutboxTypes, Statuses, HandlerTypes, MessageKnown
  <2>6. PublisherTypes'
    BY <1>30, <1>0, IngressAssumption DEF MarkPublished, NextRow, First,
      MarkedPublished, PublisherTypes, PublisherLabels
  <2> QED
    BY <2>1, <2>2, <2>3, <2>4, <2>5, <2>6 DEF TypeInv
<1>31. ASSUME NEW p \in Pods, MarkPublishedFails(p) PROVE TypeInv'
  <2>1. FixedTypes'
    BY <1>31, <1>0 DEF MarkPublishedFails, FixedTypes
  <2>2. HandlerTypes' /\ MessageKnown'
    BY <1>31, <1>0, IngressAssumption DEF MarkPublishedFails, Fault, HandlerTypes,
      MessageKnown, Labels, Locked
  <2>3. InboundTypes'
    BY <1>31, <1>0 DEF MarkPublishedFails, Fault, InboundTypes
  <2>4. LeaderTypes'
    BY <1>31, <1>0, IngressAssumption DEF MarkPublishedFails, Fault, LeaderTypes
  <2>5. OutboxTypes'
    BY <1>31, <1>0, IngressAssumption DEF MarkPublishedFails, Fault, OutboxTypes,
      Statuses, HandlerTypes, MessageKnown
  <2>6. PublisherTypes'
    BY <1>31, <1>0, IngressAssumption DEF MarkPublishedFails, Fault, PublisherTypes,
      PublisherLabels
  <2> QED
    BY <2>1, <2>2, <2>3, <2>4, <2>5, <2>6 DEF TypeInv
<1>32. ASSUME NEW p \in Pods, NEW m \in Messages, MarkFailed(p, m) PROVE TypeInv'
  <2>1. FixedTypes'
    BY <1>32, <1>0 DEF MarkFailed, FixedTypes
  <2>2. HandlerTypes' /\ MessageKnown'
    BY <1>32, <1>0, IngressAssumption DEF MarkFailed, NextRow, First, AfterFailure,
      HandlerTypes, MessageKnown, Labels, Locked
  <2>3. InboundTypes'
    BY <1>32, <1>0 DEF MarkFailed, NextRow, First, AfterFailure, InboundTypes
  <2>4. LeaderTypes'
    BY <1>32, <1>0, IngressAssumption DEF MarkFailed, NextRow, First, AfterFailure,
      LeaderTypes
  <2>5. OutboxTypes'
    BY <1>32, <1>0, IngressAssumption DEF MarkFailed, NextRow, First, AfterFailure,
      OutboxTypes, Statuses, HandlerTypes, MessageKnown
  <2>6. PublisherTypes'
    BY <1>32, <1>0, IngressAssumption DEF MarkFailed, NextRow, First, AfterFailure,
      PublisherTypes, PublisherLabels
  <2> QED
    BY <2>1, <2>2, <2>3, <2>4, <2>5, <2>6 DEF TypeInv
<1>33. ASSUME NEW p \in Pods, NEW m \in Messages, MarkFailedFails(p, m) PROVE TypeInv'
  <2>1. FixedTypes'
    BY <1>33, <1>0 DEF MarkFailedFails, FixedTypes
  <2>2. HandlerTypes' /\ MessageKnown'
    BY <1>33, <1>0, IngressAssumption DEF MarkFailedFails, NoFault, NextRow, First,
      HandlerTypes, MessageKnown, Labels, Locked
  <2>3. InboundTypes'
    BY <1>33, <1>0 DEF MarkFailedFails, NoFault, NextRow, First, InboundTypes
  <2>4. LeaderTypes'
    BY <1>33, <1>0, IngressAssumption DEF MarkFailedFails, NoFault, NextRow, First,
      LeaderTypes
  <2>5. OutboxTypes'
    BY <1>33, <1>0, IngressAssumption DEF MarkFailedFails, NoFault, NextRow, First,
      OutboxTypes, Statuses, HandlerTypes, MessageKnown
  <2>6. PublisherTypes'
    BY <1>33, <1>0, IngressAssumption DEF MarkFailedFails, NoFault, NextRow, First,
      PublisherTypes, PublisherLabels
  <2> QED
    BY <2>1, <2>2, <2>3, <2>4, <2>5, <2>6 DEF TypeInv
<1>34. ASSUME NEW m \in Messages, Reset(m) PROVE TypeInv'
  <2>1. FixedTypes'
    BY <1>34, <1>0 DEF Reset, FixedTypes
  <2>2. HandlerTypes' /\ MessageKnown'
    BY <1>34, <1>0, IngressAssumption DEF Reset, HandlerTypes, MessageKnown, Labels,
      Locked
  <2>3. InboundTypes'
    BY <1>34, <1>0 DEF Reset, InboundTypes
  <2>4. LeaderTypes'
    BY <1>34, <1>0, IngressAssumption DEF Reset, LeaderTypes
  <2>5. OutboxTypes'
    BY <1>34, <1>0, IngressAssumption DEF Reset, OutboxTypes, Statuses, HandlerTypes,
      MessageKnown
  <2>6. PublisherTypes'
    BY <1>34, <1>0, IngressAssumption DEF Reset, PublisherTypes, PublisherLabels
  <2> QED
    BY <2>1, <2>2, <2>3, <2>4, <2>5, <2>6 DEF TypeInv
<1>35. ASSUME NEW p \in Pods, Crash(p) PROVE TypeInv'
  <2>1. FixedTypes'
    BY <1>35, <1>0 DEF Crash, FixedTypes
  <2>2. HandlerTypes' /\ MessageKnown'
    BY <1>35, <1>0, IngressAssumption DEF Crash, Fault, Unlocked, ReleaseLeadership,
      LeaderUnlocked, HandlerTypes, MessageKnown, Labels, Locked
  <2>3. InboundTypes'
    <3>1. harmed' \subseteq Messages
      BY <1>35, <1>0 DEF Crash, Fault, InboundTypes, MessageKnown
    <3> QED
      BY <1>35, <1>0, <3>1 DEF Crash, Fault, Unlocked, ReleaseLeadership,
        LeaderUnlocked, InboundTypes
  <2>4. LeaderTypes'
    BY <1>35, <1>0, IngressAssumption DEF Crash, Fault, Unlocked, ReleaseLeadership,
      LeaderUnlocked, LeaderTypes
  <2>5. OutboxTypes'
    BY <1>35, <1>0, IngressAssumption DEF Crash, Fault, Unlocked, ReleaseLeadership,
      LeaderUnlocked, OutboxTypes, Statuses, HandlerTypes, MessageKnown
  <2>6. PublisherTypes'
    BY <1>35, <1>0, IngressAssumption DEF Crash, Fault, Unlocked, ReleaseLeadership,
      LeaderUnlocked, PublisherTypes, PublisherLabels
  <2> QED
    BY <2>1, <2>2, <2>3, <2>4, <2>5, <2>6 DEF TypeInv
<1>36. CASE UNCHANGED vars
  BY <1>36 DEF vars, TypeInv, FixedTypes, HandlerTypes,
    MessageKnown, InboundTypes, LeaderTypes, OutboxTypes, PublisherTypes
<1> QED
  BY <1>1, <1>2, <1>3, <1>4, <1>5, <1>6, <1>7, <1>8, <1>9, <1>10, <1>11, <1>12,
    <1>13, <1>14, <1>15, <1>16, <1>17, <1>18, <1>19, <1>20, <1>21, <1>22, <1>23,
    <1>24, <1>25, <1>26, <1>27, <1>28, <1>29, <1>30, <1>31, <1>32, <1>33, <1>34,
    <1>35, <1>36 DEF Next, HandlerStep, LeaderStep, PublisherStep, Failure

\* Type correctness, for every value of the constants: the thread's lock is held
\* only inside the critical section of its holder, and the leader's lock only by a
\* pod that takes itself for the leader.
THEOREM IngressTypes == Spec => []TypeOK
<1>1. TypeInv => TypeOK
  BY DEF TypeInv, TypeOK, FixedTypes, HandlerTypes, InboundTypes, LeaderTypes,
    OutboxTypes, PublisherTypes
<1> QED
  BY <1>1, TypeInit, TypeNext, PTL DEF Spec

-----------------------------------------------------------------------------
(***************************************************************************)
(* The outbox.  Whoever publishes a message, a handler under the thread's  *)
(* lock or a publisher without one, has a row of the outbox in hand, so    *)
(* the steps of the dispatcher are those DurablePublish allows.            *)
(***************************************************************************)
StoredInv ==
  /\ \A p \in Pods : pc[p] \in {"send", "mark"} => status[msg[p]] # "none"
  /\ \A p \in Pods : \A m \in batch[p] : status[m] # "none"

LEMMA StoredInit == Init => StoredInv
BY DEF Init, StoredInv

LEMMA StoredNext == TypeInv /\ StoredInv /\ [Next]_vars => StoredInv'
<1> SUFFICES ASSUME TypeInv, StoredInv, [Next]_vars PROVE StoredInv'
  OBVIOUS
<1>0. HandlerTypes /\ MessageKnown /\ OutboxTypes /\ PublisherTypes
  BY DEF TypeInv
<1>1. ASSUME NEW p \in Pods, NEW m \in Messages, Webhook(p, m) PROVE StoredInv'
  BY <1>1, <1>0 DEF Webhook, Start, FirstStep, StoredInv, HandlerTypes, MessageKnown,
    OutboxTypes, PublisherTypes, Locked
<1>2. ASSUME NEW p \in Pods, NEW m \in Messages, Command(p, m) PROVE StoredInv'
  BY <1>2, <1>0 DEF Command, SlashCommand, Start, FirstStep, StoredInv, HandlerTypes,
    MessageKnown, OutboxTypes, PublisherTypes, Locked
<1>3. ASSUME NEW p \in Pods, NEW m \in Messages, Interact(p, m) PROVE StoredInv'
  BY <1>3, <1>0 DEF Interact, ShowSession, NewSession, Start, FirstStep, StoredInv,
    HandlerTypes, MessageKnown, OutboxTypes, PublisherTypes, Locked
<1>4. ASSUME NEW m \in Messages, MailArrives(m) PROVE StoredInv'
  BY <1>4, <1>0 DEF MailArrives, StoredInv, HandlerTypes, MessageKnown, OutboxTypes,
    PublisherTypes, Locked
<1>5. ASSUME NEW p \in Pods, BecomeLeader(p) PROVE StoredInv'
  BY <1>5, <1>0 DEF BecomeLeader, StoredInv, HandlerTypes, MessageKnown, OutboxTypes,
    PublisherTypes, Locked
<1>6. ASSUME NEW p \in Pods, RenewFails(p) PROVE StoredInv'
  BY <1>6, <1>0 DEF RenewFails, BetweenMails, ReleaseLeadership, LeaderUnlocked,
    StoredInv, HandlerTypes, MessageKnown, OutboxTypes, PublisherTypes, Locked
<1>7. ASSUME NEW p \in Pods, Poll(p) PROVE StoredInv'
  BY <1>7, <1>0 DEF Poll, BetweenMails, Unseen, StoredInv, HandlerTypes,
    MessageKnown, OutboxTypes, PublisherTypes, Locked
<1>8. ASSUME NEW p \in Pods, NEW m \in Messages, NextMail(p, m) PROVE StoredInv'
  BY <1>8, <1>0 DEF NextMail, BetweenMails, Start, FirstStep, StoredInv,
    HandlerTypes, MessageKnown, OutboxTypes, PublisherTypes, Locked
<1>9. ASSUME NEW p \in Pods, PollFails(p) PROVE StoredInv'
  BY <1>9, <1>0 DEF PollFails, BetweenMails, Fault, ReleaseLeadership,
    LeaderUnlocked, StoredInv, HandlerTypes, MessageKnown, OutboxTypes,
    PublisherTypes, Locked
<1>10. ASSUME LeaderConnectionLost PROVE StoredInv'
  BY <1>10, <1>0 DEF LeaderConnectionLost, Fault, StoredInv, HandlerTypes,
    MessageKnown, OutboxTypes, PublisherTypes, Locked
<1>11. ASSUME NEW p \in Pods, SelectClaim(p) PROVE StoredInv'
  BY <1>11, <1>0 DEF SelectClaim, Refuse, Goto, NoFault, EndHandler, Unlocked,
    StoredInv, HandlerTypes, MessageKnown, OutboxTypes, PublisherTypes, Locked
<1>12. ASSUME NEW p \in Pods, InsertClaim(p) PROVE StoredInv'
  BY <1>12, <1>0 DEF InsertClaim, Refuse, Goto, AfterClaim, NoFault, EndHandler,
    Unlocked, StoredInv, HandlerTypes, MessageKnown, OutboxTypes, PublisherTypes, Locked
<1>13. ASSUME NEW p \in Pods, RetakeClaim(p) PROVE StoredInv'
  BY <1>13, <1>0 DEF RetakeClaim, Goto, AfterClaim, NoFault, StoredInv, HandlerTypes,
    MessageKnown, OutboxTypes, PublisherTypes, Locked
<1>14. ASSUME NEW p \in Pods, ClaimFails(p) PROVE StoredInv'
  BY <1>14, <1>0 DEF ClaimFails, Fault, Refuse, EndHandler, Unlocked, StoredInv,
    HandlerTypes, MessageKnown, OutboxTypes, PublisherTypes, Locked
<1>15. ASSUME NEW m \in Messages, Age(m) PROVE StoredInv'
  BY <1>15, <1>0 DEF Age, StoredInv, HandlerTypes, MessageKnown, OutboxTypes,
    PublisherTypes, Locked
<1>16. ASSUME NEW p \in Pods, Screen(p) PROVE StoredInv'
  BY <1>16, <1>0 DEF Screen, SlackScreen, MailScreen, TicketScreen, CommandScreen,
    Goto, NoFault, EndHandler, Unlocked, StoredInv, HandlerTypes, MessageKnown,
    OutboxTypes, PublisherTypes, Locked
<1>17. ASSUME NEW p \in Pods, CoolOff(p) PROVE StoredInv'
  BY <1>17, <1>0 DEF CoolOff, StoredInv, HandlerTypes, MessageKnown, OutboxTypes,
    PublisherTypes, Locked
<1>18. ASSUME NEW p \in Pods, UserUnresolved(p) PROVE StoredInv'
  BY <1>18, <1>0 DEF UserUnresolved, Fault, ErrorAcks, EndHandler, Unlocked,
    StoredInv, HandlerTypes, MessageKnown, OutboxTypes, PublisherTypes, Locked
<1>19. ASSUME NEW p \in Pods, AcquireLock(p) PROVE StoredInv'
  BY <1>19, <1>0 DEF AcquireLock, LockFree, Goto, StoredInv, HandlerTypes,
    MessageKnown, OutboxTypes, PublisherTypes, Locked
<1>20. ASSUME NEW p \in Pods, LockTimeout(p) PROVE StoredInv'
  BY <1>20, <1>0 DEF LockTimeout, LockFree, Fault, ErrorAcks, EndHandler, Unlocked,
    StoredInv, HandlerTypes, MessageKnown, OutboxTypes, PublisherTypes, Locked
<1>21. ASSUME LockConnectionLost PROVE StoredInv'
  BY <1>21, <1>0 DEF LockConnectionLost, Fault, StoredInv, HandlerTypes,
    MessageKnown, OutboxTypes, PublisherTypes, Locked
<1>22. ASSUME NEW p \in Pods, Anchor(p) PROVE StoredInv'
  BY <1>22, <1>0 DEF Anchor, ApplyAnchor, Goto, NoFault, EndHandler, Unlocked,
    StoredInv, HandlerTypes, MessageKnown, OutboxTypes, PublisherTypes, Locked
<1>23. ASSUME NEW p \in Pods, Insert(p) PROVE StoredInv'
  BY <1>23, <1>0 DEF Insert, InsertRow, Goto, NoFault, EndHandler, Unlocked,
    StoredInv, HandlerTypes, MessageKnown, OutboxTypes, PublisherTypes, Locked
<1>24. ASSUME NEW p \in Pods, InsertFails(p) PROVE StoredInv'
  BY <1>24, <1>0 DEF InsertFails, Fault, ErrorAcks, EndHandler, Unlocked, StoredInv,
    HandlerTypes, MessageKnown, OutboxTypes, PublisherTypes, Locked
<1>25. ASSUME NEW p \in Pods, Send(p) PROVE StoredInv'
  BY <1>25, <1>0 DEF Send, Accepted, Goto, NoFault, EndHandler, Unlocked, StoredInv,
    HandlerTypes, MessageKnown, OutboxTypes, PublisherTypes, Locked
<1>26. ASSUME NEW p \in Pods, Mark(p) PROVE StoredInv'
  BY <1>26, <1>0 DEF Mark, MarkedPublished, NoFault, EndHandler, Unlocked, StoredInv,
    HandlerTypes, MessageKnown, OutboxTypes, PublisherTypes, Locked
<1>27. ASSUME NEW p \in Pods, MarkFails(p) PROVE StoredInv'
  BY <1>27, <1>0 DEF MarkFails, MarkedPublished, Fault, ErrorAcks, EndHandler,
    Unlocked, StoredInv, HandlerTypes, MessageKnown, OutboxTypes, PublisherTypes, Locked
<1>28. ASSUME NEW p \in Pods, SelectBatch(p) PROVE StoredInv'
  BY <1>28, <1>0 DEF SelectBatch, Pending, StoredInv, HandlerTypes, MessageKnown,
    OutboxTypes, PublisherTypes, Locked
<1>29. ASSUME NEW p \in Pods, NEW m \in Messages, PublishRow(p, m) PROVE StoredInv'
  BY <1>29, <1>0 DEF PublishRow, First, Accepted, NoFault, Fault, StoredInv,
    HandlerTypes, MessageKnown, OutboxTypes, PublisherTypes, Locked
<1>30. ASSUME NEW p \in Pods, NEW m \in Messages, MarkPublished(p, m) PROVE StoredInv'
  BY <1>30, <1>0 DEF MarkPublished, NextRow, First, MarkedPublished, StoredInv,
    HandlerTypes, MessageKnown, OutboxTypes, PublisherTypes, Locked
<1>31. ASSUME NEW p \in Pods, MarkPublishedFails(p) PROVE StoredInv'
  BY <1>31, <1>0 DEF MarkPublishedFails, Fault, StoredInv, HandlerTypes,
    MessageKnown, OutboxTypes, PublisherTypes, Locked
<1>32. ASSUME NEW p \in Pods, NEW m \in Messages, MarkFailed(p, m) PROVE StoredInv'
  BY <1>32, <1>0 DEF MarkFailed, NextRow, First, AfterFailure, StoredInv,
    HandlerTypes, MessageKnown, OutboxTypes, PublisherTypes, Locked
<1>33. ASSUME NEW p \in Pods, NEW m \in Messages, MarkFailedFails(p, m) PROVE StoredInv'
  BY <1>33, <1>0 DEF MarkFailedFails, NoFault, NextRow, First, StoredInv,
    HandlerTypes, MessageKnown, OutboxTypes, PublisherTypes, Locked
<1>34. ASSUME NEW m \in Messages, Reset(m) PROVE StoredInv'
  BY <1>34, <1>0 DEF Reset, StoredInv, HandlerTypes, MessageKnown, OutboxTypes,
    PublisherTypes, Locked
<1>35. ASSUME NEW p \in Pods, Crash(p) PROVE StoredInv'
  BY <1>35, <1>0 DEF Crash, Fault, Unlocked, ReleaseLeadership, LeaderUnlocked,
    StoredInv, HandlerTypes, MessageKnown, OutboxTypes, PublisherTypes, Locked
<1>36. CASE UNCHANGED vars
  BY <1>36 DEF vars, StoredInv
<1> QED
  BY <1>1, <1>2, <1>3, <1>4, <1>5, <1>6, <1>7, <1>8, <1>9, <1>10, <1>11, <1>12,
    <1>13, <1>14, <1>15, <1>16, <1>17, <1>18, <1>19, <1>20, <1>21, <1>22, <1>23,
    <1>24, <1>25, <1>26, <1>27, <1>28, <1>29, <1>30, <1>31, <1>32, <1>33, <1>34,
    <1>35, <1>36 DEF Next, HandlerStep, LeaderStep, PublisherStep, Failure

\* Every step stores, delivers, gives up or resumes one message, or leaves the
\* outbox and the broker alone.
LEMMA OutboxNext == TypeInv /\ StoredInv /\ [Next]_vars => [Outbox!Next]_(Outbox!vars)
<1> SUFFICES ASSUME TypeInv, StoredInv, [Next]_vars PROVE [Outbox!Next]_(Outbox!vars)
  OBVIOUS
<1>0. HandlerTypes /\ MessageKnown /\ OutboxTypes /\ PublisherTypes
  BY DEF TypeInv
<1>a. UNCHANGED <<status, posted>> => UNCHANGED Outbox!vars
  BY DEF Outbox!vars
<1>1. ASSUME NEW p \in Pods, NEW m \in Messages, Webhook(p,
  m) PROVE [Outbox!Next]_(Outbox!vars)
  BY <1>1, <1>a DEF Webhook, Start, FirstStep
<1>2. ASSUME NEW p \in Pods, NEW m \in Messages, Command(p,
  m) PROVE [Outbox!Next]_(Outbox!vars)
  BY <1>2, <1>a DEF Command, SlashCommand, Start, FirstStep
<1>3. ASSUME NEW p \in Pods, NEW m \in Messages, Interact(p,
  m) PROVE [Outbox!Next]_(Outbox!vars)
  BY <1>3, <1>a DEF Interact, ShowSession, NewSession, Start, FirstStep
<1>4. ASSUME NEW m \in Messages, MailArrives(m) PROVE [Outbox!Next]_(Outbox!vars)
  BY <1>4, <1>a DEF MailArrives
<1>5. ASSUME NEW p \in Pods, BecomeLeader(p) PROVE [Outbox!Next]_(Outbox!vars)
  BY <1>5, <1>a DEF BecomeLeader
<1>6. ASSUME NEW p \in Pods, RenewFails(p) PROVE [Outbox!Next]_(Outbox!vars)
  BY <1>6, <1>a DEF RenewFails, BetweenMails, ReleaseLeadership, LeaderUnlocked
<1>7. ASSUME NEW p \in Pods, Poll(p) PROVE [Outbox!Next]_(Outbox!vars)
  BY <1>7, <1>a DEF Poll, BetweenMails, Unseen
<1>8. ASSUME NEW p \in Pods, NEW m \in Messages, NextMail(p,
  m) PROVE [Outbox!Next]_(Outbox!vars)
  BY <1>8, <1>a DEF NextMail, BetweenMails, Start, FirstStep
<1>9. ASSUME NEW p \in Pods, PollFails(p) PROVE [Outbox!Next]_(Outbox!vars)
  BY <1>9, <1>a DEF PollFails, BetweenMails, Fault, ReleaseLeadership, LeaderUnlocked
<1>10. ASSUME LeaderConnectionLost PROVE [Outbox!Next]_(Outbox!vars)
  BY <1>10, <1>a DEF LeaderConnectionLost, Fault
<1>11. ASSUME NEW p \in Pods, SelectClaim(p) PROVE [Outbox!Next]_(Outbox!vars)
  BY <1>11, <1>a DEF SelectClaim, Refuse, Goto, NoFault, EndHandler, Unlocked
<1>12. ASSUME NEW p \in Pods, InsertClaim(p) PROVE [Outbox!Next]_(Outbox!vars)
  BY <1>12, <1>a DEF InsertClaim, Refuse, Goto, AfterClaim, NoFault, EndHandler,
    Unlocked
<1>13. ASSUME NEW p \in Pods, RetakeClaim(p) PROVE [Outbox!Next]_(Outbox!vars)
  BY <1>13, <1>a DEF RetakeClaim, Goto, AfterClaim, NoFault
<1>14. ASSUME NEW p \in Pods, ClaimFails(p) PROVE [Outbox!Next]_(Outbox!vars)
  BY <1>14, <1>a DEF ClaimFails, Fault, Refuse, EndHandler, Unlocked
<1>15. ASSUME NEW m \in Messages, Age(m) PROVE [Outbox!Next]_(Outbox!vars)
  BY <1>15, <1>a DEF Age
<1>16. ASSUME NEW p \in Pods, Screen(p) PROVE [Outbox!Next]_(Outbox!vars)
  BY <1>16, <1>a DEF Screen, SlackScreen, MailScreen, TicketScreen, CommandScreen,
    Goto, NoFault, EndHandler, Unlocked
<1>17. ASSUME NEW p \in Pods, CoolOff(p) PROVE [Outbox!Next]_(Outbox!vars)
  BY <1>17, <1>a DEF CoolOff
<1>18. ASSUME NEW p \in Pods, UserUnresolved(p) PROVE [Outbox!Next]_(Outbox!vars)
  BY <1>18, <1>a DEF UserUnresolved, Fault, ErrorAcks, EndHandler, Unlocked
<1>19. ASSUME NEW p \in Pods, AcquireLock(p) PROVE [Outbox!Next]_(Outbox!vars)
  BY <1>19, <1>a DEF AcquireLock, LockFree, Goto
<1>20. ASSUME NEW p \in Pods, LockTimeout(p) PROVE [Outbox!Next]_(Outbox!vars)
  BY <1>20, <1>a DEF LockTimeout, LockFree, Fault, ErrorAcks, EndHandler, Unlocked
<1>21. ASSUME LockConnectionLost PROVE [Outbox!Next]_(Outbox!vars)
  BY <1>21, <1>a DEF LockConnectionLost, Fault
<1>22. ASSUME NEW p \in Pods, Anchor(p) PROVE [Outbox!Next]_(Outbox!vars)
  BY <1>22, <1>a DEF Anchor, ApplyAnchor, Goto, NoFault, EndHandler, Unlocked
<1>23. ASSUME NEW p \in Pods, Insert(p) PROVE [Outbox!Next]_(Outbox!vars)
  <2> DEFINE m == msg[p]
  <2>1. CASE status[m] # "none"
    BY <1>23, <1>a, <2>1 DEF Insert, InsertRow
  <2>2. CASE status[m] = "none"
    <3>1. m \in Messages /\ status' = [status EXCEPT ![m] = "pending"] /\ posted' = posted
      BY <1>23, <1>0, <2>2 DEF Insert, InsertRow, MessageKnown
    <3> HIDE DEF m
    <3> QED
      BY <1>0, <2>2, <3>1 DEF Outbox!Store, Outbox!Next, OutboxTypes
  <2> QED
    BY <2>1, <2>2
<1>24. ASSUME NEW p \in Pods, InsertFails(p) PROVE [Outbox!Next]_(Outbox!vars)
  BY <1>24, <1>a DEF InsertFails, Fault, ErrorAcks, EndHandler, Unlocked
<1>25. ASSUME NEW p \in Pods, Send(p) PROVE [Outbox!Next]_(Outbox!vars)
  <2>1. msg[p] \in Messages /\ status[msg[p]] # "none" /\ status' = status
    BY <1>25, <1>0 DEF Send, StoredInv, MessageKnown, PublisherTypes
  <2>2. posted' = posted \/ posted' = posted \union {msg[p]}
    BY <1>25 DEF Send, Accepted
  <2>3. CASE posted' = posted
    BY <1>a, <2>1, <2>3
  <2>4. CASE posted' = posted \union {msg[p]}
    BY <2>1, <2>4 DEF Outbox!Deliver, Outbox!Next
  <2> QED
    BY <2>2, <2>3, <2>4
<1>26. ASSUME NEW p \in Pods, Mark(p) PROVE [Outbox!Next]_(Outbox!vars)
  <2> DEFINE n == msg[p]
  <2>1. n \in Messages /\ status[n] # "none" /\ posted' = posted
    BY <1>26, <1>0 DEF Mark, StoredInv, MessageKnown
  <2>2. status' \in {status, [status EXCEPT ![n] = "published"]}
    BY <1>26 DEF Mark, MarkedPublished
  <2>3. CASE status[n] = "exhausted" /\ status' # status
    BY <1>0, <2>1, <2>2, <2>3 DEF Outbox!Resume, Outbox!Next, OutboxTypes
  <2>4. CASE status[n] # "exhausted" \/ status' = status
    BY <1>0, <2>1, <2>2, <2>4 DEF Outbox!vars, OutboxTypes
  <2> QED
    BY <2>3, <2>4
<1>27. ASSUME NEW p \in Pods, MarkFails(p) PROVE [Outbox!Next]_(Outbox!vars)
  <2> DEFINE n == msg[p]
  <2>1. n \in Messages /\ status[n] # "none" /\ posted' = posted
    BY <1>27, <1>0 DEF MarkFails, StoredInv, MessageKnown
  <2>2. status' \in {status, [status EXCEPT ![n] = "published"]}
    BY <1>27 DEF MarkFails, MarkedPublished
  <2>3. CASE status[n] = "exhausted" /\ status' # status
    BY <1>0, <2>1, <2>2, <2>3 DEF Outbox!Resume, Outbox!Next, OutboxTypes
  <2>4. CASE status[n] # "exhausted" \/ status' = status
    BY <1>0, <2>1, <2>2, <2>4 DEF Outbox!vars, OutboxTypes
  <2> QED
    BY <2>3, <2>4
<1>28. ASSUME NEW p \in Pods, SelectBatch(p) PROVE [Outbox!Next]_(Outbox!vars)
  BY <1>28, <1>a DEF SelectBatch, Pending
<1>29. ASSUME NEW p \in Pods, NEW m \in Messages, PublishRow(p,
  m) PROVE [Outbox!Next]_(Outbox!vars)
  <2>1. m \in Messages /\ status[m] # "none" /\ status' = status
    BY <1>29, <1>0 DEF PublishRow, First, StoredInv, MessageKnown, PublisherTypes
  <2>2. posted' = posted \/ posted' = posted \union {m}
    BY <1>29 DEF PublishRow, Accepted
  <2>3. CASE posted' = posted
    BY <1>a, <2>1, <2>3
  <2>4. CASE posted' = posted \union {m}
    BY <2>1, <2>4 DEF Outbox!Deliver, Outbox!Next
  <2> QED
    BY <2>2, <2>3, <2>4
<1>30. ASSUME NEW p \in Pods, NEW m \in Messages, MarkPublished(p,
  m) PROVE [Outbox!Next]_(Outbox!vars)
  <2> DEFINE n == m
  <2>1. n \in Messages /\ status[n] # "none" /\ posted' = posted
    BY <1>30, <1>0 DEF MarkPublished, NextRow, First, StoredInv, MessageKnown
  <2>2. status' \in {status, [status EXCEPT ![n] = "published"]}
    BY <1>30 DEF MarkPublished, MarkedPublished
  <2>3. CASE status[n] = "exhausted" /\ status' # status
    BY <1>0, <2>1, <2>2, <2>3 DEF Outbox!Resume, Outbox!Next, OutboxTypes
  <2>4. CASE status[n] # "exhausted" \/ status' = status
    BY <1>0, <2>1, <2>2, <2>4 DEF Outbox!vars, OutboxTypes
  <2> QED
    BY <2>3, <2>4
<1>31. ASSUME NEW p \in Pods, MarkPublishedFails(p) PROVE [Outbox!Next]_(Outbox!vars)
  BY <1>31, <1>a DEF MarkPublishedFails, Fault
<1>32. ASSUME NEW p \in Pods, NEW m \in Messages, MarkFailed(p,
  m) PROVE [Outbox!Next]_(Outbox!vars)
  <2>1. status[m] # "none" /\ posted' = posted
    BY <1>32, <1>0 DEF MarkFailed, NextRow, First, StoredInv
  <2>2. status' = status \/ status' = [status EXCEPT ![m] = "exhausted"]
    BY <1>32, <1>0 DEF MarkFailed, AfterFailure, OutboxTypes
  <2>3. CASE status' = status
    BY <1>a, <2>1, <2>3
  <2>4. CASE status' = [status EXCEPT ![m] = "exhausted"]
    BY <1>0, <2>1, <2>4 DEF Outbox!GiveUp, Outbox!Next, OutboxTypes
  <2> QED
    BY <2>2, <2>3, <2>4
<1>33. ASSUME NEW p \in Pods, NEW m \in Messages, MarkFailedFails(p,
  m) PROVE [Outbox!Next]_(Outbox!vars)
  BY <1>33, <1>a DEF MarkFailedFails, NoFault, NextRow, First
<1>34. ASSUME NEW m \in Messages, Reset(m) PROVE [Outbox!Next]_(Outbox!vars)
  BY <1>34, <1>0 DEF Reset, Outbox!Resume, Outbox!Next, OutboxTypes
<1>35. ASSUME NEW p \in Pods, Crash(p) PROVE [Outbox!Next]_(Outbox!vars)
  BY <1>35, <1>a DEF Crash, Fault, Unlocked, ReleaseLeadership, LeaderUnlocked
<1>36. CASE UNCHANGED vars
  BY <1>36, <1>a DEF vars
<1> QED
  BY <1>1, <1>2, <1>3, <1>4, <1>5, <1>6, <1>7, <1>8, <1>9, <1>10, <1>11, <1>12,
    <1>13, <1>14, <1>15, <1>16, <1>17, <1>18, <1>19, <1>20, <1>21, <1>22, <1>23,
    <1>24, <1>25, <1>26, <1>27, <1>28, <1>29, <1>30, <1>31, <1>32, <1>33, <1>34,
    <1>35, <1>36 DEF Next, HandlerStep, LeaderStep, PublisherStep, Failure

\* The dispatcher implements the promise of the outbox: nothing reaches the broker
\* that is not stored, and what was delivered stays so, however handlers,
\* publishers and faults interleave.
THEOREM OutboxKept == Spec => ImplementsOutbox
<1>1. Init => Outbox!Init
  BY DEF Init, Outbox!Init
<1> QED
  BY <1>1, TypeInit, TypeNext, StoredInit, StoredNext, OutboxNext, PTL
  DEF Spec, ImplementsOutbox, Outbox!Spec

-----------------------------------------------------------------------------
(***************************************************************************)
(* Nothing that was acknowledged is lost.  Inductive is that a request     *)
(* whose claim was taken is safe or in the hands of a handler that has     *)
(* passed the claim: a claim outlives its handler, and whoever meets it    *)
(* answers for a message he has never seen.                                *)
(***************************************************************************)
Safe(m) == status[m] # "none" \/ m \in dropped \/ m \in harmed

\* Where a handler has the claim, or needs none.
Held == Locked \union (IF channel = "email" THEN {"lock"} ELSE {"lock", "screen"})
Working(m) == \E p \in Pods : msg[p] = m /\ pc[p] \in Held

TakenInv ==
  \A m \in Messages :
    kind[m] = "request" /\ (m \in acked \/ claim[m] # "none") => Safe(m) \/ Working(m)

LEMMA TakenInit == Init => TakenInv
BY DEF Init, TakenInv

LEMMA TakenNext ==
  TypeInv /\ StoredInv /\ TakenInv /\ [Next]_vars => TakenInv'
<1> SUFFICES ASSUME TypeInv, StoredInv, TakenInv, [Next]_vars PROVE TakenInv'
  OBVIOUS
<1>0. HandlerTypes /\ MessageKnown /\ OutboxTypes /\ PublisherTypes
  BY DEF TypeInv
<1>a. claim \in [Messages -> {"none", "fresh", "stale"}]
  BY DEF TypeInv, InboundTypes
<1>1. ASSUME NEW p \in Pods, NEW m \in Messages, Webhook(p, m) PROVE TakenInv'
  BY <1>1, <1>0, <1>a DEF Webhook, Start, FirstStep, HandlerTypes, MessageKnown,
    OutboxTypes, PublisherTypes, StoredInv, Locked, ErrorAcks, TakenInv, Safe,
    Working, Held
<1>2. ASSUME NEW p \in Pods, NEW m \in Messages, Command(p, m) PROVE TakenInv'
  BY <1>2, <1>0, <1>a DEF Command, SlashCommand, Start, FirstStep, HandlerTypes,
    MessageKnown, OutboxTypes, PublisherTypes, StoredInv, Locked, ErrorAcks,
    TakenInv, Safe, Working, Held
<1>3. ASSUME NEW p \in Pods, NEW m \in Messages, Interact(p, m) PROVE TakenInv'
  BY <1>3, <1>0, <1>a DEF Interact, ShowSession, NewSession, Start, FirstStep,
    HandlerTypes, MessageKnown, OutboxTypes, PublisherTypes, StoredInv, Locked,
    ErrorAcks, TakenInv, Safe, Working, Held
<1>4. ASSUME NEW m \in Messages, MailArrives(m) PROVE TakenInv'
  BY <1>4, <1>0, <1>a DEF MailArrives, HandlerTypes, MessageKnown, OutboxTypes,
    PublisherTypes, StoredInv, Locked, ErrorAcks, TakenInv, Safe, Working, Held
<1>5. ASSUME NEW p \in Pods, BecomeLeader(p) PROVE TakenInv'
  BY <1>5, <1>0, <1>a DEF BecomeLeader, HandlerTypes, MessageKnown, OutboxTypes,
    PublisherTypes, StoredInv, Locked, ErrorAcks, TakenInv, Safe, Working, Held
<1>6. ASSUME NEW p \in Pods, RenewFails(p) PROVE TakenInv'
  BY <1>6, <1>0, <1>a DEF RenewFails, BetweenMails, ReleaseLeadership,
    LeaderUnlocked, HandlerTypes, MessageKnown, OutboxTypes, PublisherTypes,
    StoredInv, Locked, ErrorAcks, TakenInv, Safe, Working, Held
<1>7. ASSUME NEW p \in Pods, Poll(p) PROVE TakenInv'
  BY <1>7, <1>0, <1>a DEF Poll, BetweenMails, Unseen, HandlerTypes, MessageKnown,
    OutboxTypes, PublisherTypes, StoredInv, Locked, ErrorAcks, TakenInv, Safe,
    Working, Held
<1>8. ASSUME NEW p \in Pods, NEW m \in Messages, NextMail(p, m) PROVE TakenInv'
  BY <1>8, <1>0, <1>a DEF NextMail, BetweenMails, Start, FirstStep, HandlerTypes,
    MessageKnown, OutboxTypes, PublisherTypes, StoredInv, Locked, ErrorAcks,
    TakenInv, Safe, Working, Held
<1>9. ASSUME NEW p \in Pods, PollFails(p) PROVE TakenInv'
  BY <1>9, <1>0, <1>a DEF PollFails, BetweenMails, Fault, ReleaseLeadership,
    LeaderUnlocked, HandlerTypes, MessageKnown, OutboxTypes, PublisherTypes,
    StoredInv, Locked, ErrorAcks, TakenInv, Safe, Working, Held
<1>10. ASSUME LeaderConnectionLost PROVE TakenInv'
  BY <1>10, <1>0, <1>a DEF LeaderConnectionLost, Fault, HandlerTypes, MessageKnown,
    OutboxTypes, PublisherTypes, StoredInv, Locked, ErrorAcks, TakenInv, Safe,
    Working, Held
<1>11. ASSUME NEW p \in Pods, SelectClaim(p) PROVE TakenInv'
  BY <1>11, <1>0, <1>a DEF SelectClaim, Refuse, Goto, NoFault, EndHandler, Unlocked,
    HandlerTypes, MessageKnown, OutboxTypes, PublisherTypes, StoredInv, Locked,
    ErrorAcks, TakenInv, Safe, Working, Held
<1>12. ASSUME NEW p \in Pods, InsertClaim(p) PROVE TakenInv'
  BY <1>12, <1>0, <1>a DEF InsertClaim, Refuse, Goto, AfterClaim, NoFault,
    EndHandler, Unlocked, HandlerTypes, MessageKnown, OutboxTypes, PublisherTypes,
    StoredInv, Locked, ErrorAcks, TakenInv, Safe, Working, Held
<1>13. ASSUME NEW p \in Pods, RetakeClaim(p) PROVE TakenInv'
  BY <1>13, <1>0, <1>a DEF RetakeClaim, Goto, AfterClaim, NoFault, HandlerTypes,
    MessageKnown, OutboxTypes, PublisherTypes, StoredInv, Locked, ErrorAcks,
    TakenInv, Safe, Working, Held
<1>14. ASSUME NEW p \in Pods, ClaimFails(p) PROVE TakenInv'
  BY <1>14, <1>0, <1>a DEF ClaimFails, Fault, Refuse, EndHandler, Unlocked,
    HandlerTypes, MessageKnown, OutboxTypes, PublisherTypes, StoredInv, Locked,
    ErrorAcks, TakenInv, Safe, Working, Held
<1>15. ASSUME NEW m \in Messages, Age(m) PROVE TakenInv'
  BY <1>15, <1>0, <1>a DEF Age, HandlerTypes, MessageKnown, OutboxTypes,
    PublisherTypes, StoredInv, Locked, ErrorAcks, TakenInv, Safe, Working, Held
<1>16. ASSUME NEW p \in Pods, Screen(p) PROVE TakenInv'
  BY <1>16, <1>0, <1>a DEF Screen, SlackScreen, MailScreen, TicketScreen,
    CommandScreen, Goto, NoFault, EndHandler, Unlocked, HandlerTypes, MessageKnown,
    OutboxTypes, PublisherTypes, StoredInv, Locked, ErrorAcks, TakenInv, Safe,
    Working, Held
<1>17. ASSUME NEW p \in Pods, CoolOff(p) PROVE TakenInv'
  BY <1>17, <1>0, <1>a DEF CoolOff, HandlerTypes, MessageKnown, OutboxTypes,
    PublisherTypes, StoredInv, Locked, ErrorAcks, TakenInv, Safe, Working, Held
<1>18. ASSUME NEW p \in Pods, UserUnresolved(p) PROVE TakenInv'
  BY <1>18, <1>0, <1>a DEF UserUnresolved, Fault, ErrorAcks, EndHandler, Unlocked,
    HandlerTypes, MessageKnown, OutboxTypes, PublisherTypes, StoredInv, Locked,
    ErrorAcks, TakenInv, Safe, Working, Held
<1>19. ASSUME NEW p \in Pods, AcquireLock(p) PROVE TakenInv'
  BY <1>19, <1>0, <1>a DEF AcquireLock, LockFree, Goto, HandlerTypes, MessageKnown,
    OutboxTypes, PublisherTypes, StoredInv, Locked, ErrorAcks, TakenInv, Safe,
    Working, Held
<1>20. ASSUME NEW p \in Pods, LockTimeout(p) PROVE TakenInv'
  BY <1>20, <1>0, <1>a DEF LockTimeout, LockFree, Fault, ErrorAcks, EndHandler,
    Unlocked, HandlerTypes, MessageKnown, OutboxTypes, PublisherTypes, StoredInv,
    Locked, ErrorAcks, TakenInv, Safe, Working, Held
<1>21. ASSUME LockConnectionLost PROVE TakenInv'
  BY <1>21, <1>0, <1>a DEF LockConnectionLost, Fault, HandlerTypes, MessageKnown,
    OutboxTypes, PublisherTypes, StoredInv, Locked, ErrorAcks, TakenInv, Safe,
    Working, Held
<1>22. ASSUME NEW p \in Pods, Anchor(p) PROVE TakenInv'
  BY <1>22, <1>0, <1>a DEF Anchor, ApplyAnchor, Goto, NoFault, EndHandler, Unlocked,
    HandlerTypes, MessageKnown, OutboxTypes, PublisherTypes, StoredInv, Locked,
    ErrorAcks, TakenInv, Safe, Working, Held
<1>23. ASSUME NEW p \in Pods, Insert(p) PROVE TakenInv'
  BY <1>23, <1>0, <1>a DEF Insert, InsertRow, Goto, NoFault, EndHandler, Unlocked,
    HandlerTypes, MessageKnown, OutboxTypes, PublisherTypes, StoredInv, Locked,
    ErrorAcks, TakenInv, Safe, Working, Held
<1>24. ASSUME NEW p \in Pods, InsertFails(p) PROVE TakenInv'
  BY <1>24, <1>0, <1>a DEF InsertFails, Fault, ErrorAcks, EndHandler, Unlocked,
    HandlerTypes, MessageKnown, OutboxTypes, PublisherTypes, StoredInv, Locked,
    ErrorAcks, TakenInv, Safe, Working, Held
<1>25. ASSUME NEW p \in Pods, Send(p) PROVE TakenInv'
  BY <1>25, <1>0, <1>a DEF Send, Accepted, Goto, NoFault, EndHandler, Unlocked,
    HandlerTypes, MessageKnown, OutboxTypes, PublisherTypes, StoredInv, Locked,
    ErrorAcks, TakenInv, Safe, Working, Held
<1>26. ASSUME NEW p \in Pods, Mark(p) PROVE TakenInv'
  BY <1>26, <1>0, <1>a DEF Mark, MarkedPublished, NoFault, EndHandler, Unlocked,
    HandlerTypes, MessageKnown, OutboxTypes, PublisherTypes, StoredInv, Locked,
    ErrorAcks, TakenInv, Safe, Working, Held
<1>27. ASSUME NEW p \in Pods, MarkFails(p) PROVE TakenInv'
  BY <1>27, <1>0, <1>a DEF MarkFails, MarkedPublished, Fault, ErrorAcks, EndHandler,
    Unlocked, HandlerTypes, MessageKnown, OutboxTypes, PublisherTypes, StoredInv,
    Locked, ErrorAcks, TakenInv, Safe, Working, Held
<1>28. ASSUME NEW p \in Pods, SelectBatch(p) PROVE TakenInv'
  BY <1>28, <1>0, <1>a DEF SelectBatch, Pending, HandlerTypes, MessageKnown,
    OutboxTypes, PublisherTypes, StoredInv, Locked, ErrorAcks, TakenInv, Safe,
    Working, Held
<1>29. ASSUME NEW p \in Pods, NEW m \in Messages, PublishRow(p, m) PROVE TakenInv'
  BY <1>29, <1>0, <1>a DEF PublishRow, First, Accepted, NoFault, Fault, HandlerTypes,
    MessageKnown, OutboxTypes, PublisherTypes, StoredInv, Locked, ErrorAcks,
    TakenInv, Safe, Working, Held
<1>30. ASSUME NEW p \in Pods, NEW m \in Messages, MarkPublished(p, m) PROVE TakenInv'
  BY <1>30, <1>0, <1>a DEF MarkPublished, NextRow, First, MarkedPublished,
    HandlerTypes, MessageKnown, OutboxTypes, PublisherTypes, StoredInv, Locked,
    ErrorAcks, TakenInv, Safe, Working, Held
<1>31. ASSUME NEW p \in Pods, MarkPublishedFails(p) PROVE TakenInv'
  BY <1>31, <1>0, <1>a DEF MarkPublishedFails, Fault, HandlerTypes, MessageKnown,
    OutboxTypes, PublisherTypes, StoredInv, Locked, ErrorAcks, TakenInv, Safe,
    Working, Held
<1>32. ASSUME NEW p \in Pods, NEW m \in Messages, MarkFailed(p, m) PROVE TakenInv'
  BY <1>32, <1>0, <1>a DEF MarkFailed, NextRow, First, AfterFailure, HandlerTypes,
    MessageKnown, OutboxTypes, PublisherTypes, StoredInv, Locked, ErrorAcks,
    TakenInv, Safe, Working, Held
<1>33. ASSUME NEW p \in Pods, NEW m \in Messages, MarkFailedFails(p, m) PROVE TakenInv'
  BY <1>33, <1>0, <1>a DEF MarkFailedFails, NoFault, NextRow, First, HandlerTypes,
    MessageKnown, OutboxTypes, PublisherTypes, StoredInv, Locked, ErrorAcks,
    TakenInv, Safe, Working, Held
<1>34. ASSUME NEW m \in Messages, Reset(m) PROVE TakenInv'
  BY <1>34, <1>0, <1>a DEF Reset, HandlerTypes, MessageKnown, OutboxTypes,
    PublisherTypes, StoredInv, Locked, ErrorAcks, TakenInv, Safe, Working, Held
<1>35. ASSUME NEW p \in Pods, Crash(p) PROVE TakenInv'
  BY <1>35, <1>0, <1>a DEF Crash, Fault, Unlocked, ReleaseLeadership, LeaderUnlocked,
    HandlerTypes, MessageKnown, OutboxTypes, PublisherTypes, StoredInv, Locked,
    ErrorAcks, TakenInv, Safe, Working, Held
<1>36. CASE UNCHANGED vars
  BY <1>36 DEF vars, TakenInv, Safe, Working, Held
<1> QED
  BY <1>1, <1>2, <1>3, <1>4, <1>5, <1>6, <1>7, <1>8, <1>9, <1>10, <1>11, <1>12,
    <1>13, <1>14, <1>15, <1>16, <1>17, <1>18, <1>19, <1>20, <1>21, <1>22, <1>23,
    <1>24, <1>25, <1>26, <1>27, <1>28, <1>29, <1>30, <1>31, <1>32, <1>33, <1>34,
    <1>35, <1>36 DEF Next, HandlerStep, LeaderStep, PublisherStep, Failure

\* What was answered 200 to Slack or Zammad, or flagged as seen, is in the outbox or
\* dropped on purpose, its handler is at work, or a fault has cut it short.
THEOREM AckedNotLost == Spec => []AckedIsStored
<1>1. \A m \in Messages : Working(m) => Served(m)
  BY DEF Working, Held, Served, Locked
<1>2. TypeInv /\ TakenInv => AckedIsStored
  BY <1>1 DEF TypeInv, InboundTypes, TakenInv, AckedIsStored, Safe
<1> QED
  BY <1>2, TypeInit, TypeNext, StoredInit, StoredNext, TakenInit, TakenNext, PTL
  DEF Spec

-----------------------------------------------------------------------------
(***************************************************************************)
(* The order of a thread.  A message in the outbox that the broker has not *)
(* got is still with the handler that stored it, under the lock, or its    *)
(* handling was cut short; so no later message is stored beside it.        *)
(***************************************************************************)
\* Whom no fault has hit is in the critical section only with the lock.
LockInv == \A p \in Pods : pc[p] \in Locked => lock = p \/ msg[p] \in harmed

UnderWay(m) == \E p \in Pods : pc[p] = "send" /\ msg[p] = m
SendInv ==
  \A m \in Messages : status[m] # "none" => m \in posted \/ m \in harmed \/ UnderWay(m)

ClockInv == \A m \in Messages : createdAt[m] <= clock

FifoInv ==
  \A m, n \in Messages :
    status[m] # "none" /\ createdAt[m] < createdAt[n]
      => m \in posted \/ m \in harmed \/ n \in harmed

OrderInv == LockInv /\ SendInv /\ ClockInv /\ FifoInv

LEMMA OrderInit == Init => OrderInv
BY DEF Init, OrderInv, LockInv, SendInv, ClockInv, FifoInv, Locked

LEMMA OrderNext ==
  TypeInv /\ StoredInv /\ OrderInv /\ [Next]_vars => OrderInv'
<1> SUFFICES ASSUME TypeInv, StoredInv, OrderInv, [Next]_vars PROVE OrderInv'
  OBVIOUS
<1>0. HandlerTypes /\ MessageKnown /\ OutboxTypes /\ PublisherTypes
  BY DEF TypeInv
<1>a. LockInv /\ SendInv /\ ClockInv /\ FifoInv
  BY DEF OrderInv
<1>1. ASSUME NEW p \in Pods, NEW m \in Messages, Webhook(p, m) PROVE OrderInv'
  <2>1. LockInv'
    BY <1>1, <1>0, <1>a DEF Webhook, Start, FirstStep, LockInv, HandlerTypes,
      MessageKnown, Locked
  <2>2. SendInv'
    BY <1>1, <1>0, <1>a DEF Webhook, Start, FirstStep, SendInv, UnderWay,
      HandlerTypes, MessageKnown, OutboxTypes
  <2>3. ClockInv'
    BY <1>1, <1>0, <1>a DEF Webhook, Start, FirstStep, ClockInv, OutboxTypes,
      HandlerTypes, MessageKnown
  <2>4. FifoInv'
    BY <1>1, <1>0, <1>a DEF Webhook, Start, FirstStep, FifoInv, OutboxTypes,
      MessageKnown, StoredInv, ClockInv
  <2> QED
    BY <2>1, <2>2, <2>3, <2>4 DEF OrderInv
<1>2. ASSUME NEW p \in Pods, NEW m \in Messages, Command(p, m) PROVE OrderInv'
  <2>1. LockInv'
    BY <1>2, <1>0, <1>a DEF Command, SlashCommand, Start, FirstStep, LockInv,
      HandlerTypes, MessageKnown, Locked
  <2>2. SendInv'
    BY <1>2, <1>0, <1>a DEF Command, SlashCommand, Start, FirstStep, SendInv,
      UnderWay, HandlerTypes, MessageKnown, OutboxTypes
  <2>3. ClockInv'
    BY <1>2, <1>0, <1>a DEF Command, SlashCommand, Start, FirstStep, ClockInv,
      OutboxTypes, HandlerTypes, MessageKnown
  <2>4. FifoInv'
    BY <1>2, <1>0, <1>a DEF Command, SlashCommand, Start, FirstStep, FifoInv,
      OutboxTypes, MessageKnown, StoredInv, ClockInv
  <2> QED
    BY <2>1, <2>2, <2>3, <2>4 DEF OrderInv
<1>3. ASSUME NEW p \in Pods, NEW m \in Messages, Interact(p, m) PROVE OrderInv'
  <2>1. LockInv'
    BY <1>3, <1>0, <1>a DEF Interact, ShowSession, NewSession, Start, FirstStep,
      LockInv, HandlerTypes, MessageKnown, Locked
  <2>2. SendInv'
    BY <1>3, <1>0, <1>a DEF Interact, ShowSession, NewSession, Start, FirstStep,
      SendInv, UnderWay, HandlerTypes, MessageKnown, OutboxTypes
  <2>3. ClockInv'
    BY <1>3, <1>0, <1>a DEF Interact, ShowSession, NewSession, Start, FirstStep,
      ClockInv, OutboxTypes, HandlerTypes, MessageKnown
  <2>4. FifoInv'
    BY <1>3, <1>0, <1>a DEF Interact, ShowSession, NewSession, Start, FirstStep,
      FifoInv, OutboxTypes, MessageKnown, StoredInv, ClockInv
  <2> QED
    BY <2>1, <2>2, <2>3, <2>4 DEF OrderInv
<1>4. ASSUME NEW m \in Messages, MailArrives(m) PROVE OrderInv'
  <2>1. LockInv'
    BY <1>4, <1>0, <1>a DEF MailArrives, LockInv, HandlerTypes, MessageKnown, Locked
  <2>2. SendInv'
    BY <1>4, <1>0, <1>a DEF MailArrives, SendInv, UnderWay, HandlerTypes,
      MessageKnown, OutboxTypes
  <2>3. ClockInv'
    BY <1>4, <1>0, <1>a DEF MailArrives, ClockInv, OutboxTypes, HandlerTypes,
      MessageKnown
  <2>4. FifoInv'
    BY <1>4, <1>0, <1>a DEF MailArrives, FifoInv, OutboxTypes, MessageKnown,
      StoredInv, ClockInv
  <2> QED
    BY <2>1, <2>2, <2>3, <2>4 DEF OrderInv
<1>5. ASSUME NEW p \in Pods, BecomeLeader(p) PROVE OrderInv'
  <2>1. LockInv'
    BY <1>5, <1>0, <1>a DEF BecomeLeader, LockInv, HandlerTypes, MessageKnown, Locked
  <2>2. SendInv'
    BY <1>5, <1>0, <1>a DEF BecomeLeader, SendInv, UnderWay, HandlerTypes,
      MessageKnown, OutboxTypes
  <2>3. ClockInv'
    BY <1>5, <1>0, <1>a DEF BecomeLeader, ClockInv, OutboxTypes, HandlerTypes,
      MessageKnown
  <2>4. FifoInv'
    BY <1>5, <1>0, <1>a DEF BecomeLeader, FifoInv, OutboxTypes, MessageKnown,
      StoredInv, ClockInv
  <2> QED
    BY <2>1, <2>2, <2>3, <2>4 DEF OrderInv
<1>6. ASSUME NEW p \in Pods, RenewFails(p) PROVE OrderInv'
  <2>1. LockInv'
    BY <1>6, <1>0, <1>a DEF RenewFails, BetweenMails, ReleaseLeadership,
      LeaderUnlocked, LockInv, HandlerTypes, MessageKnown, Locked
  <2>2. SendInv'
    BY <1>6, <1>0, <1>a DEF RenewFails, BetweenMails, ReleaseLeadership,
      LeaderUnlocked, SendInv, UnderWay, HandlerTypes, MessageKnown, OutboxTypes
  <2>3. ClockInv'
    BY <1>6, <1>0, <1>a DEF RenewFails, BetweenMails, ReleaseLeadership,
      LeaderUnlocked, ClockInv, OutboxTypes, HandlerTypes, MessageKnown
  <2>4. FifoInv'
    BY <1>6, <1>0, <1>a DEF RenewFails, BetweenMails, ReleaseLeadership,
      LeaderUnlocked, FifoInv, OutboxTypes, MessageKnown, StoredInv, ClockInv
  <2> QED
    BY <2>1, <2>2, <2>3, <2>4 DEF OrderInv
<1>7. ASSUME NEW p \in Pods, Poll(p) PROVE OrderInv'
  <2>1. LockInv'
    BY <1>7, <1>0, <1>a DEF Poll, BetweenMails, Unseen, LockInv, HandlerTypes,
      MessageKnown, Locked
  <2>2. SendInv'
    BY <1>7, <1>0, <1>a DEF Poll, BetweenMails, Unseen, SendInv, UnderWay,
      HandlerTypes, MessageKnown, OutboxTypes
  <2>3. ClockInv'
    BY <1>7, <1>0, <1>a DEF Poll, BetweenMails, Unseen, ClockInv, OutboxTypes,
      HandlerTypes, MessageKnown
  <2>4. FifoInv'
    BY <1>7, <1>0, <1>a DEF Poll, BetweenMails, Unseen, FifoInv, OutboxTypes,
      MessageKnown, StoredInv, ClockInv
  <2> QED
    BY <2>1, <2>2, <2>3, <2>4 DEF OrderInv
<1>8. ASSUME NEW p \in Pods, NEW m \in Messages, NextMail(p, m) PROVE OrderInv'
  <2>1. LockInv'
    BY <1>8, <1>0, <1>a DEF NextMail, BetweenMails, Start, FirstStep, LockInv,
      HandlerTypes, MessageKnown, Locked
  <2>2. SendInv'
    BY <1>8, <1>0, <1>a DEF NextMail, BetweenMails, Start, FirstStep, SendInv,
      UnderWay, HandlerTypes, MessageKnown, OutboxTypes
  <2>3. ClockInv'
    BY <1>8, <1>0, <1>a DEF NextMail, BetweenMails, Start, FirstStep, ClockInv,
      OutboxTypes, HandlerTypes, MessageKnown
  <2>4. FifoInv'
    BY <1>8, <1>0, <1>a DEF NextMail, BetweenMails, Start, FirstStep, FifoInv,
      OutboxTypes, MessageKnown, StoredInv, ClockInv
  <2> QED
    BY <2>1, <2>2, <2>3, <2>4 DEF OrderInv
<1>9. ASSUME NEW p \in Pods, PollFails(p) PROVE OrderInv'
  <2>1. LockInv'
    BY <1>9, <1>0, <1>a DEF PollFails, BetweenMails, Fault, ReleaseLeadership,
      LeaderUnlocked, LockInv, HandlerTypes, MessageKnown, Locked
  <2>2. SendInv'
    BY <1>9, <1>0, <1>a DEF PollFails, BetweenMails, Fault, ReleaseLeadership,
      LeaderUnlocked, SendInv, UnderWay, HandlerTypes, MessageKnown, OutboxTypes
  <2>3. ClockInv'
    BY <1>9, <1>0, <1>a DEF PollFails, BetweenMails, Fault, ReleaseLeadership,
      LeaderUnlocked, ClockInv, OutboxTypes, HandlerTypes, MessageKnown
  <2>4. FifoInv'
    BY <1>9, <1>0, <1>a DEF PollFails, BetweenMails, Fault, ReleaseLeadership,
      LeaderUnlocked, FifoInv, OutboxTypes, MessageKnown, StoredInv, ClockInv
  <2> QED
    BY <2>1, <2>2, <2>3, <2>4 DEF OrderInv
<1>10. ASSUME LeaderConnectionLost PROVE OrderInv'
  <2>1. LockInv'
    BY <1>10, <1>0, <1>a DEF LeaderConnectionLost, Fault, LockInv, HandlerTypes,
      MessageKnown, Locked
  <2>2. SendInv'
    BY <1>10, <1>0, <1>a DEF LeaderConnectionLost, Fault, SendInv, UnderWay,
      HandlerTypes, MessageKnown, OutboxTypes
  <2>3. ClockInv'
    BY <1>10, <1>0, <1>a DEF LeaderConnectionLost, Fault, ClockInv, OutboxTypes,
      HandlerTypes, MessageKnown
  <2>4. FifoInv'
    BY <1>10, <1>0, <1>a DEF LeaderConnectionLost, Fault, FifoInv, OutboxTypes,
      MessageKnown, StoredInv, ClockInv
  <2> QED
    BY <2>1, <2>2, <2>3, <2>4 DEF OrderInv
<1>11. ASSUME NEW p \in Pods, SelectClaim(p) PROVE OrderInv'
  <2>1. LockInv'
    BY <1>11, <1>0, <1>a DEF SelectClaim, Refuse, Goto, NoFault, EndHandler,
      Unlocked, LockInv, HandlerTypes, MessageKnown, Locked
  <2>2. SendInv'
    BY <1>11, <1>0, <1>a DEF SelectClaim, Refuse, Goto, NoFault, EndHandler,
      Unlocked, SendInv, UnderWay, HandlerTypes, MessageKnown, OutboxTypes
  <2>3. ClockInv'
    BY <1>11, <1>0, <1>a DEF SelectClaim, Refuse, Goto, NoFault, EndHandler,
      Unlocked, ClockInv, OutboxTypes, HandlerTypes, MessageKnown
  <2>4. FifoInv'
    BY <1>11, <1>0, <1>a DEF SelectClaim, Refuse, Goto, NoFault, EndHandler,
      Unlocked, FifoInv, OutboxTypes, MessageKnown, StoredInv, ClockInv
  <2> QED
    BY <2>1, <2>2, <2>3, <2>4 DEF OrderInv
<1>12. ASSUME NEW p \in Pods, InsertClaim(p) PROVE OrderInv'
  <2>1. LockInv'
    BY <1>12, <1>0, <1>a DEF InsertClaim, Refuse, Goto, AfterClaim, NoFault,
      EndHandler, Unlocked, LockInv, HandlerTypes, MessageKnown, Locked
  <2>2. SendInv'
    BY <1>12, <1>0, <1>a DEF InsertClaim, Refuse, Goto, AfterClaim, NoFault,
      EndHandler, Unlocked, SendInv, UnderWay, HandlerTypes, MessageKnown, OutboxTypes
  <2>3. ClockInv'
    BY <1>12, <1>0, <1>a DEF InsertClaim, Refuse, Goto, AfterClaim, NoFault,
      EndHandler, Unlocked, ClockInv, OutboxTypes, HandlerTypes, MessageKnown
  <2>4. FifoInv'
    BY <1>12, <1>0, <1>a DEF InsertClaim, Refuse, Goto, AfterClaim, NoFault,
      EndHandler, Unlocked, FifoInv, OutboxTypes, MessageKnown, StoredInv, ClockInv
  <2> QED
    BY <2>1, <2>2, <2>3, <2>4 DEF OrderInv
<1>13. ASSUME NEW p \in Pods, RetakeClaim(p) PROVE OrderInv'
  <2>1. LockInv'
    BY <1>13, <1>0, <1>a DEF RetakeClaim, Goto, AfterClaim, NoFault, LockInv,
      HandlerTypes, MessageKnown, Locked
  <2>2. SendInv'
    BY <1>13, <1>0, <1>a DEF RetakeClaim, Goto, AfterClaim, NoFault, SendInv,
      UnderWay, HandlerTypes, MessageKnown, OutboxTypes
  <2>3. ClockInv'
    BY <1>13, <1>0, <1>a DEF RetakeClaim, Goto, AfterClaim, NoFault, ClockInv,
      OutboxTypes, HandlerTypes, MessageKnown
  <2>4. FifoInv'
    BY <1>13, <1>0, <1>a DEF RetakeClaim, Goto, AfterClaim, NoFault, FifoInv,
      OutboxTypes, MessageKnown, StoredInv, ClockInv
  <2> QED
    BY <2>1, <2>2, <2>3, <2>4 DEF OrderInv
<1>14. ASSUME NEW p \in Pods, ClaimFails(p) PROVE OrderInv'
  <2>1. LockInv'
    BY <1>14, <1>0, <1>a DEF ClaimFails, Fault, Refuse, EndHandler, Unlocked,
      LockInv, HandlerTypes, MessageKnown, Locked
  <2>2. SendInv'
    BY <1>14, <1>0, <1>a DEF ClaimFails, Fault, Refuse, EndHandler, Unlocked,
      SendInv, UnderWay, HandlerTypes, MessageKnown, OutboxTypes
  <2>3. ClockInv'
    BY <1>14, <1>0, <1>a DEF ClaimFails, Fault, Refuse, EndHandler, Unlocked,
      ClockInv, OutboxTypes, HandlerTypes, MessageKnown
  <2>4. FifoInv'
    BY <1>14, <1>0, <1>a DEF ClaimFails, Fault, Refuse, EndHandler, Unlocked,
      FifoInv, OutboxTypes, MessageKnown, StoredInv, ClockInv
  <2> QED
    BY <2>1, <2>2, <2>3, <2>4 DEF OrderInv
<1>15. ASSUME NEW m \in Messages, Age(m) PROVE OrderInv'
  <2>1. LockInv'
    BY <1>15, <1>0, <1>a DEF Age, LockInv, HandlerTypes, MessageKnown, Locked
  <2>2. SendInv'
    BY <1>15, <1>0, <1>a DEF Age, SendInv, UnderWay, HandlerTypes, MessageKnown,
      OutboxTypes
  <2>3. ClockInv'
    BY <1>15, <1>0, <1>a DEF Age, ClockInv, OutboxTypes, HandlerTypes, MessageKnown
  <2>4. FifoInv'
    BY <1>15, <1>0, <1>a DEF Age, FifoInv, OutboxTypes, MessageKnown, StoredInv,
      ClockInv
  <2> QED
    BY <2>1, <2>2, <2>3, <2>4 DEF OrderInv
<1>16. ASSUME NEW p \in Pods, Screen(p) PROVE OrderInv'
  <2>1. LockInv'
    BY <1>16, <1>0, <1>a DEF Screen, SlackScreen, MailScreen, TicketScreen,
      CommandScreen, Goto, NoFault, EndHandler, Unlocked, LockInv, HandlerTypes,
      MessageKnown, Locked
  <2>2. SendInv'
    BY <1>16, <1>0, <1>a DEF Screen, SlackScreen, MailScreen, TicketScreen,
      CommandScreen, Goto, NoFault, EndHandler, Unlocked, SendInv, UnderWay,
      HandlerTypes, MessageKnown, OutboxTypes
  <2>3. ClockInv'
    BY <1>16, <1>0, <1>a DEF Screen, SlackScreen, MailScreen, TicketScreen,
      CommandScreen, Goto, NoFault, EndHandler, Unlocked, ClockInv, OutboxTypes,
      HandlerTypes, MessageKnown
  <2>4. FifoInv'
    BY <1>16, <1>0, <1>a DEF Screen, SlackScreen, MailScreen, TicketScreen,
      CommandScreen, Goto, NoFault, EndHandler, Unlocked, FifoInv, OutboxTypes,
      MessageKnown, StoredInv, ClockInv
  <2> QED
    BY <2>1, <2>2, <2>3, <2>4 DEF OrderInv
<1>17. ASSUME NEW p \in Pods, CoolOff(p) PROVE OrderInv'
  <2>1. LockInv'
    BY <1>17, <1>0, <1>a DEF CoolOff, LockInv, HandlerTypes, MessageKnown, Locked
  <2>2. SendInv'
    BY <1>17, <1>0, <1>a DEF CoolOff, SendInv, UnderWay, HandlerTypes, MessageKnown,
      OutboxTypes
  <2>3. ClockInv'
    BY <1>17, <1>0, <1>a DEF CoolOff, ClockInv, OutboxTypes, HandlerTypes, MessageKnown
  <2>4. FifoInv'
    BY <1>17, <1>0, <1>a DEF CoolOff, FifoInv, OutboxTypes, MessageKnown, StoredInv,
      ClockInv
  <2> QED
    BY <2>1, <2>2, <2>3, <2>4 DEF OrderInv
<1>18. ASSUME NEW p \in Pods, UserUnresolved(p) PROVE OrderInv'
  <2>1. LockInv'
    BY <1>18, <1>0, <1>a DEF UserUnresolved, Fault, ErrorAcks, EndHandler, Unlocked,
      LockInv, HandlerTypes, MessageKnown, Locked
  <2>2. SendInv'
    BY <1>18, <1>0, <1>a DEF UserUnresolved, Fault, ErrorAcks, EndHandler, Unlocked,
      SendInv, UnderWay, HandlerTypes, MessageKnown, OutboxTypes
  <2>3. ClockInv'
    BY <1>18, <1>0, <1>a DEF UserUnresolved, Fault, ErrorAcks, EndHandler, Unlocked,
      ClockInv, OutboxTypes, HandlerTypes, MessageKnown
  <2>4. FifoInv'
    BY <1>18, <1>0, <1>a DEF UserUnresolved, Fault, ErrorAcks, EndHandler, Unlocked,
      FifoInv, OutboxTypes, MessageKnown, StoredInv, ClockInv
  <2> QED
    BY <2>1, <2>2, <2>3, <2>4 DEF OrderInv
<1>19. ASSUME NEW p \in Pods, AcquireLock(p) PROVE OrderInv'
  <2>1. LockInv'
    BY <1>19, <1>0, <1>a, IngressAssumption DEF AcquireLock, LockFree, Goto, LockInv,
      HandlerTypes, MessageKnown, Locked
  <2>2. SendInv'
    BY <1>19, <1>0, <1>a DEF AcquireLock, LockFree, Goto, SendInv, UnderWay,
      HandlerTypes, MessageKnown, OutboxTypes
  <2>3. ClockInv'
    BY <1>19, <1>0, <1>a DEF AcquireLock, LockFree, Goto, ClockInv, OutboxTypes,
      HandlerTypes, MessageKnown
  <2>4. FifoInv'
    BY <1>19, <1>0, <1>a DEF AcquireLock, LockFree, Goto, FifoInv, OutboxTypes,
      MessageKnown, StoredInv, ClockInv
  <2> QED
    BY <2>1, <2>2, <2>3, <2>4 DEF OrderInv
<1>20. ASSUME NEW p \in Pods, LockTimeout(p) PROVE OrderInv'
  <2>1. LockInv'
    BY <1>20, <1>0, <1>a DEF LockTimeout, LockFree, Fault, ErrorAcks, EndHandler,
      Unlocked, LockInv, HandlerTypes, MessageKnown, Locked
  <2>2. SendInv'
    BY <1>20, <1>0, <1>a DEF LockTimeout, LockFree, Fault, ErrorAcks, EndHandler,
      Unlocked, SendInv, UnderWay, HandlerTypes, MessageKnown, OutboxTypes
  <2>3. ClockInv'
    BY <1>20, <1>0, <1>a DEF LockTimeout, LockFree, Fault, ErrorAcks, EndHandler,
      Unlocked, ClockInv, OutboxTypes, HandlerTypes, MessageKnown
  <2>4. FifoInv'
    BY <1>20, <1>0, <1>a DEF LockTimeout, LockFree, Fault, ErrorAcks, EndHandler,
      Unlocked, FifoInv, OutboxTypes, MessageKnown, StoredInv, ClockInv
  <2> QED
    BY <2>1, <2>2, <2>3, <2>4 DEF OrderInv
<1>21. ASSUME LockConnectionLost PROVE OrderInv'
  <2>1. LockInv'
    BY <1>21, <1>0, <1>a DEF LockConnectionLost, Fault, LockInv, HandlerTypes,
      MessageKnown, Locked
  <2>2. SendInv'
    BY <1>21, <1>0, <1>a DEF LockConnectionLost, Fault, SendInv, UnderWay,
      HandlerTypes, MessageKnown, OutboxTypes
  <2>3. ClockInv'
    BY <1>21, <1>0, <1>a DEF LockConnectionLost, Fault, ClockInv, OutboxTypes,
      HandlerTypes, MessageKnown
  <2>4. FifoInv'
    BY <1>21, <1>0, <1>a DEF LockConnectionLost, Fault, FifoInv, OutboxTypes,
      MessageKnown, StoredInv, ClockInv
  <2> QED
    BY <2>1, <2>2, <2>3, <2>4 DEF OrderInv
<1>22. ASSUME NEW p \in Pods, Anchor(p) PROVE OrderInv'
  <2>1. LockInv'
    BY <1>22, <1>0, <1>a DEF Anchor, ApplyAnchor, Goto, NoFault, EndHandler,
      Unlocked, LockInv, HandlerTypes, MessageKnown, Locked
  <2>2. SendInv'
    BY <1>22, <1>0, <1>a DEF Anchor, ApplyAnchor, Goto, NoFault, EndHandler,
      Unlocked, SendInv, UnderWay, HandlerTypes, MessageKnown, OutboxTypes
  <2>3. ClockInv'
    BY <1>22, <1>0, <1>a DEF Anchor, ApplyAnchor, Goto, NoFault, EndHandler,
      Unlocked, ClockInv, OutboxTypes, HandlerTypes, MessageKnown
  <2>4. FifoInv'
    BY <1>22, <1>0, <1>a DEF Anchor, ApplyAnchor, Goto, NoFault, EndHandler,
      Unlocked, FifoInv, OutboxTypes, MessageKnown, StoredInv, ClockInv
  <2> QED
    BY <2>1, <2>2, <2>3, <2>4 DEF OrderInv
<1>23. ASSUME NEW p \in Pods, Insert(p) PROVE OrderInv'
  <2>1. LockInv'
    BY <1>23, <1>0, <1>a DEF Insert, InsertRow, Goto, NoFault, EndHandler, Unlocked,
      LockInv, HandlerTypes, MessageKnown, Locked
  <2>2. SendInv'
    BY <1>23, <1>0, <1>a DEF Insert, InsertRow, Goto, NoFault, EndHandler, Unlocked,
      SendInv, UnderWay, HandlerTypes, MessageKnown, OutboxTypes
  <2>3. ClockInv'
    BY <1>23, <1>0, <1>a DEF Insert, InsertRow, Goto, NoFault, EndHandler, Unlocked,
      ClockInv, OutboxTypes, HandlerTypes, MessageKnown
  <2>4. FifoInv'
    <3> SUFFICES ASSUME NEW m \in Messages, NEW n \in Messages, status'[m] # "none",
                          createdAt'[m] < createdAt'[n]
                 PROVE  m \in posted' \/ m \in harmed' \/ n \in harmed'
      BY DEF FifoInv
    <3>0. m # n
      BY <1>23, <1>0 DEF Insert, InsertRow, OutboxTypes, MessageKnown
    <3>1. CASE n = msg[p] /\ m # n /\ createdAt'[n] # createdAt[n]
      <4>1. status[m] # "none" /\ UNCHANGED <<posted, harmed>>
        BY <1>23, <1>0, <3>1 DEF Insert, InsertRow, NoFault, OutboxTypes
      <4>2. CASE UnderWay(m)
        <5>1. PICK q \in Pods : pc[q] = "send" /\ msg[q] = m
          BY <4>2 DEF UnderWay
        <5>2. (lock = q \/ m \in harmed) /\ (lock = p \/ n \in harmed) /\ q # p
          BY <1>23, <1>a, <3>1, <5>1 DEF LockInv, Locked, Insert
        <5> QED
          BY <4>1, <5>2
      <4> QED
        BY <1>a, <4>1, <4>2 DEF SendInv
    <3>2. CASE createdAt'[n] = createdAt[n]
      BY <1>23, <1>0, <1>a, <3>2 DEF Insert, InsertRow, NoFault, FifoInv, ClockInv,
        OutboxTypes,
        MessageKnown
    <3>3. createdAt'[n] # createdAt[n] => n = msg[p]
      BY <1>23, <1>0 DEF Insert, InsertRow, OutboxTypes
    <3> QED
      BY <3>0, <3>1, <3>2, <3>3
  <2> QED
    BY <2>1, <2>2, <2>3, <2>4 DEF OrderInv
<1>24. ASSUME NEW p \in Pods, InsertFails(p) PROVE OrderInv'
  <2>1. LockInv'
    BY <1>24, <1>0, <1>a DEF InsertFails, Fault, ErrorAcks, EndHandler, Unlocked,
      LockInv, HandlerTypes, MessageKnown, Locked
  <2>2. SendInv'
    BY <1>24, <1>0, <1>a DEF InsertFails, Fault, ErrorAcks, EndHandler, Unlocked,
      SendInv, UnderWay, HandlerTypes, MessageKnown, OutboxTypes
  <2>3. ClockInv'
    BY <1>24, <1>0, <1>a DEF InsertFails, Fault, ErrorAcks, EndHandler, Unlocked,
      ClockInv, OutboxTypes, HandlerTypes, MessageKnown
  <2>4. FifoInv'
    BY <1>24, <1>0, <1>a DEF InsertFails, Fault, ErrorAcks, EndHandler, Unlocked,
      FifoInv, OutboxTypes, MessageKnown, StoredInv, ClockInv
  <2> QED
    BY <2>1, <2>2, <2>3, <2>4 DEF OrderInv
<1>25. ASSUME NEW p \in Pods, Send(p) PROVE OrderInv'
  <2>1. LockInv'
    BY <1>25, <1>0, <1>a DEF Send, Accepted, Goto, NoFault, EndHandler, Unlocked,
      LockInv, HandlerTypes, MessageKnown, Locked
  <2>2. SendInv'
    BY <1>25, <1>0, <1>a DEF Send, Accepted, Goto, NoFault, EndHandler, Unlocked,
      SendInv, UnderWay, HandlerTypes, MessageKnown, OutboxTypes
  <2>3. ClockInv'
    BY <1>25, <1>0, <1>a DEF Send, Accepted, Goto, NoFault, EndHandler, Unlocked,
      ClockInv, OutboxTypes, HandlerTypes, MessageKnown
  <2>4. FifoInv'
    BY <1>25, <1>0, <1>a DEF Send, Accepted, Goto, NoFault, EndHandler, Unlocked,
      FifoInv, OutboxTypes, MessageKnown, StoredInv, ClockInv
  <2> QED
    BY <2>1, <2>2, <2>3, <2>4 DEF OrderInv
<1>26. ASSUME NEW p \in Pods, Mark(p) PROVE OrderInv'
  <2>1. LockInv'
    BY <1>26, <1>0, <1>a DEF Mark, MarkedPublished, NoFault, EndHandler, Unlocked,
      LockInv, HandlerTypes, MessageKnown, Locked
  <2>2. SendInv'
    BY <1>26, <1>0, <1>a DEF Mark, MarkedPublished, NoFault, EndHandler, Unlocked,
      SendInv, UnderWay, HandlerTypes, MessageKnown, StoredInv, OutboxTypes
  <2>3. ClockInv'
    BY <1>26, <1>0, <1>a DEF Mark, MarkedPublished, NoFault, EndHandler, Unlocked,
      ClockInv, OutboxTypes, HandlerTypes, MessageKnown
  <2>4. FifoInv'
    BY <1>26, <1>0, <1>a DEF Mark, MarkedPublished, NoFault, EndHandler, Unlocked,
      FifoInv, OutboxTypes, MessageKnown, StoredInv, ClockInv
  <2> QED
    BY <2>1, <2>2, <2>3, <2>4 DEF OrderInv
<1>27. ASSUME NEW p \in Pods, MarkFails(p) PROVE OrderInv'
  <2>1. LockInv'
    BY <1>27, <1>0, <1>a DEF MarkFails, MarkedPublished, Fault, ErrorAcks,
      EndHandler, Unlocked, LockInv, HandlerTypes, MessageKnown, Locked
  <2>2. SendInv'
    BY <1>27, <1>0, <1>a DEF MarkFails, MarkedPublished, Fault, ErrorAcks,
      EndHandler, Unlocked, SendInv, UnderWay, HandlerTypes, MessageKnown, StoredInv,
      OutboxTypes
  <2>3. ClockInv'
    BY <1>27, <1>0, <1>a DEF MarkFails, MarkedPublished, Fault, ErrorAcks,
      EndHandler, Unlocked, ClockInv, OutboxTypes, HandlerTypes, MessageKnown
  <2>4. FifoInv'
    BY <1>27, <1>0, <1>a DEF MarkFails, MarkedPublished, Fault, ErrorAcks,
      EndHandler, Unlocked, FifoInv, OutboxTypes, MessageKnown, StoredInv, ClockInv
  <2> QED
    BY <2>1, <2>2, <2>3, <2>4 DEF OrderInv
<1>28. ASSUME NEW p \in Pods, SelectBatch(p) PROVE OrderInv'
  <2>1. LockInv'
    BY <1>28, <1>0, <1>a DEF SelectBatch, Pending, LockInv, HandlerTypes,
      MessageKnown, Locked
  <2>2. SendInv'
    BY <1>28, <1>0, <1>a DEF SelectBatch, Pending, SendInv, UnderWay, HandlerTypes,
      MessageKnown, OutboxTypes
  <2>3. ClockInv'
    BY <1>28, <1>0, <1>a DEF SelectBatch, Pending, ClockInv, OutboxTypes,
      HandlerTypes, MessageKnown
  <2>4. FifoInv'
    BY <1>28, <1>0, <1>a DEF SelectBatch, Pending, FifoInv, OutboxTypes,
      MessageKnown, StoredInv, ClockInv
  <2> QED
    BY <2>1, <2>2, <2>3, <2>4 DEF OrderInv
<1>29. ASSUME NEW p \in Pods, NEW m \in Messages, PublishRow(p, m) PROVE OrderInv'
  <2>1. LockInv'
    BY <1>29, <1>0, <1>a DEF PublishRow, First, Accepted, NoFault, Fault, LockInv,
      HandlerTypes, MessageKnown, Locked
  <2>2. SendInv'
    BY <1>29, <1>0, <1>a DEF PublishRow, First, Accepted, NoFault, Fault, SendInv,
      UnderWay, HandlerTypes, MessageKnown, PublisherTypes, StoredInv, OutboxTypes
  <2>3. ClockInv'
    BY <1>29, <1>0, <1>a DEF PublishRow, First, Accepted, NoFault, Fault, ClockInv,
      OutboxTypes, HandlerTypes, MessageKnown
  <2>4. FifoInv'
    BY <1>29, <1>0, <1>a DEF PublishRow, First, Accepted, NoFault, Fault, FifoInv,
      OutboxTypes, PublisherTypes, MessageKnown, StoredInv, ClockInv
  <2> QED
    BY <2>1, <2>2, <2>3, <2>4 DEF OrderInv
<1>30. ASSUME NEW p \in Pods, NEW m \in Messages, MarkPublished(p, m) PROVE OrderInv'
  <2>1. LockInv'
    BY <1>30, <1>0, <1>a DEF MarkPublished, NextRow, First, MarkedPublished, LockInv,
      HandlerTypes, MessageKnown, Locked
  <2>2. SendInv'
    BY <1>30, <1>0, <1>a DEF MarkPublished, NextRow, First, MarkedPublished, SendInv,
      UnderWay, HandlerTypes, MessageKnown, PublisherTypes, StoredInv, OutboxTypes
  <2>3. ClockInv'
    BY <1>30, <1>0, <1>a DEF MarkPublished, NextRow, First, MarkedPublished,
      ClockInv, OutboxTypes, HandlerTypes, MessageKnown
  <2>4. FifoInv'
    BY <1>30, <1>0, <1>a DEF MarkPublished, NextRow, First, MarkedPublished, FifoInv,
      OutboxTypes, PublisherTypes, MessageKnown, StoredInv, ClockInv
  <2> QED
    BY <2>1, <2>2, <2>3, <2>4 DEF OrderInv
<1>31. ASSUME NEW p \in Pods, MarkPublishedFails(p) PROVE OrderInv'
  <2>1. LockInv'
    BY <1>31, <1>0, <1>a DEF MarkPublishedFails, Fault, LockInv, HandlerTypes,
      MessageKnown, Locked
  <2>2. SendInv'
    BY <1>31, <1>0, <1>a DEF MarkPublishedFails, Fault, SendInv, UnderWay,
      HandlerTypes, MessageKnown, OutboxTypes
  <2>3. ClockInv'
    BY <1>31, <1>0, <1>a DEF MarkPublishedFails, Fault, ClockInv, OutboxTypes,
      HandlerTypes, MessageKnown
  <2>4. FifoInv'
    BY <1>31, <1>0, <1>a DEF MarkPublishedFails, Fault, FifoInv, OutboxTypes,
      MessageKnown, StoredInv, ClockInv
  <2> QED
    BY <2>1, <2>2, <2>3, <2>4 DEF OrderInv
<1>32. ASSUME NEW p \in Pods, NEW m \in Messages, MarkFailed(p, m) PROVE OrderInv'
  <2>1. LockInv'
    BY <1>32, <1>0, <1>a DEF MarkFailed, NextRow, First, AfterFailure, LockInv,
      HandlerTypes, MessageKnown, Locked
  <2>2. SendInv'
    BY <1>32, <1>0, <1>a DEF MarkFailed, NextRow, First, AfterFailure, SendInv,
      UnderWay, HandlerTypes, MessageKnown, PublisherTypes, StoredInv, OutboxTypes
  <2>3. ClockInv'
    BY <1>32, <1>0, <1>a DEF MarkFailed, NextRow, First, AfterFailure, ClockInv,
      OutboxTypes, HandlerTypes, MessageKnown
  <2>4. FifoInv'
    BY <1>32, <1>0, <1>a DEF MarkFailed, NextRow, First, AfterFailure, FifoInv,
      OutboxTypes, PublisherTypes, MessageKnown, StoredInv, ClockInv
  <2> QED
    BY <2>1, <2>2, <2>3, <2>4 DEF OrderInv
<1>33. ASSUME NEW p \in Pods, NEW m \in Messages, MarkFailedFails(p, m) PROVE OrderInv'
  <2>1. LockInv'
    BY <1>33, <1>0, <1>a DEF MarkFailedFails, NoFault, NextRow, First, LockInv,
      HandlerTypes, MessageKnown, Locked
  <2>2. SendInv'
    BY <1>33, <1>0, <1>a DEF MarkFailedFails, NoFault, NextRow, First, SendInv,
      UnderWay, HandlerTypes, MessageKnown, PublisherTypes, StoredInv, OutboxTypes
  <2>3. ClockInv'
    BY <1>33, <1>0, <1>a DEF MarkFailedFails, NoFault, NextRow, First, ClockInv,
      OutboxTypes, HandlerTypes, MessageKnown
  <2>4. FifoInv'
    BY <1>33, <1>0, <1>a DEF MarkFailedFails, NoFault, NextRow, First, FifoInv,
      OutboxTypes, PublisherTypes, MessageKnown, StoredInv, ClockInv
  <2> QED
    BY <2>1, <2>2, <2>3, <2>4 DEF OrderInv
<1>34. ASSUME NEW m \in Messages, Reset(m) PROVE OrderInv'
  <2>1. LockInv'
    BY <1>34, <1>0, <1>a DEF Reset, LockInv, HandlerTypes, MessageKnown, Locked
  <2>2. SendInv'
    BY <1>34, <1>0, <1>a DEF Reset, SendInv, UnderWay, HandlerTypes, MessageKnown,
      OutboxTypes
  <2>3. ClockInv'
    BY <1>34, <1>0, <1>a DEF Reset, ClockInv, OutboxTypes, HandlerTypes, MessageKnown
  <2>4. FifoInv'
    BY <1>34, <1>0, <1>a DEF Reset, FifoInv, OutboxTypes, MessageKnown, StoredInv,
      ClockInv
  <2> QED
    BY <2>1, <2>2, <2>3, <2>4 DEF OrderInv
<1>35. ASSUME NEW p \in Pods, Crash(p) PROVE OrderInv'
  <2>1. LockInv'
    BY <1>35, <1>0, <1>a DEF Crash, Fault, Unlocked, ReleaseLeadership,
      LeaderUnlocked, LockInv, HandlerTypes, MessageKnown, Locked
  <2>2. SendInv'
    BY <1>35, <1>0, <1>a DEF Crash, Fault, Unlocked, ReleaseLeadership,
      LeaderUnlocked, SendInv, UnderWay, HandlerTypes, MessageKnown, OutboxTypes
  <2>3. ClockInv'
    BY <1>35, <1>0, <1>a DEF Crash, Fault, Unlocked, ReleaseLeadership,
      LeaderUnlocked, ClockInv, OutboxTypes, HandlerTypes, MessageKnown
  <2>4. FifoInv'
    BY <1>35, <1>0, <1>a DEF Crash, Fault, Unlocked, ReleaseLeadership,
      LeaderUnlocked, FifoInv, OutboxTypes, MessageKnown, StoredInv, ClockInv
  <2> QED
    BY <2>1, <2>2, <2>3, <2>4 DEF OrderInv
<1>36. CASE UNCHANGED vars
  BY <1>36 DEF vars, OrderInv, LockInv, SendInv, UnderWay, ClockInv, FifoInv
<1> QED
  BY <1>1, <1>2, <1>3, <1>4, <1>5, <1>6, <1>7, <1>8, <1>9, <1>10, <1>11, <1>12,
    <1>13, <1>14, <1>15, <1>16, <1>17, <1>18, <1>19, <1>20, <1>21, <1>22, <1>23,
    <1>24, <1>25, <1>26, <1>27, <1>28, <1>29, <1>30, <1>31, <1>32, <1>33, <1>34,
    <1>35, <1>36 DEF Next, HandlerStep, LeaderStep, PublisherStep, Failure

\* The broker gets the messages of a thread in the order of the outbox, unless the
\* handling of one of them was cut short: for any number of messages, pods and
\* publishers, although the publishers take no lock.
THEOREM OutboxOrderKept == Spec => []OvertakenOnlyAfterFault
<1>1. OrderInv => OvertakenOnlyAfterFault
  BY DEF OrderInv, FifoInv, OvertakenOnlyAfterFault
<1> QED
  BY <1>1, TypeInit, TypeNext, StoredInit, StoredNext, OrderInit, OrderNext, PTL
  DEF Spec

-----------------------------------------------------------------------------
(***************************************************************************)
(* The customer of a ticket.  Whoever has passed the anchor agrees with    *)
(* it, and an id once anchored is never replaced.                          *)
(***************************************************************************)
Anchors == [email : STRING, id : Nat]
Entered(m) ==
  status[m] # "none" \/ \E p \in Pods : msg[p] = m /\ pc[p] \in {"insert", "send", "mark"}

AnchorInv ==
  channel = "zammad" =>
    /\ anchor \in Anchors \union {NoCustomer}
    /\ \A m \in Messages : customer[m] \in Anchors
    /\ \A m \in Messages :
         Entered(m) /\ customer[m].id # 0
           => anchor # NoCustomer /\ anchor.id = customer[m].id

LEMMA AnchorInit == Init => AnchorInv
<1> SUFFICES ASSUME Init, channel = "zammad" PROVE AnchorInv
  BY DEF AnchorInv
<1>1. \A m \in Messages : customer[m] \in Anchors
  BY IngressAssumption DEF Init, Anchors
<1> QED
  BY <1>1 DEF Init, AnchorInv, Entered

LEMMA AnchorNext == TypeInv /\ StoredInv /\ AnchorInv /\ [Next]_vars => AnchorInv'
<1> SUFFICES ASSUME TypeInv, StoredInv, AnchorInv, [Next]_vars, channel' = "zammad"
             PROVE  AnchorInv'
  BY DEF AnchorInv
<1>0. HandlerTypes /\ MessageKnown /\ OutboxTypes /\ PublisherTypes
  BY DEF TypeInv
<1>1. ASSUME NEW p \in Pods, NEW m \in Messages, Webhook(p, m) PROVE AnchorInv'
  BY <1>1, <1>0 DEF Webhook, Start, FirstStep, AnchorInv, Entered, HandlerTypes,
    MessageKnown, OutboxTypes, StoredInv, Locked
<1>2. ASSUME NEW p \in Pods, NEW m \in Messages, Command(p, m) PROVE AnchorInv'
  BY <1>2, <1>0 DEF Command, SlashCommand, Start, FirstStep, AnchorInv, Entered,
    HandlerTypes, MessageKnown, OutboxTypes, StoredInv, Locked
<1>3. ASSUME NEW p \in Pods, NEW m \in Messages, Interact(p, m) PROVE AnchorInv'
  BY <1>3, <1>0 DEF Interact, ShowSession, NewSession, Start, FirstStep, AnchorInv,
    Entered, HandlerTypes, MessageKnown, OutboxTypes, StoredInv, Locked
<1>4. ASSUME NEW m \in Messages, MailArrives(m) PROVE AnchorInv'
  BY <1>4, <1>0 DEF MailArrives, AnchorInv, Entered, HandlerTypes, MessageKnown,
    OutboxTypes, StoredInv, Locked
<1>5. ASSUME NEW p \in Pods, BecomeLeader(p) PROVE AnchorInv'
  BY <1>5, <1>0 DEF BecomeLeader, AnchorInv, Entered, HandlerTypes, MessageKnown,
    OutboxTypes, StoredInv, Locked
<1>6. ASSUME NEW p \in Pods, RenewFails(p) PROVE AnchorInv'
  BY <1>6, <1>0 DEF RenewFails, BetweenMails, ReleaseLeadership, LeaderUnlocked,
    AnchorInv, Entered, HandlerTypes, MessageKnown, OutboxTypes, StoredInv, Locked
<1>7. ASSUME NEW p \in Pods, Poll(p) PROVE AnchorInv'
  BY <1>7, <1>0 DEF Poll, BetweenMails, Unseen, AnchorInv, Entered, HandlerTypes,
    MessageKnown, OutboxTypes, StoredInv, Locked
<1>8. ASSUME NEW p \in Pods, NEW m \in Messages, NextMail(p, m) PROVE AnchorInv'
  BY <1>8, <1>0 DEF NextMail, BetweenMails, Start, FirstStep, AnchorInv, Entered,
    HandlerTypes, MessageKnown, OutboxTypes, StoredInv, Locked
<1>9. ASSUME NEW p \in Pods, PollFails(p) PROVE AnchorInv'
  BY <1>9, <1>0 DEF PollFails, BetweenMails, Fault, ReleaseLeadership,
    LeaderUnlocked, AnchorInv, Entered, HandlerTypes, MessageKnown, OutboxTypes,
    StoredInv, Locked
<1>10. ASSUME LeaderConnectionLost PROVE AnchorInv'
  BY <1>10, <1>0 DEF LeaderConnectionLost, Fault, AnchorInv, Entered, HandlerTypes,
    MessageKnown, OutboxTypes, StoredInv, Locked
<1>11. ASSUME NEW p \in Pods, SelectClaim(p) PROVE AnchorInv'
  BY <1>11, <1>0 DEF SelectClaim, Refuse, Goto, NoFault, EndHandler, Unlocked,
    AnchorInv, Entered, HandlerTypes, MessageKnown, OutboxTypes, StoredInv, Locked
<1>12. ASSUME NEW p \in Pods, InsertClaim(p) PROVE AnchorInv'
  BY <1>12, <1>0 DEF InsertClaim, Refuse, Goto, AfterClaim, NoFault, EndHandler,
    Unlocked, AnchorInv, Entered, HandlerTypes, MessageKnown, OutboxTypes, StoredInv,
    Locked
<1>13. ASSUME NEW p \in Pods, RetakeClaim(p) PROVE AnchorInv'
  BY <1>13, <1>0 DEF RetakeClaim, Goto, AfterClaim, NoFault, AnchorInv, Entered,
    HandlerTypes, MessageKnown, OutboxTypes, StoredInv, Locked
<1>14. ASSUME NEW p \in Pods, ClaimFails(p) PROVE AnchorInv'
  BY <1>14, <1>0 DEF ClaimFails, Fault, Refuse, EndHandler, Unlocked, AnchorInv,
    Entered, HandlerTypes, MessageKnown, OutboxTypes, StoredInv, Locked
<1>15. ASSUME NEW m \in Messages, Age(m) PROVE AnchorInv'
  BY <1>15, <1>0 DEF Age, AnchorInv, Entered, HandlerTypes, MessageKnown,
    OutboxTypes, StoredInv, Locked
<1>16. ASSUME NEW p \in Pods, Screen(p) PROVE AnchorInv'
  BY <1>16, <1>0 DEF Screen, SlackScreen, MailScreen, TicketScreen, CommandScreen,
    Goto, NoFault, EndHandler, Unlocked, AnchorInv, Entered, HandlerTypes,
    MessageKnown, OutboxTypes, StoredInv, Locked
<1>17. ASSUME NEW p \in Pods, CoolOff(p) PROVE AnchorInv'
  BY <1>17, <1>0 DEF CoolOff, AnchorInv, Entered, HandlerTypes, MessageKnown,
    OutboxTypes, StoredInv, Locked
<1>18. ASSUME NEW p \in Pods, UserUnresolved(p) PROVE AnchorInv'
  BY <1>18, <1>0 DEF UserUnresolved, Fault, ErrorAcks, EndHandler, Unlocked,
    AnchorInv, Entered, HandlerTypes, MessageKnown, OutboxTypes, StoredInv, Locked
<1>19. ASSUME NEW p \in Pods, AcquireLock(p) PROVE AnchorInv'
  BY <1>19, <1>0 DEF AcquireLock, LockFree, Goto, AnchorInv, Entered, HandlerTypes,
    MessageKnown, OutboxTypes, StoredInv, Locked
<1>20. ASSUME NEW p \in Pods, LockTimeout(p) PROVE AnchorInv'
  BY <1>20, <1>0 DEF LockTimeout, LockFree, Fault, ErrorAcks, EndHandler, Unlocked,
    AnchorInv, Entered, HandlerTypes, MessageKnown, OutboxTypes, StoredInv, Locked
<1>21. ASSUME LockConnectionLost PROVE AnchorInv'
  BY <1>21, <1>0 DEF LockConnectionLost, Fault, AnchorInv, Entered, HandlerTypes,
    MessageKnown, OutboxTypes, StoredInv, Locked
<1>22. ASSUME NEW p \in Pods, Anchor(p) PROVE AnchorInv'
  <2> DEFINE c == customer[msg[p]]
  <2>1. channel = "zammad" /\ UNCHANGED <<channel, customer, status>>
    BY <1>22 DEF Anchor
  <2>2. c \in Anchors /\ anchor \in Anchors \union {NoCustomer}
    BY <1>22, <1>0, <2>1 DEF Anchor, AnchorInv, MessageKnown
  <2>3. CASE anchor # NoCustomer /\ Conflict(anchor, c)
    BY <1>22, <1>0, <2>1, <2>3 DEF Anchor, ApplyAnchor, EndHandler, AnchorInv, Entered,
      HandlerTypes
  <2>4. CASE anchor = NoCustomer
    <3>1. anchor' = c /\ Goto(p, "insert")
      BY <1>22, <2>4 DEF Anchor, ApplyAnchor
    <3>2. NoCustomer \notin Anchors
      BY IngressAssumption DEF Anchors
    <3> QED
      BY <1>0, <2>1, <2>2, <2>4, <3>1, <3>2 DEF AnchorInv, Entered, Goto, HandlerTypes
  <2>5. CASE anchor # NoCustomer /\ ~Conflict(anchor, c)
    <3>1. /\ anchor' = [anchor EXCEPT !.id = IF @ = 0 THEN c.id ELSE @]
          /\ Goto(p, "insert")
      BY <1>22, <2>5 DEF Anchor, ApplyAnchor
    <3>2. NoCustomer \notin Anchors
      BY IngressAssumption DEF Anchors
    <3>3. /\ anchor' \in Anchors
          /\ anchor.id # 0 => anchor'.id = anchor.id
          /\ c.id # 0 => anchor'.id = c.id
      BY <2>2, <2>5, <3>1 DEF Anchors, Conflict
    <3>4. \A m \in Messages : Entered(m)' => Entered(m) \/ m = msg[p]
      BY <1>0, <2>1, <3>1 DEF Entered, Goto, HandlerTypes
    <3> QED
      BY <2>1, <3>2, <3>3, <3>4 DEF AnchorInv
  <2> QED
    BY <2>3, <2>4, <2>5
<1>23. ASSUME NEW p \in Pods, Insert(p) PROVE AnchorInv'
  BY <1>23, <1>0 DEF Insert, InsertRow, Goto, NoFault, EndHandler, Unlocked,
    AnchorInv, Entered, HandlerTypes, MessageKnown, OutboxTypes, StoredInv, Locked
<1>24. ASSUME NEW p \in Pods, InsertFails(p) PROVE AnchorInv'
  BY <1>24, <1>0 DEF InsertFails, Fault, ErrorAcks, EndHandler, Unlocked, AnchorInv,
    Entered, HandlerTypes, MessageKnown, OutboxTypes, StoredInv, Locked
<1>25. ASSUME NEW p \in Pods, Send(p) PROVE AnchorInv'
  BY <1>25, <1>0 DEF Send, Accepted, Goto, NoFault, EndHandler, Unlocked, AnchorInv,
    Entered, HandlerTypes, MessageKnown, OutboxTypes, StoredInv, Locked
<1>26. ASSUME NEW p \in Pods, Mark(p) PROVE AnchorInv'
  BY <1>26, <1>0 DEF Mark, MarkedPublished, NoFault, EndHandler, Unlocked, AnchorInv,
    Entered, HandlerTypes, MessageKnown, OutboxTypes, StoredInv, Locked
<1>27. ASSUME NEW p \in Pods, MarkFails(p) PROVE AnchorInv'
  BY <1>27, <1>0 DEF MarkFails, MarkedPublished, Fault, ErrorAcks, EndHandler,
    Unlocked, AnchorInv, Entered, HandlerTypes, MessageKnown, OutboxTypes, StoredInv,
    Locked
<1>28. ASSUME NEW p \in Pods, SelectBatch(p) PROVE AnchorInv'
  BY <1>28, <1>0 DEF SelectBatch, Pending, AnchorInv, Entered, HandlerTypes,
    MessageKnown, OutboxTypes, StoredInv, Locked
<1>29. ASSUME NEW p \in Pods, NEW m \in Messages, PublishRow(p, m) PROVE AnchorInv'
  BY <1>29, <1>0 DEF PublishRow, First, Accepted, NoFault, Fault, AnchorInv, Entered,
    PublisherTypes, HandlerTypes, MessageKnown, OutboxTypes, StoredInv, Locked
<1>30. ASSUME NEW p \in Pods, NEW m \in Messages, MarkPublished(p, m) PROVE AnchorInv'
  BY <1>30, <1>0 DEF MarkPublished, NextRow, First, MarkedPublished, AnchorInv,
    Entered, PublisherTypes, HandlerTypes, MessageKnown, OutboxTypes, StoredInv, Locked
<1>31. ASSUME NEW p \in Pods, MarkPublishedFails(p) PROVE AnchorInv'
  BY <1>31, <1>0 DEF MarkPublishedFails, Fault, AnchorInv, Entered, HandlerTypes,
    MessageKnown, OutboxTypes, StoredInv, Locked
<1>32. ASSUME NEW p \in Pods, NEW m \in Messages, MarkFailed(p, m) PROVE AnchorInv'
  BY <1>32, <1>0 DEF MarkFailed, NextRow, First, AfterFailure, AnchorInv, Entered,
    PublisherTypes, HandlerTypes, MessageKnown, OutboxTypes, StoredInv, Locked
<1>33. ASSUME NEW p \in Pods, NEW m \in Messages, MarkFailedFails(p, m) PROVE AnchorInv'
  BY <1>33, <1>0 DEF MarkFailedFails, NoFault, NextRow, First, AnchorInv, Entered,
    PublisherTypes, HandlerTypes, MessageKnown, OutboxTypes, StoredInv, Locked
<1>34. ASSUME NEW m \in Messages, Reset(m) PROVE AnchorInv'
  BY <1>34, <1>0 DEF Reset, AnchorInv, Entered, HandlerTypes, MessageKnown,
    OutboxTypes, StoredInv, Locked
<1>35. ASSUME NEW p \in Pods, Crash(p) PROVE AnchorInv'
  BY <1>35, <1>0 DEF Crash, Fault, Unlocked, ReleaseLeadership, LeaderUnlocked,
    AnchorInv, Entered, HandlerTypes, MessageKnown, OutboxTypes, StoredInv, Locked
<1>36. CASE UNCHANGED vars
  BY <1>36 DEF vars, AnchorInv, Entered
<1> QED
  BY <1>1, <1>2, <1>3, <1>4, <1>5, <1>6, <1>7, <1>8, <1>9, <1>10, <1>11, <1>12,
    <1>13, <1>14, <1>15, <1>16, <1>17, <1>18, <1>19, <1>20, <1>21, <1>22, <1>23,
    <1>24, <1>25, <1>26, <1>27, <1>28, <1>29, <1>30, <1>31, <1>32, <1>33, <1>34,
    <1>35, <1>36 DEF Next, HandlerStep, LeaderStep, PublisherStep, Failure

\* The messages of one ticket never get in under the ids of two customers, whoever
\* the webhooks name and however they race for the anchor.
THEOREM CustomerFixed == Spec => []OneCustomerPerTicket
<1>1. AnchorInv => OneCustomerPerTicket
  BY DEF AnchorInv, OneCustomerPerTicket, Entered
<1> QED
  BY <1>1, TypeInit, TypeNext, StoredInit, StoredNext, AnchorInit, AnchorNext, PTL
  DEF Spec

================================================================================
