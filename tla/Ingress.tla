------------------------------- MODULE Ingress -------------------------------
(***************************************************************************)
(* How the integration dispatcher takes the messages of one conversation   *)
(* thread in and publishes them to the broker through the outbox.          *)
(*                                                                         *)
(* Slack and Zammad post webhooks and post them again until a pod has      *)
(* answered 200; slash commands are acknowledged at once; e-mails wait in  *)
(* a mailbox that the pod with the leader lock polls.  A pod claims the    *)
(* message, takes the thread's advisory lock, inserts the outbox row and   *)
(* tries to publish it while it holds the lock.  Every pod also runs a     *)
(* background publisher, and those take no lock.                           *)
(*                                                                         *)
(* Claims of inbound messages are never settled or released: the row stays *)
(* in processing, and after 120 s it counts as stale.                      *)
(*                                                                         *)
(* A pod serves one message at a time.  Two requests within a pod differ   *)
(* from requests of two pods only in the cooldown they share, which is     *)
(* read and set without an await in between.                               *)
(*                                                                         *)
(* Slips (see SessionSerialization): LeaderLockKept, SeenAnyway,           *)
(* LockTaken, AnchorIgnored, SendFirst, NeverExhausted.                    *)
(***************************************************************************)
EXTENDS Naturals, FiniteSets

CONSTANTS
  Messages,       \* numbered in the order they are received
  Channels,       \* where the thread of an instance may be
  Kinds,          \* what each message may be: "request", "own", "empty"
  Customers,      \* Zammad: the customers each message may name for the ticket
  Pods, NoPod, NoMessage, NoCustomer,
  Publishers,     \* the pods whose publisher runs in an instance
  MaxRetries,     \* OUTBOX_MAX_RETRIES
  BatchSize,      \* OUTBOX_BATCH_SIZE
  MaxDeliveries,  \* posts of the webhook of each message
  MaxFaults       \* faults in one behaviour; failed first sends are not counted

ASSUME IngressAssumption ==
  /\ Messages \subseteq Nat
  /\ Channels \subseteq {"slack", "command", "email", "zammad"}
  /\ Kinds \in [Messages -> SUBSET {"request", "own", "empty"}]
  /\ Publishers \subseteq Pods
  /\ NoPod \notin Pods
  /\ NoMessage \notin Messages
  /\ MaxRetries \in Nat \ {0} /\ BatchSize \in Nat \ {0}
  /\ MaxDeliveries \in [Messages -> Nat] /\ MaxFaults \in Nat
  \* Id 0: the ticket names no customer id.
  /\ \A m \in Messages : Customers[m] \subseteq [email : STRING, id : Nat]
  /\ NoCustomer \notin [email : STRING, id : Nat]

VARIABLES
  channel,     \* of the thread
  kind,        \* of each message
  customer,    \* the customer each message names
  deliveries,  \* posts of its webhook; 1 for a mail that is in the mailbox
  acked,       \* answered 200 to Slack or Zammad; flagged \Seen
  claim,       \* processed_events: "none", "fresh", or "stale" after 120 s
  cooling,     \* pods that have served the user within the last 2 s
  dropped,     \* messages taken in and dropped: cooldown, foreign customer
  lock,        \* the pod that holds the thread's advisory lock
  anchor,      \* the ticket's row in zammad_ticket_customer_anchor
  clock,       \* PostgreSQL's clock, counted in outbox INSERTs
  createdAt,   \* event_outbox.created_at; 0 without a row
  status,      \* event_outbox.status; "none" without a row
  retries,     \* event_outbox.retry_count
  posted,      \* messages the broker has got, at least once
  pc, msg,     \* where each pod's handler is, and its message
  todo,        \* mails its poll has still to process
  leaderLock,  \* the pod whose connection holds the IMAP leader lock
  leading,     \* pods that take themselves for the leader
  ppc, batch,  \* where each pod's publisher is, and the rows it has selected
  harmed,      \* history: messages whose handling a fault has cut short
  faults       \* history: the number of faults so far

inbound  == <<deliveries, acked, dropped>>
claims   == <<claim, cooling>>
outbox   == <<clock, createdAt, status, retries>>
handlers == <<pc, msg>>
leaders  == <<leaderLock, leading>>
publishers == <<ppc, batch>>
fixed    == <<channel, kind, customer>>
vars == <<fixed, inbound, claims, lock, anchor, outbox, posted, handlers, todo,
          leaders, publishers, harmed, faults>>

Statuses == {"none", "pending", "published", "exhausted"}
\* The labels between AcquireLock and the release of the lock.
Locked == {"anchor", "insert", "send", "mark"}
Labels == {"idle", "screen", "select", "claim", "retake", "lock"} \union Locked
PublisherLabels == {"idle", "send", "mark", "fail"}

Init ==
  /\ channel \in Channels
  /\ kind \in [Messages -> {"request", "own", "empty"}]
  /\ \A m \in Messages : kind[m] \in Kinds[m] /\ (channel = "command" => kind[m] # "own")
  /\ customer \in [Messages -> UNION {Customers[m] : m \in Messages} \union {NoCustomer}]
  /\ \A m \in Messages :
       customer[m] \in IF channel = "zammad" THEN Customers[m] ELSE {NoCustomer}
  /\ deliveries = [m \in Messages |-> 0]
  /\ acked = {} /\ dropped = {} /\ cooling = {}
  /\ claim = [m \in Messages |-> "none"]
  /\ lock = NoPod
  /\ anchor = NoCustomer
  /\ clock = 0
  /\ createdAt = [m \in Messages |-> 0]
  /\ status = [m \in Messages |-> "none"]
  /\ retries = [m \in Messages |-> 0]
  /\ posted = {}
  /\ pc = [p \in Pods |-> "idle"]
  /\ msg = [p \in Pods |-> NoMessage]
  /\ todo = [p \in Pods |-> {}]
  /\ leaderLock = NoPod /\ leading = {}
  /\ ppc = [p \in Pods |-> "idle"]
  /\ batch = [p \in Pods |-> {}]
  /\ harmed = {} /\ faults = 0

\* A fault happens now; it cuts the handling of the messages ms short.
Fault(ms) ==
  /\ faults < MaxFaults
  /\ faults' = faults + 1
  /\ harmed' = harmed \union ms
NoFault == UNCHANGED <<harmed, faults>>

-----------------------------------------------------------------------------
(***************************************************************************)
(* How a message gets to a pod.                                            *)
(***************************************************************************)
\* The order of the steps differs by channel: Slack and Zammad claim first, an
\* e-mail is claimed after its sender was resolved, a command not at all.
FirstStep == IF channel \in {"slack", "zammad"} THEN "select" ELSE "screen"
AfterClaim == IF channel = "email" THEN "lock" ELSE "screen"

Start(p, m) ==
  /\ pc' = [pc EXCEPT ![p] = FirstStep]
  /\ msg' = [msg EXCEPT ![p] = m]

\* A webhook, for the first time or because no pod has answered 200 yet; its
\* handler may still be at work then.
Webhook(p, m) ==
  /\ channel \in {"slack", "zammad"}
  /\ pc[p] = "idle"
  /\ m \notin acked
  /\ deliveries[m] < MaxDeliveries[m]
  /\ deliveries' = [deliveries EXCEPT ![m] = @ + 1]
  /\ Start(p, m)
  /\ UNCHANGED <<fixed, acked, dropped, claims, lock, anchor, outbox, posted, todo,
                 leaders, publishers, harmed, faults>>

\* handle_slash_command answers, and goes on in a task of its own if there is a
\* text.
SlashCommand(p, m) ==
  /\ acked' = acked \union {m}
  /\ IF kind[m] = "empty" THEN UNCHANGED handlers ELSE Start(p, m)

\* Slack posts a command once, and every outcome of it is answered 200.
Command(p, m) ==
  /\ channel = "command"
  /\ pc[p] = "idle"
  /\ deliveries[m] = 0
  /\ deliveries' = [deliveries EXCEPT ![m] = 1]
  /\ SlashCommand(p, m)
  /\ UNCHANGED <<fixed, dropped, claims, lock, anchor, outbox, posted, todo, leaders,
                 publishers, harmed, faults>>

\* A button of a message in Slack.  To look at the session is answered at once ...
ShowSession(p, m) ==
  /\ kind[m] = "empty"
  /\ acked' = acked \union {m}
  /\ UNCHANGED handlers

\* ... a new session opens with a message in the user's name, which is forwarded
\* before the button is answered; an error of it is answered as well.
NewSession(p, m) ==
  /\ kind[m] = "request"
  /\ Start(p, m)
  /\ UNCHANGED acked

Interact(p, m) ==
  /\ channel = "command"
  /\ pc[p] = "idle"
  /\ deliveries[m] = 0
  /\ deliveries' = [deliveries EXCEPT ![m] = 1]
  /\ ShowSession(p, m) \/ NewSession(p, m)
  /\ UNCHANGED <<fixed, dropped, claims, lock, anchor, outbox, posted, todo, leaders,
                 publishers, harmed, faults>>

MailArrives(m) ==
  /\ channel = "email"
  /\ deliveries[m] = 0
  /\ \A n \in Messages : n < m => deliveries[n] = 1
  /\ deliveries' = [deliveries EXCEPT ![m] = 1]
  /\ UNCHANGED <<fixed, acked, dropped, claims, lock, anchor, outbox, posted, handlers,
                 todo, leaders, publishers, harmed, faults>>

-----------------------------------------------------------------------------
(***************************************************************************)
(* The leader of the mailbox.                                              *)
(***************************************************************************)
BecomeLeader(p) ==
  /\ channel = "email"
  /\ p \notin leading
  /\ leaderLock = NoPod
  /\ leaderLock' = p
  /\ leading' = leading \union {p}
  /\ UNCHANGED <<fixed, inbound, claims, lock, anchor, outbox, posted, handlers, todo,
                 publishers, harmed, faults>>

\* To close the connection frees the lock.
LeaderLockKept(p) == leaderLock
LeaderUnlocked(p) == IF leaderLock = p THEN NoPod ELSE leaderLock

ReleaseLeadership(p) ==
  /\ leading' = leading \ {p}
  /\ leaderLock' = LeaderUnlocked(p)
  /\ todo' = [todo EXCEPT ![p] = {}]

BetweenMails(p) == channel = "email" /\ p \in leading /\ pc[p] = "idle"

\* _renew_lease finds that its connection no longer holds the lock.  It is asked
\* between polls only.
RenewFails(p) ==
  /\ BetweenMails(p)
  /\ todo[p] = {}
  /\ leaderLock # p
  /\ ReleaseLeadership(p)
  /\ UNCHANGED <<fixed, inbound, claims, lock, anchor, outbox, posted, handlers,
                 publishers, harmed, faults>>

Unseen == {m \in Messages : deliveries[m] = 1 /\ m \notin acked}

\* A poll searches for unseen mails.
Poll(p) ==
  /\ BetweenMails(p)
  /\ todo[p] = {}
  /\ Unseen # {}
  /\ todo' = [todo EXCEPT ![p] = Unseen]
  /\ UNCHANGED <<fixed, inbound, claims, lock, anchor, outbox, posted, handlers,
                 leaders, publishers, harmed, faults>>

\* They are sorted by INTERNALDATE and processed one after the other, also
\* those that another pod has flagged in the meantime.
NextMail(p, m) ==
  /\ BetweenMails(p)
  /\ m \in todo[p]
  /\ \A n \in todo[p] : m <= n
  /\ todo' = [todo EXCEPT ![p] = @ \ {m}]
  /\ Start(p, m)
  /\ UNCHANGED <<fixed, inbound, claims, lock, anchor, outbox, posted, leaders,
                 publishers, harmed, faults>>

\* The IMAP server fails the poll: the loop releases the leadership.
PollFails(p) ==
  /\ BetweenMails(p)
  /\ Fault({})
  /\ ReleaseLeadership(p)
  /\ UNCHANGED <<fixed, inbound, claims, lock, anchor, outbox, posted, handlers,
                 publishers>>

\* PostgreSQL drops the connection that holds the leader lock; the pod still
\* takes itself for the leader.
LeaderConnectionLost ==
  /\ leaderLock # NoPod
  /\ Fault({})
  /\ leaderLock' = NoPod
  /\ UNCHANGED <<fixed, inbound, claims, lock, anchor, outbox, posted, handlers, todo,
                 leading, publishers>>

-----------------------------------------------------------------------------
(***************************************************************************)
(* The handler of a pod.                                                   *)
(***************************************************************************)
Goto(p, label) ==
  /\ pc' = [pc EXCEPT ![p] = label]
  /\ UNCHANGED msg

\* An exception: Slack's handlers swallow it and the endpoint answers 200,
\* Zammad hears 500, a mail stays unseen.
SeenAnyway == TRUE
ErrorAcks == channel \in {"slack", "command"}

Unlocked(p) == IF lock = p THEN NoPod ELSE lock

\* The handler is done.  To release a lock whose connection is gone raises.
EndHandler(p, ack) ==
  /\ pc' = [pc EXCEPT ![p] = "idle"]
  /\ msg' = [msg EXCEPT ![p] = NoMessage]
  /\ lock' = Unlocked(p)
  /\ LET acks == IF pc[p] \in Locked /\ lock # p THEN ErrorAcks ELSE ack
     IN acked' = IF acks THEN acked \union {msg[p]} ELSE acked
  /\ UNCHANGED deliveries

\* A message whose claim is denied is taken for a duplicate: Slack and Zammad
\* hear 200, a mail is flagged as seen.
Refuse(p) == EndHandler(p, TRUE)

SelectClaim(p) ==
  /\ pc[p] = "select"
  /\ \/ claim[msg[p]] = "fresh" /\ Refuse(p)
     \/ /\ claim[msg[p]] # "fresh"
        /\ Goto(p, IF claim[msg[p]] = "none" THEN "claim" ELSE "retake")
        /\ UNCHANGED <<lock, deliveries, acked>>
  /\ NoFault
  /\ UNCHANGED <<fixed, dropped, claims, anchor, outbox, posted, todo, leaders, publishers>>

\* The INSERT passes if nobody has claimed the message since the SELECT.
InsertClaim(p) ==
  /\ pc[p] = "claim"
  /\ IF claim[msg[p]] = "none"
     THEN /\ claim' = [claim EXCEPT ![msg[p]] = "fresh"]
          /\ Goto(p, AfterClaim)
          /\ UNCHANGED <<lock, deliveries, acked>>
     ELSE Refuse(p) /\ UNCHANGED claim
  /\ NoFault
  /\ UNCHANGED <<fixed, dropped, cooling, anchor, outbox, posted, todo, leaders, publishers>>

\* The UPDATE of a stale claim passes for everyone who has seen it stale.
RetakeClaim(p) ==
  /\ pc[p] = "retake"
  /\ claim' = [claim EXCEPT ![msg[p]] = "fresh"]
  /\ Goto(p, AfterClaim)
  /\ NoFault
  /\ UNCHANGED <<fixed, inbound, cooling, lock, anchor, outbox, posted, todo, leaders,
                 publishers>>

\* A database error in the claim is answered like a duplicate.
ClaimFails(p) ==
  /\ pc[p] \in {"select", "claim", "retake"}
  /\ Fault({msg[p]})
  /\ Refuse(p)
  /\ UNCHANGED <<fixed, dropped, claims, anchor, outbox, posted, todo, leaders, publishers>>

\* A claim is 120 s old.  No handler works that long: the lock is given up
\* after 10 s and a send after its timeouts.
Age(m) ==
  /\ claim[m] = "fresh"
  /\ \A p \in Pods : msg[p] # m
  /\ claim' = [claim EXCEPT ![m] = "stale"]
  /\ UNCHANGED <<fixed, inbound, cooling, lock, anchor, outbox, posted, handlers, todo,
                 leaders, publishers, harmed, faults>>

\* Slack: messages of bots and without text are no requests.  The sender is
\* resolved; what comes within 2 s of the user's last message to this pod is
\* dropped.
SlackScreen(p) ==
  /\ channel = "slack"
  /\ \/ /\ kind[msg[p]] # "request"
        /\ EndHandler(p, TRUE)
        /\ UNCHANGED <<cooling, dropped>>
     \/ /\ kind[msg[p]] = "request" /\ p \in cooling
        /\ dropped' = dropped \union {msg[p]}
        /\ EndHandler(p, TRUE)
        /\ UNCHANGED cooling
     \/ /\ kind[msg[p]] = "request" /\ p \notin cooling
        /\ cooling' = cooling \union {p}
        /\ Goto(p, "lock")
        /\ UNCHANGED <<lock, inbound>>

\* E-mail: a message of an ignored address is flagged, one without a text stays
\* unseen and is read by every poll.  The cooldown only waits.  The claim comes
\* after the sender was resolved.
MailScreen(p) ==
  /\ channel = "email"
  /\ \/ /\ kind[msg[p]] # "request"
        /\ EndHandler(p, kind[msg[p]] = "own")
     \/ /\ kind[msg[p]] = "request"
        /\ Goto(p, "select")
        /\ UNCHANGED <<lock, deliveries, acked>>
  /\ UNCHANGED <<cooling, dropped>>

\* Zammad: articles of the agent and articles without text are no requests.
TicketScreen(p) ==
  /\ channel = "zammad"
  /\ \/ /\ kind[msg[p]] # "request"
        /\ EndHandler(p, TRUE)
     \/ /\ kind[msg[p]] = "request"
        /\ Goto(p, "lock")
        /\ UNCHANGED <<lock, deliveries, acked>>
  /\ UNCHANGED <<cooling, dropped>>

\* A slash command, like the follow-up modal, only has its sender resolved.
CommandScreen(p) ==
  /\ channel = "command"
  /\ Goto(p, "lock")
  /\ UNCHANGED <<lock, inbound, cooling>>

Screen(p) ==
  /\ pc[p] = "screen"
  /\ SlackScreen(p) \/ MailScreen(p) \/ TicketScreen(p) \/ CommandScreen(p)
  /\ NoFault
  /\ UNCHANGED <<fixed, claim, anchor, outbox, posted, todo, leaders, publishers>>

CoolOff(p) ==
  /\ cooling' = cooling \ {p}
  /\ p \in cooling
  /\ UNCHANGED <<fixed, inbound, claim, lock, anchor, outbox, posted, handlers, todo,
                 leaders, publishers, harmed, faults>>

\* The sender cannot be resolved.  A mail is not claimed at that point and is
\* read again.
UserUnresolved(p) ==
  /\ pc[p] = "screen"
  /\ channel # "zammad"
  /\ kind[msg[p]] = "request"
  /\ Fault(IF channel = "email" THEN {} ELSE {msg[p]})
  /\ EndHandler(p, ErrorAcks)
  /\ UNCHANGED <<fixed, dropped, claims, anchor, outbox, posted, todo, leaders, publishers>>

LockTaken == TRUE
LockFree == lock = NoPod

AcquireLock(p) ==
  /\ pc[p] = "lock"
  /\ LockFree
  /\ lock' = p
  /\ Goto(p, IF channel = "zammad" THEN "anchor" ELSE "insert")
  /\ UNCHANGED <<fixed, inbound, claims, anchor, outbox, posted, todo, leaders, publishers,
                 harmed, faults>>

\* 10 s without the lock: TimeoutError.
LockTimeout(p) ==
  /\ pc[p] = "lock"
  /\ ~LockFree
  /\ Fault({msg[p]})
  /\ EndHandler(p, ErrorAcks)
  /\ UNCHANGED <<fixed, dropped, claims, anchor, outbox, posted, todo, leaders, publishers>>

\* PostgreSQL drops the connection that holds the thread's lock; the handler
\* notices when it releases it.
LockConnectionLost ==
  /\ lock # NoPod
  /\ Fault({msg[lock]})
  /\ lock' = NoPod
  /\ UNCHANGED <<fixed, inbound, claims, anchor, outbox, posted, handlers, todo, leaders,
                 publishers>>

\* canonical_ticket_customer_email: the stored and the incoming customer may
\* not be the same person.  Id 0 stands for None.
Conflict(stored, incoming) ==
  \/ stored.id # 0 /\ incoming.id # 0 /\ stored.id # incoming.id
  \/ stored.id = 0 /\ incoming.id = 0 /\ stored.email # incoming.email

\* The first customer seen fixes the ticket's e-mail address; an id that was
\* not known then is added later.
AnchorIgnored(p) == Goto(p, "insert") /\ UNCHANGED <<anchor, lock, inbound>>
ApplyAnchor(p) ==
  LET incoming == customer[msg[p]]
  IN IF anchor # NoCustomer /\ Conflict(anchor, incoming)
     THEN /\ dropped' = dropped \union {msg[p]}
          /\ EndHandler(p, TRUE)
          /\ UNCHANGED anchor
     ELSE /\ anchor' = IF anchor = NoCustomer THEN incoming
                       ELSE [anchor EXCEPT !.id = IF @ = 0 THEN incoming.id ELSE @]
          /\ Goto(p, "insert")
          /\ UNCHANGED <<lock, inbound>>

Anchor(p) ==
  /\ pc[p] = "anchor"
  /\ ApplyAnchor(p)
  /\ NoFault
  /\ UNCHANGED <<fixed, claims, outbox, posted, todo, leaders, publishers>>

\* ON CONFLICT DO NOTHING: a second row for the message is not inserted, and
\* its handler ends.  An e-mail's handler returns False then.
SendFirst(p) == Goto(p, "send") /\ UNCHANGED <<outbox, lock, deliveries, acked>>
InsertRow(p) ==
  IF status[msg[p]] # "none"
  THEN EndHandler(p, channel # "email") /\ UNCHANGED outbox
  ELSE /\ clock' = clock + 1
       /\ createdAt' = [createdAt EXCEPT ![msg[p]] = clock + 1]
       /\ status' = [status EXCEPT ![msg[p]] = "pending"]
       /\ Goto(p, "send")
       /\ UNCHANGED <<lock, deliveries, acked, retries>>

Insert(p) ==
  /\ pc[p] = "insert"
  /\ InsertRow(p)
  /\ NoFault
  /\ UNCHANGED <<fixed, dropped, claims, anchor, posted, todo, leaders, publishers>>

\* The statements of the anchor or of the outbox raise.
InsertFails(p) ==
  /\ pc[p] \in {"anchor", "insert"}
  /\ Fault({msg[p]})
  /\ EndHandler(p, ErrorAcks)
  /\ UNCHANGED <<fixed, dropped, claims, anchor, outbox, posted, todo, leaders, publishers>>

\* _send_cloudevent, without retries: the broker has the event.
Accepted(m) == posted \union {m}

\* The first attempt to publish is made under the thread's lock.  When it fails
\* the row stays for the publishers, and the message counts as taken; the broker
\* may have got it nevertheless.
Send(p) ==
  /\ pc[p] = "send"
  /\ \/ /\ posted' = Accepted(msg[p])
        /\ Goto(p, "mark")
        /\ NoFault
        /\ UNCHANGED <<lock, deliveries, acked>>
     \/ /\ posted' \in {posted, Accepted(msg[p])}
        /\ harmed' = harmed \union {msg[p]}
        /\ EndHandler(p, TRUE)
        /\ UNCHANGED faults
  /\ UNCHANGED <<fixed, dropped, claims, anchor, outbox, todo, leaders, publishers>>

MarkedPublished(m) == [status EXCEPT ![m] = "published"]

Mark(p) ==
  /\ pc[p] = "mark"
  /\ status' = MarkedPublished(msg[p])
  /\ EndHandler(p, TRUE)
  /\ NoFault
  /\ UNCHANGED <<fixed, dropped, claims, anchor, clock, createdAt, retries, posted, todo,
                 leaders, publishers>>

\* The UPDATE raises, or what comes after it: the mail's flag is not stored.
MarkFails(p) ==
  /\ pc[p] = "mark"
  /\ status' \in {status, MarkedPublished(msg[p])}
  /\ Fault({})
  /\ EndHandler(p, ErrorAcks)
  /\ UNCHANGED <<fixed, dropped, claims, anchor, clock, createdAt, retries, posted, todo,
                 leaders, publishers>>

-----------------------------------------------------------------------------
(***************************************************************************)
(* The background publisher of a pod.                                      *)
(***************************************************************************)
Pending == {m \in Messages : status[m] = "pending" /\ retries[m] < MaxRetries}

\* The first rows by created_at; rows that a handler is about to publish are
\* among them.
SelectBatch(p) ==
  /\ p \in Publishers
  /\ ppc[p] = "idle"
  /\ Pending # {}
  /\ batch' = [batch EXCEPT ![p] =
       {m \in Pending :
          Cardinality({n \in Pending : createdAt[n] < createdAt[m]}) < BatchSize}]
  /\ ppc' = [ppc EXCEPT ![p] = "send"]
  /\ UNCHANGED <<fixed, inbound, claims, lock, anchor, outbox, posted, handlers, todo,
                 leaders, harmed, faults>>

First(m, ms) == m \in ms /\ \A n \in ms : createdAt[m] <= createdAt[n]

\* A row is sent whatever its status has become since the SELECT.
PublishRow(p, m) ==
  /\ ppc[p] = "send"
  /\ First(m, batch[p])
  /\ \/ /\ posted' = Accepted(m)
        /\ ppc' = [ppc EXCEPT ![p] = "mark"]
        /\ NoFault
     \/ /\ posted' \in {posted, Accepted(m)}
        /\ ppc' = [ppc EXCEPT ![p] = "fail"]
        /\ Fault({})
  /\ UNCHANGED <<fixed, inbound, claims, lock, anchor, outbox, handlers, todo, leaders, batch>>

\* The publisher goes on with the next row, also after a failure.
NextRow(p, m) ==
  /\ First(m, batch[p])
  /\ batch' = [batch EXCEPT ![p] = @ \ {m}]
  /\ ppc' = [ppc EXCEPT ![p] = IF batch[p] = {m} THEN "idle" ELSE "send"]

MarkPublished(p, m) ==
  /\ ppc[p] = "mark"
  /\ NextRow(p, m)
  /\ status' = MarkedPublished(m)
  /\ UNCHANGED <<fixed, inbound, claims, lock, anchor, clock, createdAt, retries, posted,
                 handlers, todo, leaders, harmed, faults>>

\* mark_outbox_published raises: the row is counted as failed.
MarkPublishedFails(p) ==
  /\ ppc[p] = "mark"
  /\ Fault({})
  /\ ppc' = [ppc EXCEPT ![p] = "fail"]
  /\ UNCHANGED <<fixed, inbound, claims, lock, anchor, outbox, posted, handlers, todo,
                 leaders, batch>>

\* mark_outbox_failed: one more retry, and the last one exhausts the row, also
\* one that another pod has marked as published.
NeverExhausted(m, tried) == status
AfterFailure(m, tried) == [status EXCEPT ![m] = IF tried >= MaxRetries THEN "exhausted" ELSE @]

MarkFailed(p, m) ==
  /\ ppc[p] = "fail"
  /\ NextRow(p, m)
  /\ retries' = [retries EXCEPT ![m] = @ + 1]
  /\ status' = AfterFailure(m, retries[m] + 1)
  /\ UNCHANGED <<fixed, inbound, claims, lock, anchor, clock, createdAt, posted, handlers,
                 todo, leaders, harmed, faults>>

\* mark_outbox_failed raises: the exception is dropped.  It is counted with the
\* failure that it was to note.
MarkFailedFails(p, m) ==
  /\ ppc[p] = "fail"
  /\ NoFault
  /\ NextRow(p, m)
  /\ UNCHANGED <<fixed, inbound, claims, lock, anchor, outbox, posted, handlers, todo,
                 leaders>>

\* reset_outbox_for_retry, which an operator may call for an exhausted row.
Reset(m) ==
  /\ status[m] = "exhausted"
  /\ status' = [status EXCEPT ![m] = "pending"]
  /\ retries' = [retries EXCEPT ![m] = 0]
  /\ UNCHANGED <<fixed, inbound, claims, lock, anchor, clock, createdAt, posted, handlers,
                 todo, leaders, publishers, harmed, faults>>

\* The pod dies and is replaced: PostgreSQL frees its locks, the rest it knew is
\* gone.
Crash(p) ==
  /\ pc[p] # "idle" \/ ppc[p] # "idle" \/ p \in leading
  /\ Fault(IF pc[p] = "idle" THEN {} ELSE {msg[p]})
  /\ pc' = [pc EXCEPT ![p] = "idle"]
  /\ msg' = [msg EXCEPT ![p] = NoMessage]
  /\ lock' = Unlocked(p)
  /\ cooling' = cooling \ {p}
  /\ ReleaseLeadership(p)
  /\ ppc' = [ppc EXCEPT ![p] = "idle"]
  /\ batch' = [batch EXCEPT ![p] = {}]
  /\ UNCHANGED <<fixed, inbound, claim, anchor, outbox, posted>>

-----------------------------------------------------------------------------
HandlerStep(p) ==
  \/ SelectClaim(p) \/ InsertClaim(p) \/ RetakeClaim(p) \/ Screen(p)
  \/ AcquireLock(p) \/ Anchor(p) \/ Insert(p) \/ Send(p) \/ Mark(p)

LeaderStep(p) ==
  \/ BecomeLeader(p) \/ RenewFails(p) \/ Poll(p)
  \/ \E m \in Messages : NextMail(p, m)

PublisherStep(p) ==
  \/ SelectBatch(p)
  \/ \E m \in Messages : PublishRow(p, m) \/ MarkPublished(p, m) \/ MarkFailed(p, m)

Failure(p) ==
  \/ ClaimFails(p) \/ UserUnresolved(p) \/ LockTimeout(p) \/ InsertFails(p) \/ MarkFails(p)
  \/ PollFails(p) \/ MarkPublishedFails(p) \/ Crash(p)
  \/ \E m \in Messages : MarkFailedFails(p, m)

Next ==
  \/ \E p \in Pods : \/ HandlerStep(p) \/ LeaderStep(p) \/ PublisherStep(p)
                     \/ CoolOff(p) \/ Failure(p)
                     \/ \E m \in Messages : Webhook(p, m) \/ Command(p, m) \/ Interact(p, m)
  \/ \E m \in Messages : MailArrives(m) \/ Age(m) \/ Reset(m)
  \/ LeaderConnectionLost \/ LockConnectionLost

Spec == Init /\ [][Next]_vars

\* The tasks of a pod run on: its handlers, its leader loop, its publisher, which
\* returns every 5 s.  Nothing makes a message arrive, a webhook be posted
\* again or a claim be retaken.  To take the lock is tried every 50 ms.
Fairness ==
  \A p \in Pods : /\ WF_vars(HandlerStep(p))
                  /\ WF_vars(LeaderStep(p))
                  /\ WF_vars(PublisherStep(p))

FairSpec == Spec /\ Fairness

-----------------------------------------------------------------------------
(***************************************************************************)
(* Properties.                                                             *)
(***************************************************************************)
\* Type correctness of every variable; whoever holds the thread's lock or the
\* leader's is inside what the lock protects.
TypeOK ==
  /\ \A p \in Pods : /\ lock = p => pc[p] \in Locked
                    /\ leaderLock = p => p \in leading
  /\ channel \in Channels
  /\ kind \in [Messages -> {"request", "own", "empty"}]
  /\ \A m \in Messages : customer[m] \in Customers[m] \union {NoCustomer}
  /\ deliveries \in [Messages -> Nat]
  /\ acked \subseteq Messages /\ dropped \subseteq Messages
  /\ posted \subseteq Messages /\ harmed \subseteq Messages
  /\ cooling \subseteq Pods /\ leading \subseteq Pods
  /\ claim \in [Messages -> {"none", "fresh", "stale"}]
  /\ lock \in Pods \union {NoPod} /\ leaderLock \in Pods \union {NoPod}
  /\ clock \in Nat
  /\ createdAt \in [Messages -> Nat]
  /\ status \in [Messages -> Statuses]
  /\ retries \in [Messages -> Nat]
  /\ pc \in [Pods -> Labels]
  /\ msg \in [Pods -> Messages \union {NoMessage}]
  /\ todo \in [Pods -> SUBSET Messages]
  /\ ppc \in [Pods -> PublisherLabels]
  /\ batch \in [Pods -> SUBSET Messages]
  /\ faults \in Nat

\* A pod serves m between the denial or the grant of its claim and its end.
Served(m) == \E p \in Pods : msg[p] = m /\ pc[p] \in Locked \union {"screen", "lock", "claim", "retake"}

\* What was answered 200, or flagged as seen, is not lost: the message is in the
\* outbox or was dropped on purpose, or the handler that claimed it is still at
\* work, or a fault has hit its handling.  Neither side asks again for such a
\* message.
AckedIsStored ==
  \A m \in acked : kind[m] = "request" =>
    status[m] # "none" \/ m \in dropped \/ m \in harmed \/ Served(m)

\* The broker gets the messages of a thread in the order of the outbox, unless
\* the first attempt to publish the earlier one was cut short: the publishers,
\* which hold no lock, send only what is in the outbox, and the lock keeps a
\* later row out of it while the earlier one is under way.
OvertakenOnlyAfterFault ==
  \A m, n \in Messages :
    (/\ status[m] # "none"
     /\ createdAt[m] < createdAt[n]
     /\ n \in posted
     /\ m \notin posted) => {m, n} \intersect harmed # {}

\* The messages of one ticket never get in under the ids of two customers.
OneCustomerPerTicket ==
  \A m, n \in Messages :
    channel = "zammad" /\ status[m] # "none" /\ status[n] # "none"
      => customer[m].id = 0 \/ customer[n].id = 0 \/ customer[m].id = customer[n].id

\* A mail with a text is flagged or stored in the end, whoever has to become
\* leader first.
MailIsTaken ==
  \A m \in Messages :
    channel = "email" /\ deliveries[m] = 1 /\ kind[m] # "empty"
      ~> m \in acked \/ status[m] # "none"

\* The dispatcher implements the outbox's promise: nothing reaches the broker
\* that is not durable, in whatever order handlers and publishers meet, ...
Outbox == INSTANCE DurablePublish WITH
  stored <- {m \in Messages : status[m] # "none"},
  delivered <- posted,
  givenUp <- {m \in Messages : status[m] = "exhausted"}

ImplementsOutbox == Outbox!Spec

\* ... and what is stored is published or exhausted in the end, whatever fails.
StoredIsSettled == Outbox!StoredIsSettled
==============================================================================
