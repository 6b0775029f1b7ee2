------------------------- MODULE SessionResolution -------------------------
(***************************************************************************)
(* Which session a message belongs to.  The handlers of several request     *)
(* managers look for the active session of the canonical user, lock, clean  *)
(* up, pin or create it, by themselves or through a create-or-get event     *)
(* whose answer may reach another pod; tickets have a session of their own  *)
(* under a fixed id.  Meanwhile sessions are closed with the "new session"  *)
(* button or by a reset, run out, are expired and deleted, and the agent    *)
(* counts its requests.                                                     *)
(*                                                                         *)
(* Every statement with its commit is a step; FOR UPDATE locks last until   *)
(* the commit after them.  SKIP LOCKED takes all rows that are free at the  *)
(* time of the statement.                                                   *)
(***************************************************************************)
EXTENDS Naturals, FiniteSets

CONSTANTS
    Requests,       \* handler coroutines, one message each
    Users,          \* canonical users
    Channels,       \* integration types of scope PER_USER
    Uuids,          \* session ids drawn at random
    Tickets,        \* tickets; their session id is "<type>-<ticket>"
    None,           \* no row, no session
    MaxTries,       \* attempts of create_session: 3
    MaxUpsets       \* bound: sessions closed or run out, and statements or sends
                    \* that fail

Ids == Uuids \union Tickets

ASSUME SessionAssumption ==
    /\ None \notin Ids \union Users \union Requests \union Channels
    /\ Uuids \intersect Tickets = {}
    /\ IsFiniteSet(Ids)
    /\ MaxTries \in Nat \ {0} /\ MaxUpsets \in Nat

VARIABLES
    solo,       \* SESSION_PER_INTEGRATION_TYPE, fixed at the start
    row,        \* request_sessions
    recent,     \* the order of last_request_at: a higher number is later
    lockedBy,   \* row lock of a FOR UPDATE
    pc, job,    \* where each handler stands and what it holds
    event,      \* its create-or-get event
    found,      \* the session that event's handler has come to
    eventTries, \* attempts of create_session there
    ends, faults                \* counters of the bounds

rows == <<row, recent, lockedBy>>
handler == <<pc, job>>
eventVars == <<event, found, eventTries>>
counters == <<ends, faults>>
vars == <<solo, rows, handler, eventVars, counters>>

\* A row whose deactivation is more than thirty days old is "OLD".
Row == [user: Users, channel: Channels \union {None},
        status: {"ACTIVE", "INACTIVE", "OLD"}, late: BOOLEAN]
ASSUME NoneIsNoRow == None \notin Row

Job == [user: Users \union {None}, channel: Channels \union {None},
        ticket: Tickets \union {None}, pin: Ids \union {None},
        got: Ids \union {None}, doomed: SUBSET Ids, tries: 0..MaxTries,
        closed: SUBSET Uuids]
NoJob == [user |-> None, channel |-> None, ticket |-> None, pin |-> None,
          got |-> None, doomed |-> {}, tries |-> 0, closed |-> {}]

Labels == {"idle", "cleanup", "deactivate", "touch", "send", "waiting",
           "extend", "insert", "conflict", "created", "fallback",
           "ticketTouch", "ticketReopen", "ticketInsert", "ticketExtend",
           "handed", "failed"}
EventLabels == {"none", "sent", "insert", "conflict", "created", "again",
                "ready"}

TypeOK ==
    /\ solo \in BOOLEAN
    /\ row \in [Ids -> Row \union {None}]
    /\ recent \in [Ids -> 1..Cardinality(Ids)]
    /\ lockedBy \in [Ids -> Requests \union {None}]
    /\ pc \in [Requests -> Labels]
    /\ job \in [Requests -> Job]
    /\ event \in [Requests -> EventLabels]
    /\ found \in [Requests -> Ids \union {None}]
    /\ eventTries \in [Requests -> 0..MaxTries]
    /\ ends \in 0..MaxUpsets /\ faults \in 0..MaxUpsets

-----------------------------------------------------------------------------
(* What the statements see.                                                 *)

Active == {s \in Ids : row[s] # None /\ row[s].status = "ACTIVE"}

TicketsToo(u, c) == {s \in Active : row[s].user = u /\ ~row[s].late /\ (solo => row[s].channel = c)}

\* What pool a handler looks in: one for all channels, or one for each.
InPool(s, u, c) ==
    /\ s \in Active \ Tickets
    /\ row[s].user = u
    /\ ~row[s].late
    /\ solo => row[s].channel = c
Pool(u, c) == {s \in Ids : InPool(s, u, c)}

\* All that cleanup_old_sessions looks at.
CleanupScope(u, c) == {s \in Active : row[s].user = u /\ (solo => row[s].channel = c)}

\* get_active_session, which does not ask for expires_at.
ActiveOn(u, c) == {s \in Active : row[s].user = u /\ row[s].channel = c}

NoIndex(u, c) == FALSE

\* idx_one_active_session_per_user_integration
Taken(u, c) == ActiveOn(u, c) \ Tickets # {}

Newest(S) == CHOOSE s \in S : \A t \in S : recent[t] <= recent[s]
Free(s, h) == lockedBy[s] \in {None, h}

\* last_request_at = now: the row becomes the latest.
TouchRow(s) == recent' = [t \in Ids |->
    IF t = s THEN Cardinality(Ids)
    ELSE IF recent[t] > recent[s] THEN recent[t] - 1 ELSE recent[t]]

Unlock(h) == lockedBy' = [s \in Ids |-> IF lockedBy[s] = h THEN None ELSE lockedBy[s]]

Goto(h, label) == pc' = [pc EXCEPT ![h] = label]
Got(h, s) == job' = [job EXCEPT ![h].got = s, ![h].tries = 0]

\* Active sessions, at most one for a user and channel as the index has it, and
\* tickets' sessions, some of them closed long ago.  (Other closed sessions are
\* never looked at again, and their ids not drawn twice.)
InitialRows ==
    {r \in [Ids -> [user: Users, channel: Channels \union {None},
                    status: {"ACTIVE", "OLD"}, late: {FALSE}] \union {None}] :
        /\ \A s \in Ids : r[s] # None => (r[s].channel = None <=> s \in Tickets)
        /\ \A s \in Uuids : r[s] # None => r[s].status = "ACTIVE"
        /\ \A s, t \in Uuids : r[s] # None /\ r[t] # None /\ s # t
                /\ r[s].status = "ACTIVE" /\ r[t].status = "ACTIVE"
                => <<r[s].user, r[s].channel>> # <<r[t].user, r[t].channel>>}

Init ==
    /\ solo \in BOOLEAN
    /\ row \in InitialRows
    /\ recent \in {f \in [Ids -> 1..Cardinality(Ids)] :
                    \A s, t \in Ids :
                        /\ f[s] = f[t] => s = t
                        /\ row[s] = None /\ row[t] # None => f[s] < f[t]}
    /\ lockedBy = [s \in Ids |-> None]
    /\ pc = [h \in Requests |-> "idle"]
    /\ job = [h \in Requests |-> NoJob]
    /\ event = [h \in Requests |-> "none"]
    /\ found = [h \in Requests |-> None]
    /\ eventTries = [h \in Requests |-> 0]
    /\ ends = 0 /\ faults = 0

-----------------------------------------------------------------------------
(* A message arrives.                                                       *)

Closed == {s \in Uuids : row[s] # None /\ s \notin Active}

\* A web, CLI or tool request; its metadata may name the session its sender asks
\* for.
Posted == [user: Users, channel: Channels, ticket: {None}, pin: Ids \union {None},
           got: {None}, doomed: {{}}, tries: {0}, closed: {Closed}]

\* The request an event becomes: a Zammad event has a ticket, any other is like a
\* posted request.  (An event with a field missing is answered as an error and
\* comes to nothing.)
Inbound == Posted \union [user: Users, channel: {None}, ticket: Tickets, pin: {None},
                          got: {None}, doomed: {{}}, tries: {0}, closed: {{}}]

\* The request is answered with an error; its event still knows user and channel.
Fails(j) == [NoJob EXCEPT !.user = j.user, !.channel = j.channel]
Fail(h) ==
    /\ Goto(h, "failed")
    /\ job' = [job EXCEPT ![h] = Fails(@)]

-----------------------------------------------------------------------------
(* Tickets: get_or_create_ticket_session.                                   *)

\* The row under the ticket's id; somebody else's ticket is an error.
SelectTicket(h) ==
    /\ pc[h] = "idle"
    /\ \E j \in Inbound :
        LET t == j.ticket IN
        /\ t # None
        /\ IF row[t] # None /\ row[t].user # j.user
           THEN Goto(h, "failed") /\ job' = [job EXCEPT ![h] = Fails(j)]
           ELSE /\ Goto(h, IF row[t] = None THEN "ticketInsert"
                          ELSE IF t \in Active THEN "ticketTouch" ELSE "ticketReopen")
                /\ job' = [job EXCEPT ![h] = j]
    /\ UNCHANGED <<solo, rows, eventVars, counters>>

\* Its UPDATE makes a row that was read as closed active again; one that has been
\* closed since stays so, one that has been deleted is an error.
TouchTicket(h) ==
    /\ pc[h] \in {"ticketTouch", "ticketReopen"}
    /\ LET t == job[h].ticket IN
       \/ /\ row[t] = None
          /\ Fail(h)
          /\ UNCHANGED <<row, recent>>
       \/ /\ row[t] # None /\ Free(t, h)
          /\ row' = [row EXCEPT ![t].late = FALSE,
                         ![t].status = IF pc[h] = "ticketReopen" THEN "ACTIVE" ELSE @]
          /\ TouchRow(t)
          /\ Got(h, t)
          /\ Goto(h, "handed")
    /\ UNCHANGED <<solo, lockedBy, eventVars, counters>>

\* session_id is unique: whoever comes second takes the row as it is, if it is his.
InsertTicket(h) ==
    /\ pc[h] = "ticketInsert"
    /\ LET t == job[h].ticket IN
       \/ /\ row[t] = None
          /\ row' = [row EXCEPT ![t] =
                [user |-> job[h].user, channel |-> None, status |-> "ACTIVE", late |-> FALSE]]
          /\ TouchRow(t)
          /\ Got(h, t)
          /\ Goto(h, "ticketExtend")
       \/ /\ row[t] # None
          /\ IF row[t].user = job[h].user THEN Got(h, t) /\ Goto(h, "ticketExtend")
             ELSE Fail(h)
          /\ UNCHANGED <<row, recent>>
    /\ UNCHANGED <<solo, lockedBy, eventVars, counters>>

-----------------------------------------------------------------------------
(* A pinned session has to be the user's, active, in time and of the channel. *)

PinOfAnyStatus(s, j) ==
    /\ s \in Uuids
    /\ row[s] # None
    /\ row[s].user = j.user
    /\ row[s].channel = j.channel

PinFits(s, j) ==
    /\ s \in Active \ Tickets
    /\ row[s].user = j.user
    /\ ~row[s].late
    /\ row[s].channel = j.channel

Pin(h) ==
    /\ pc[h] = "idle"
    /\ \E j \in Inbound :
        /\ j.pin # None
        /\ IF PinFits(j.pin, j)
           THEN Goto(h, "touch") /\ job' = [job EXCEPT ![h] = [j EXCEPT !.got = j.pin]]
           ELSE Goto(h, "failed") /\ job' = [job EXCEPT ![h] = Fails(j)]
    /\ UNCHANGED <<solo, rows, eventVars, counters>>

-----------------------------------------------------------------------------
(* The pool: look for a session and lock what is free.                      *)

Lookup(h) ==
    /\ pc[h] = "idle"
    /\ \E j \in {i \in Inbound : i.ticket = None /\ i.pin = None} :
        LET free == {s \in Pool(j.user, j.channel) : lockedBy[s] = None} IN
        /\ lockedBy' = [s \in Ids |-> IF s \in free THEN h ELSE lockedBy[s]]
        /\ job' = [job EXCEPT ![h] = IF free = {} THEN j ELSE [j EXCEPT !.got = Newest(free)]]
        /\ Goto(h, IF free = {} THEN "send"
                   ELSE IF Cardinality(free) > 1 THEN "cleanup" ELSE "touch")
    /\ UNCHANGED <<solo, row, recent, eventVars, counters>>

\* cleanup_old_sessions: the newest of all active sessions stays, the others
\* are deactivated by a second statement.
SelectDoomed(h) ==
    /\ pc[h] = "cleanup"
    /\ LET all == CleanupScope(job[h].user, job[h].channel) IN
       IF Cardinality(all) <= 1 THEN Goto(h, "touch") /\ UNCHANGED job
       ELSE /\ job' = [job EXCEPT ![h].doomed = all \ {Newest(all)}]
            /\ Goto(h, "deactivate")
    /\ UNCHANGED <<solo, rows, eventVars, counters>>

Inactive(S) == row' = [s \in Ids |->
    IF s \in S /\ row[s] # None THEN [row[s] EXCEPT !.status = "INACTIVE"] ELSE row[s]]

Deactivate(h) ==
    /\ pc[h] = "deactivate"
    /\ \A s \in job[h].doomed : Free(s, h)
    /\ Inactive(job[h].doomed)
    /\ Unlock(h)
    /\ job' = [job EXCEPT ![h].doomed = {}]
    /\ Goto(h, "touch")
    /\ UNCHANGED <<solo, recent, eventVars, counters>>

\* touch_active_session: the session found first is handed out.
Touch(h) ==
    /\ pc[h] = "touch"
    /\ Free(job[h].got, h)
    /\ TouchRow(job[h].got)
    /\ Unlock(h)
    /\ Goto(h, "handed")
    /\ UNCHANGED <<solo, row, job, eventVars, counters>>

-----------------------------------------------------------------------------
(* Nothing found: ask through an event, wait one second for its answer.     *)

Send(h) ==
    /\ pc[h] = "send"
    /\ Goto(h, "waiting")
    /\ event' = [event EXCEPT ![h] = "sent"]
    /\ UNCHANGED <<solo, job, rows, found, eventTries, counters>>

EventGoto(h, label) == event' = [event EXCEPT ![h] = label]
EventFound(h, s) ==
    /\ found' = [found EXCEPT ![h] = s]
    /\ eventTries' = [eventTries EXCEPT ![h] = 0]
EventOver(h) ==
    /\ EventGoto(h, "none")
    /\ EventFound(h, None)

\* The answer comes to this pod while the future is registered ...
ReadyArrives(h) ==
    /\ event[h] = "ready" /\ pc[h] = "waiting"
    /\ Got(h, found[h])
    /\ Goto(h, "extend")
    /\ EventOver(h)
    /\ UNCHANGED <<solo, rows, counters>>

\* ... or to another pod, or too late.
ReadyLost(h) ==
    /\ event[h] = "ready"
    /\ EventOver(h)
    /\ UNCHANGED <<solo, rows, handler, counters>>

\* The wait times out; reading the session under the correlation id finds nothing.
WaitTimeout(h) ==
    /\ pc[h] = "waiting"
    /\ Goto(h, "insert")
    /\ UNCHANGED <<solo, job, rows, eventVars, counters>>

-----------------------------------------------------------------------------
(* create_session and expires_at, by a handler and by the event's handler.  *)

NewRow(u, c) == \E s \in Uuids :
    /\ row[s] = None
    /\ row' = [row EXCEPT ![s] = [user |-> u, channel |-> c, status |-> "ACTIVE", late |-> FALSE]]
    /\ TouchRow(s)

Created == {s \in Ids : row[s] = None /\ row'[s] # None}

SetExpiry(s) == row' = IF row[s] = None THEN row ELSE [row EXCEPT ![s] = [@ EXCEPT !.late = FALSE]]

\* The row is there, or the index refuses it; the third refusal is an error.
Insert(h) ==
    /\ pc[h] = "insert"
    /\ LET j == job[h] IN
       \/ /\ ~Taken(j.user, j.channel)
          /\ NewRow(j.user, j.channel)
          /\ \E s \in Created : Got(h, s)
          /\ Goto(h, "created")
       \/ /\ Taken(j.user, j.channel)
          /\ job' = [job EXCEPT ![h].tries = @ + 1]
          /\ Goto(h, IF j.tries + 1 < MaxTries THEN "conflict" ELSE "fallback")
          /\ UNCHANGED <<row, recent>>
    /\ UNCHANGED <<solo, lockedBy, eventVars, counters>>

\* After a pause the active session of the channel is taken, or the INSERT repeated.
Conflict(h) ==
    /\ pc[h] = "conflict"
    /\ LET there == ActiveOn(job[h].user, job[h].channel) IN
       IF there = {} THEN Goto(h, "insert") /\ UNCHANGED job
       ELSE Got(h, Newest(there)) /\ Goto(h, "created")
    /\ UNCHANGED <<solo, rows, eventVars, counters>>

\* expires_at is set, whatever state the session is in.
Extend(h) ==
    /\ pc[h] \in {"extend", "created", "ticketExtend"}
    /\ Free(job[h].got, h)
    /\ SetExpiry(job[h].got)
    /\ IF pc[h] = "ticketExtend" /\ row[job[h].got] = None THEN Fail(h)
       ELSE Goto(h, "handed") /\ UNCHANGED job
    /\ UNCHANGED <<solo, recent, lockedBy, eventVars, counters>>

\* The creation has failed: the active session of the channel, or an error.
Fallback(h) ==
    /\ pc[h] = "fallback"
    /\ LET there == ActiveOn(job[h].user, job[h].channel) IN
       IF there = {} THEN Fail(h)
       ELSE Got(h, Newest(there)) /\ Goto(h, "handed")
    /\ UNCHANGED <<solo, rows, eventVars, counters>>

\* The event's handler looks without locks, and again after a failed creation.
EventFind(h) ==
    /\ event[h] \in {"sent", "again"}
    /\ LET there == Pool(job[h].user, job[h].channel) IN
       IF there = {} /\ event[h] = "again" THEN EventOver(h)
       ELSE IF there = {} THEN EventGoto(h, "insert") /\ UNCHANGED <<found, eventTries>>
       ELSE EventFound(h, Newest(there)) /\ EventGoto(h, "ready")
    /\ UNCHANGED <<solo, rows, handler, counters>>

EventInsert(h) ==
    /\ event[h] = "insert"
    /\ LET j == job[h] IN
       \/ /\ ~Taken(j.user, j.channel)
          /\ NewRow(j.user, j.channel)
          /\ \E s \in Created : EventFound(h, s)
          /\ EventGoto(h, "created")
       \/ /\ Taken(j.user, j.channel)
          /\ eventTries' = [eventTries EXCEPT ![h] = @ + 1]
          /\ EventGoto(h, IF eventTries[h] + 1 < MaxTries THEN "conflict" ELSE "again")
          /\ UNCHANGED <<row, recent, found>>
    /\ UNCHANGED <<solo, lockedBy, handler, counters>>

EventConflict(h) ==
    /\ event[h] = "conflict"
    /\ LET there == ActiveOn(job[h].user, job[h].channel) IN
       IF there = {} THEN EventGoto(h, "insert") /\ UNCHANGED <<found, eventTries>>
       ELSE EventFound(h, Newest(there)) /\ EventGoto(h, "created")
    /\ UNCHANGED <<solo, rows, handler, counters>>

EventExtend(h) ==
    /\ event[h] = "created"
    /\ lockedBy[found[h]] = None
    /\ SetExpiry(found[h])
    /\ EventGoto(h, "ready")
    /\ UNCHANGED <<solo, recent, lockedBy, handler, found, eventTries, counters>>

-----------------------------------------------------------------------------
(* Faults.                                                                  *)

Fault == ends + faults < MaxUpsets /\ faults' = faults + 1

\* The event cannot be sent, or a statement of the handler fails.  Without an
\* answer from the event the session is created directly; an error of the
\* creation still looks for an active one, unless the transaction is left
\* aborted; the rest is an error of the request.  An error while cleaning up is
\* passed over, and the touch after it fails in the aborted transaction.
AfterFault(h) ==
    CASE pc[h] \in {"send", "waiting"} -> {"insert"}
      [] pc[h] = "extend" -> {"insert", "failed"}
      [] pc[h] \in {"insert", "conflict", "created"} -> {"fallback", "failed"}
      [] OTHER -> {"failed"}

RequestFails(h) ==
    /\ pc[h] \notin {"idle", "handed", "failed"}
    /\ Fault
    /\ \/ "failed" \in AfterFault(h) /\ Fail(h)
       \/ \E label \in AfterFault(h) \ {"failed"} : Goto(h, label) /\ UNCHANGED job
    /\ Unlock(h)
    /\ UNCHANGED <<solo, row, recent, eventVars, ends>>

\* The event is lost, or its handler fails: an error while it creates the
\* session makes it look again, if it still can; any other is answered with 200
\* and the event gone.
EventFails(h) ==
    /\ event[h] \notin {"none", "ready"}
    /\ Fault
    /\ \/ EventOver(h)
       \/ /\ event[h] \in {"insert", "conflict", "created"}
          /\ EventGoto(h, "again")
          /\ UNCHANGED <<found, eventTries>>
    /\ UNCHANGED <<solo, rows, handler, ends>>

-----------------------------------------------------------------------------
(* The surroundings.                                                        *)

\* The "new session" button, or a reset in the conversation.
Close ==
    /\ ends + faults < MaxUpsets
    /\ ends' = ends + 1
    /\ \E s \in Active : lockedBy[s] = None /\ Inactive({s}) /\ TouchRow(s)
    /\ UNCHANGED <<solo, lockedBy, handler, eventVars, faults>>

\* expires_at is reached.
Lapse ==
    /\ ends + faults < MaxUpsets
    /\ ends' = ends + 1
    /\ \E s \in Active : ~row[s].late /\ row' = [row EXCEPT ![s] = [@ EXCEPT !.late = TRUE]]
    /\ UNCHANGED <<solo, recent, lockedBy, handler, eventVars, faults>>

\* The daily task: expire_old_sessions, then delete_inactive_sessions.
ExpireOld ==
    LET late == {s \in Active : row[s].late} IN
    /\ late # {}
    /\ \A s \in late : lockedBy[s] = None
    /\ Inactive(late)
    /\ UNCHANGED <<solo, recent, lockedBy, handler, eventVars, counters>>

DeleteInactive ==
    LET old == {s \in Ids : row[s] # None /\ row[s].status = "OLD"} IN
    /\ old # {}
    /\ row' = [s \in Ids |-> IF s \in old THEN None ELSE row[s]]
    /\ UNCHANGED <<solo, recent, lockedBy, handler, eventVars, counters>>

CleanupTask == ExpireOld \/ DeleteInactive

Progress(h) ==
    \/ TouchTicket(h) \/ InsertTicket(h)
    \/ SelectDoomed(h) \/ Deactivate(h) \/ Touch(h)
    \/ Send(h) \/ WaitTimeout(h) \/ Insert(h) \/ Conflict(h) \/ Extend(h) \/ Fallback(h)

EventProgress(h) ==
    \/ EventFind(h) \/ EventInsert(h) \/ EventConflict(h) \/ EventExtend(h)

RequestStep(h) ==
    \/ SelectTicket(h) \/ Pin(h) \/ Lookup(h) \/ Progress(h) \/ ReadyArrives(h) \/ ReadyLost(h)
    \/ EventProgress(h) \/ RequestFails(h) \/ EventFails(h)

Next ==
    \/ \E h \in Requests : RequestStep(h)
    \/ Close \/ Lapse \/ CleanupTask

Spec == Init /\ [][Next]_vars

-----------------------------------------------------------------------------
(* Properties.                                                              *)

\* The session a message is given is its user's, a ticket's message has the
\* ticket's session, no other message has one, and channels that are kept apart
\* do not share one, however handlers and events raced for it.
HandedIsOwn ==
    \A h \in Requests : pc[h] = "handed" =>
        LET j == job[h] IN
        /\ j.ticket # None => j.got = j.ticket
        /\ j.ticket = None => j.got \in Uuids
        /\ j.ticket = None /\ row[j.got] # None =>
            /\ row[j.got].user = j.user
            /\ solo \/ j.pin # None => row[j.got].channel = j.channel

\* A session that was closed, or had run out and been deactivated, before a
\* message came is not given to it, unless it is a ticket's.
ClosedStaysClosed ==
    \A h \in Requests : pc[h] = "handed" => job[h].got \notin job[h].closed

\* With a session for each channel, messages of one user on one channel come to
\* the same session, as long as none is closed or runs out.
OneSessionPerChannel ==
    \A g, h \in Requests :
        /\ solo /\ ends = 0
        /\ pc[g] = "handed" /\ pc[h] = "handed"
        /\ job[g].ticket = None /\ job[h].ticket = None
        /\ job[g].user = job[h].user /\ job[g].channel = job[h].channel
        => job[g].got = job[h].got

\* Cleaning up leaves the user one active session in the pool.
HasGeneral(u) == \E s \in Uuids : row[s] # None /\ row[s].status = "ACTIVE" /\ row[s].user = u

OneGeneralSession ==
    [][\A h \in Requests :
        pc[h] = "deactivate" /\ pc'[h] = "touch" /\ HasGeneral(job[h].user)
            => HasGeneral(job[h].user)']_vars
=============================================================================
