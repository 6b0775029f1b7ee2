---------------------- MODULE SessionResolution_proofs ----------------------
(***************************************************************************)
(* Proofs about SessionResolution, for every set of requests, users,       *)
(* channels, session ids and tickets, and every bound on attempts, on      *)
(* sessions that end and on faults.                                        *)
(***************************************************************************)
EXTENDS SessionResolution, FiniteSetTheorems, WellFoundedInduction, TLAPS

USE DEF rows, handler, eventVars, counters

(***************************************************************************)
(* The newest of some sessions.  last_request_at orders them, and there are *)
(* finitely many: a set of later sessions with no smaller one among them    *)
(* belongs to the newest.                                                  *)
(***************************************************************************)
LEMMA NewestIsOne ==
  ASSUME recent \in [Ids -> 1..Cardinality(Ids)], NEW S \in SUBSET Ids, S # {}
  PROVE  Newest(S) \in S
<1> DEFINE Later(s) == {t \in S : recent[t] > recent[s]}
<1> DEFINE All == {Later(s) : s \in S}
<1>1. IsFiniteSet(S)
  BY SessionAssumption, FS_Subset
<1>2. All \subseteq FiniteSubsetsOf(S) /\ All # {}
  <2>1. ASSUME NEW s \in S PROVE Later(s) \in SUBSET S /\ IsFiniteSet(Later(s))
    BY <1>1, FS_Subset
  <2> HIDE DEF Later
  <2>2. All # {}
    OBVIOUS
  <2> QED
    BY <2>1, <2>2 DEF FiniteSubsetsOf
<1>3. PICK F \in All : \A G \in All : <<G, F>> \notin StrictSubsetOrdering(S)
  <2>1. IsWellFoundedOn(StrictSubsetOrdering(S), FiniteSubsetsOf(S))
    BY FS_StrictSubsetOrderingWellFounded
  <2> HIDE DEF All
  <2> QED
    BY <2>1, <1>2, WFMin
<1>4. PICK s \in S : F = Later(s)
  OBVIOUS
<1>5. ASSUME NEW t \in S PROVE recent[t] <= recent[s]
  <2> SUFFICES ASSUME recent[t] > recent[s] PROVE FALSE
    BY SessionAssumption, FS_CardinalityType
  <2>0. \A u \in S : recent[u] \in Int
    BY SessionAssumption, FS_CardinalityType
  <2>1. Later(t) \subseteq Later(s)
    BY <2>0
  <2>2. t \in Later(s) /\ t \notin Later(t)
    BY <2>0
  <2>3. <<Later(t), Later(s)>> \in StrictSubsetOrdering(S)
    BY <2>1, <2>2 DEF StrictSubsetOrdering
  <2> QED
    BY <1>3, <1>4, <2>3
<1> QED
  BY <1>5 DEF Newest

(***************************************************************************)
(* What the table and a handler hold, by where the handler stands.         *)
(***************************************************************************)
RowTypes ==
  /\ row \in [Ids -> Row \union {None}]
  /\ recent \in [Ids -> 1..Cardinality(Ids)]
  /\ lockedBy \in [Ids -> Requests \union {None}]
HandlerTypes == pc \in [Requests -> Labels] /\ job \in [Requests -> Job]
EventTypes ==
  /\ event \in [Requests -> EventLabels]
  /\ found \in [Requests -> Ids \union {None}]
  /\ eventTries \in [Requests -> 0..MaxTries]
CountTypes == solo \in BOOLEAN /\ ends \in 0..MaxUpsets /\ faults \in 0..MaxUpsets

LEMMA TypeParts ==
  /\ TypeOK <=> RowTypes /\ HandlerTypes /\ EventTypes /\ CountTypes
  /\ TypeOK' <=> RowTypes' /\ HandlerTypes' /\ EventTypes' /\ CountTypes'
BY DEF TypeOK, RowTypes, HandlerTypes, EventTypes, CountTypes

PoolLabels == {"cleanup", "deactivate", "send", "waiting", "extend", "insert", "conflict",
               "created", "fallback"}
TicketLabels == {"ticketTouch", "ticketReopen", "ticketInsert", "ticketExtend"}

\* An event is only sent for a message without ticket or pin, and the attempts
\* are counted up only by the one that is creating.
JobKnown(h) ==
  LET j == job[h] IN
  /\ pc[h] \in {"idle", "send"} => event[h] = "none"
  /\ pc[h] = "idle" => j = NoJob
  /\ pc[h] # "idle" => j.user \in Users
  /\ pc[h] \in PoolLabels => j.channel \in Channels /\ j.ticket = None /\ j.pin = None
  /\ pc[h] = "touch" => j.channel \in Channels /\ j.ticket = None
  /\ pc[h] = "handed" /\ j.ticket = None => j.channel \in Channels
  /\ pc[h] \in TicketLabels => j.ticket \in Tickets
  /\ pc[h] = "ticketExtend" \/ (pc[h] = "handed" /\ j.ticket # None) => j.got = j.ticket
  /\ pc[h] # "fallback" => j.tries < MaxTries
  /\ event[h] # "none" => j.user \in Users /\ j.channel \in Channels /\ j.pin = None
  /\ event[h] \in {"none", "sent"} => eventTries[h] = 0
  /\ event[h] # "again" => eventTries[h] < MaxTries

\* A ticket's session has no channel; any other has one, and is deleted by nobody.
RowsKnown ==
  /\ \A s \in Tickets : row[s] # None => row[s].channel = None
  /\ \A s \in Uuids : row[s] # None => row[s].channel \in Channels /\ row[s].status # "OLD"

\* A session that may be given to message j.
Mine(s, j) ==
  /\ s \in Uuids \ j.closed /\ row[s] # None
  /\ row[s].user = j.user
  /\ solo \/ j.pin # None => row[s].channel = j.channel

\* What was closed before the message stays closed, and what the handler or its
\* event has come to may be given to it.
OwnInv(h) ==
  /\ \A s \in job[h].closed : row[s] # None /\ row[s].status # "ACTIVE"
  /\ pc[h] \in {"cleanup", "deactivate", "touch", "extend", "created", "handed"}
        /\ job[h].ticket = None => Mine(job[h].got, job[h])
  /\ event[h] \in {"created", "ready"} => Mine(found[h], job[h])

\* idx_one_active_session_per_user_integration
OneActive ==
  \A s, t \in Uuids :
     (/\ row[s] # None /\ row[s].status = "ACTIVE"
      /\ row[t] # None /\ row[t].status = "ACTIVE"
      /\ row[s].user = row[t].user /\ row[s].channel = row[t].channel) => s = t

\* With a pool for each channel, and nobody closing sessions, nothing is ever
\* deactivated.
Calm ==
  solo /\ ends = 0 =>
    /\ \A s \in Ids : row[s] # None => ~row[s].late
    /\ \A s \in Uuids : row[s] # None => row[s].status = "ACTIVE"
    /\ \A h \in Requests : job[h].doomed = {}

SessionInv ==
  /\ TypeOK /\ RowsKnown /\ OneActive /\ Calm
  /\ \A h \in Requests : JobKnown(h) /\ OwnInv(h)

(***************************************************************************)
(* How the table changes.                                                  *)
(***************************************************************************)
\* A session of the pool is never deleted or given to another user or channel,
\* and one that is not active never becomes so again.
Kept ==
  \A s \in Uuids : row[s] # None =>
     /\ row'[s] # None
     /\ row'[s].user = row[s].user /\ row'[s].channel = row[s].channel
     /\ row[s].status # "ACTIVE" => row'[s].status # "ACTIVE"

\* What a statement leaves of the table.
TableStep == RowTypes' /\ RowsKnown' /\ OneActive' /\ Kept

LEMMA CountIds == Cardinality(Ids) \in Nat
BY SessionAssumption, FS_CardinalityType

LEMMA TouchTypes ==
  ASSUME RowTypes, NEW s \in Ids, TouchRow(s)
  PROVE  recent' \in [Ids -> 1..Cardinality(Ids)]
BY CountIds DEF RowTypes, TouchRow

LEMMA UnlockTypes ==
  ASSUME RowTypes, NEW h \in Requests, Unlock(h)
  PROVE  lockedBy' \in [Ids -> Requests \union {None}]
BY DEF RowTypes, Unlock

\* A row that is there is a record.
LEMMA RowFields ==
  ASSUME RowTypes, NEW s \in Ids, row[s] # None
  PROVE  /\ row[s] \in Row
         /\ row[s].user \in Users /\ row[s].channel \in Channels \union {None}
         /\ row[s].status \in {"ACTIVE", "INACTIVE", "OLD"} /\ row[s].late \in BOOLEAN
BY DEF RowTypes, Row

\* The index, kept by rows that only become less active.
LEMMA IndexKept ==
  ASSUME RowTypes, RowsKnown, OneActive,
         row' \in [Ids -> Row \union {None}],
         \A s \in Ids : row'[s] # None => row[s] # None
            /\ row'[s].user = row[s].user /\ row'[s].channel = row[s].channel
            /\ (row'[s].status = "ACTIVE" => row[s].status = "ACTIVE"),
         \A s \in Uuids : row[s] # None => row'[s] # None /\ row'[s].status # "OLD"
  PROVE  RowsKnown' /\ OneActive' /\ Kept
<1>0. Uuids \subseteq Ids /\ Tickets \subseteq Ids
  BY DEF Ids
<1>1. RowsKnown'
  BY <1>0 DEF RowsKnown
<1>2. OneActive'
  BY <1>0 DEF OneActive
<1>3. Kept
  BY <1>0 DEF Kept
<1> QED
  BY <1>1, <1>2, <1>3

\* expires_at moves: setting it, or reaching it.
LEMMA LateOnly ==
  ASSUME RowTypes, RowsKnown, OneActive, NEW s \in Ids, NEW b \in BOOLEAN, row[s] # None,
         row' = [row EXCEPT ![s] = [@ EXCEPT !.late = b]]
  PROVE  row' \in [Ids -> Row \union {None}] /\ RowsKnown' /\ OneActive' /\ Kept
<1>0. Uuids \subseteq Ids /\ Tickets \subseteq Ids
  BY DEF Ids
<1>1. row' \in [Ids -> Row \union {None}]
  BY RowFields DEF RowTypes, Row
<1>2. \A t \in Ids : row'[t] # None => row[t] # None
            /\ row'[t].user = row[t].user /\ row'[t].channel = row[t].channel
            /\ row'[t].status = row[t].status
  BY RowFields DEF RowTypes, Row
<1>3. \A t \in Ids : row[t] # None => row'[t] # None
  BY RowFields, NoneIsNoRow, <1>1 DEF RowTypes, Row
<1> QED
  BY <1>0, <1>1, <1>2, <1>3, IndexKept DEF RowsKnown

LEMMA InactiveOnly ==
  ASSUME RowTypes, RowsKnown, OneActive, NEW S, Inactive(S)
  PROVE  row' \in [Ids -> Row \union {None}] /\ RowsKnown' /\ OneActive' /\ Kept
<1>0. Uuids \subseteq Ids /\ Tickets \subseteq Ids
  BY DEF Ids
<1>1. row' \in [Ids -> Row \union {None}]
  BY RowFields DEF RowTypes, Row, Inactive
<1>2. \A t \in Ids : row'[t] # None => row[t] # None
            /\ row'[t].user = row[t].user /\ row'[t].channel = row[t].channel
            /\ row'[t].status \in {row[t].status, "INACTIVE"}
  BY RowFields DEF RowTypes, Row, Inactive
<1>3. \A t \in Ids : row[t] # None => row'[t] # None
  BY RowFields, NoneIsNoRow DEF RowTypes, Row, Inactive
<1> QED
  BY <1>0, <1>1, <1>2, <1>3, IndexKept DEF RowsKnown

\* A session that is created, with the index asked.
LEMMA NewRowOnly ==
  ASSUME RowTypes, RowsKnown, OneActive, NEW u \in Users, NEW c \in Channels,
         ~Taken(u, c), NewRow(u, c)
  PROVE  /\ RowsKnown' /\ OneActive' /\ Kept
         /\ row' \in [Ids -> Row \union {None}] /\ recent' \in [Ids -> 1..Cardinality(Ids)]
         /\ \A s \in Created : s \in Uuids /\ row[s] = None /\ row'[s] =
                [user |-> u, channel |-> c, status |-> "ACTIVE", late |-> FALSE]
         /\ \A s \in Ids : row'[s] = row[s] \/ s \in Created
<1>0. Uuids \subseteq Ids /\ Tickets \subseteq Ids /\ Uuids \intersect Tickets = {}
  BY SessionAssumption DEF Ids
<1> DEFINE r == [user |-> u, channel |-> c, status |-> "ACTIVE", late |-> FALSE]
<1>1. PICK n \in Uuids : row[n] = None /\ row' = [row EXCEPT ![n] = r] /\ TouchRow(n)
  BY DEF NewRow
<1>2. r \in Row /\ r # None
  <2>1. r \in Row
    BY DEF Row
  <2> HIDE DEF r
  <2> QED
    BY <2>1, NoneIsNoRow
<1>3. row' \in [Ids -> Row \union {None}] /\ recent' \in [Ids -> 1..Cardinality(Ids)]
  BY <1>0, <1>1, <1>2, TouchTypes DEF RowTypes
<1>4. row'[n] = r /\ \A s \in Ids \ {n} : row'[s] = row[s]
  BY <1>0, <1>1 DEF RowTypes
<1>5. Created = {n}
  BY <1>0, <1>1, <1>2, <1>4 DEF Created
<1>6. RowsKnown'
  BY <1>0, <1>4 DEF RowsKnown
<1>7. ASSUME NEW s \in Uuids, row[s] # None, row[s].status = "ACTIVE"
      PROVE  ~(row[s].user = u /\ row[s].channel = c)
  BY <1>0, <1>7 DEF Taken, ActiveOn, Active
<1>8. OneActive'
  <2> HIDE DEF r
  <2>1. r.user = u /\ r.channel = c
    BY DEF r
  <2>2. SUFFICES ASSUME NEW s \in Uuids, NEW t \in Uuids, s # t,
                        row'[s] # None, row'[s].status = "ACTIVE",
                        row'[t] # None, row'[t].status = "ACTIVE",
                        row'[s].user = row'[t].user, row'[s].channel = row'[t].channel
                 PROVE  FALSE
    BY DEF OneActive
  <2>3. CASE s = n
    BY <1>0, <1>4, <1>7, <2>1, <2>2, <2>3
  <2>4. CASE t = n
    BY <1>0, <1>4, <1>7, <2>1, <2>2, <2>4
  <2>5. CASE s # n /\ t # n
    BY <1>0, <1>4, <2>2, <2>5 DEF OneActive
  <2> QED
    BY <2>3, <2>4, <2>5
<1>9. Kept
  BY <1>0, <1>1, <1>4 DEF Kept
<1> HIDE DEF r
<1>10. \A s \in Created : s \in Uuids /\ row[s] = None /\ row'[s] = r
  BY <1>1, <1>4, <1>5
<1>11. \A s \in Ids : row'[s] = row[s] \/ s \in Created
  BY <1>4, <1>5
<1> QED
  BY <1>3, <1>6, <1>8, <1>9, <1>10, <1>11 DEF r

\* A ticket's row, written anew or made active again: the pool is left alone.
LEMMA TicketRowOnly ==
  ASSUME RowTypes, RowsKnown, OneActive, NEW t \in Tickets, NEW r \in Row, r.channel = None,
         row' = [row EXCEPT ![t] = r]
  PROVE  row' \in [Ids -> Row \union {None}] /\ RowsKnown' /\ OneActive' /\ Kept
<1>0. Uuids \subseteq Ids /\ Tickets \subseteq Ids /\ Uuids \intersect Tickets = {}
  BY SessionAssumption DEF Ids
<1>1. row' \in [Ids -> Row \union {None}]
  BY <1>0 DEF RowTypes
<1>2. row'[t] = r /\ \A s \in Ids \ {t} : row'[s] = row[s]
  BY <1>0 DEF RowTypes
<1>3. \A s \in Uuids : row'[s] = row[s]
  BY <1>0, <1>2
<1>4. RowsKnown'
  BY <1>0, <1>2 DEF RowsKnown
<1>5. OneActive' /\ Kept
  BY <1>3 DEF OneActive, Kept
<1> QED
  BY <1>1, <1>4, <1>5

\* A table nobody writes to.
LEMMA TableStill ==
  ASSUME RowTypes, RowsKnown, OneActive, row' = row
  PROVE  row' \in [Ids -> Row \union {None}] /\ RowsKnown' /\ OneActive' /\ Kept
BY DEF RowTypes, RowsKnown, OneActive, Kept

\* Every step leaves the table in order.
LEMMA TableNext == SessionInv /\ [Next]_vars => TableStep
<1> SUFFICES ASSUME SessionInv, [Next]_vars PROVE TableStep
  OBVIOUS
<1>0. /\ RowTypes /\ RowsKnown /\ OneActive /\ HandlerTypes /\ EventTypes
      /\ \A h \in Requests : JobKnown(h) /\ OwnInv(h)
  BY TypeParts DEF SessionInv
<1>00. Uuids \subseteq Ids /\ Tickets \subseteq Ids /\ Uuids \intersect Tickets = {}
  BY SessionAssumption DEF Ids
<1>01. ASSUME row' = row, recent' = recent, lockedBy' = lockedBy PROVE TableStep
  BY <1>0, <1>01, TableStill DEF TableStep, RowTypes
<1>02. ASSUME NEW h \in Requests, row' = row, recent' = recent, Unlock(h) PROVE TableStep
  BY <1>0, <1>02, TableStill, UnlockTypes DEF TableStep, RowTypes
<1>1. ASSUME NEW h \in Requests, TouchTicket(h) PROVE TableStep
  <2> DEFINE t == job[h].ticket
  <2> DEFINE r == [row[t] EXCEPT !.late = FALSE,
                                 !.status = IF pc[h] = "ticketReopen" THEN "ACTIVE" ELSE @]
  <2>1. t \in Tickets
    BY <1>0, <1>1 DEF TouchTicket, JobKnown, TicketLabels
  <2>2. CASE row' = row /\ recent' = recent
    BY <1>01, <1>1, <2>2 DEF TouchTicket
  <2>3. CASE row[t] # None /\ row' = [row EXCEPT ![t] = r] /\ TouchRow(t)
    <3>1. r \in Row /\ r.channel = None
      <4>1. row[t] \in Row /\ row[t].channel = None
        BY <1>0, <1>00, <2>1, <2>3, RowFields DEF RowsKnown
      <4> HIDE DEF t
      <4> QED
        BY <4>1 DEF Row
    <3> HIDE DEF r, t
    <3> QED
      BY <1>0, <1>00, <1>1, <2>1, <2>3, <3>1, TicketRowOnly, TouchTypes
         DEF TouchTicket, TableStep, RowTypes
  <2>4. ASSUME row[t] # None,
               row' = [row EXCEPT ![t].late = FALSE,
                         ![t].status = IF pc[h] = "ticketReopen" THEN "ACTIVE" ELSE @]
        PROVE  row' = [row EXCEPT ![t] = r]
    BY <1>0, <1>00, <2>1, <2>4, RowFields DEF RowTypes, Row
  <2> QED
    BY <1>1, <2>2, <2>3, <2>4 DEF TouchTicket
<1>2. ASSUME NEW h \in Requests, InsertTicket(h) PROVE TableStep
  <2> DEFINE t == job[h].ticket
  <2> DEFINE r == [user |-> job[h].user, channel |-> None, status |-> "ACTIVE", late |-> FALSE]
  <2>1. t \in Tickets /\ job[h].user \in Users
    BY <1>0, <1>2 DEF InsertTicket, JobKnown, TicketLabels
  <2>2. r \in Row /\ r.channel = None
    BY <2>1 DEF Row
  <2>3. CASE row' = row /\ recent' = recent
    BY <1>01, <1>2, <2>3 DEF InsertTicket
  <2>4. CASE row' = [row EXCEPT ![t] = r] /\ TouchRow(t)
    <3> HIDE DEF r, t
    <3> QED
      BY <1>0, <1>00, <1>2, <2>1, <2>2, <2>4, TicketRowOnly, TouchTypes
         DEF InsertTicket, TableStep, RowTypes
  <2> QED
    BY <1>2, <2>3, <2>4 DEF InsertTicket
<1>3. ASSUME NEW h \in Requests, Deactivate(h) PROVE TableStep
  BY <1>0, <1>3, InactiveOnly, UnlockTypes DEF Deactivate, TableStep, RowTypes
<1>4. ASSUME NEW h \in Requests, Insert(h) PROVE TableStep
  <2>1. job[h].user \in Users /\ job[h].channel \in Channels
    BY <1>0, <1>4 DEF Insert, JobKnown, PoolLabels
  <2>2. CASE row' = row /\ recent' = recent
    BY <1>01, <1>4, <2>2 DEF Insert
  <2>3. CASE ~Taken(job[h].user, job[h].channel) /\ NewRow(job[h].user, job[h].channel)
    BY <1>0, <1>4, <2>1, <2>3, NewRowOnly DEF Insert, TableStep, RowTypes
  <2> QED
    BY <1>4, <2>2, <2>3 DEF Insert
<1>5. ASSUME NEW h \in Requests, EventInsert(h) PROVE TableStep
  <2>1. job[h].user \in Users /\ job[h].channel \in Channels
    BY <1>0, <1>5 DEF EventInsert, JobKnown
  <2>2. CASE row' = row /\ recent' = recent
    BY <1>01, <1>5, <2>2 DEF EventInsert
  <2>3. CASE ~Taken(job[h].user, job[h].channel) /\ NewRow(job[h].user, job[h].channel)
    BY <1>0, <1>5, <2>1, <2>3, NewRowOnly DEF EventInsert, TableStep, RowTypes
  <2> QED
    BY <1>5, <2>2, <2>3 DEF EventInsert
<1>6. ASSUME NEW s \in Ids, SetExpiry(s), recent' = recent, lockedBy' = lockedBy
      PROVE  TableStep
  BY <1>0, <1>01, <1>6, LateOnly DEF SetExpiry, TableStep, RowTypes
<1>7. ASSUME NEW h \in Requests, Extend(h) PROVE TableStep
  <2>1. job[h].got \in Ids
    BY <1>0, <1>00, <1>7 DEF Extend, JobKnown, OwnInv, Mine, PoolLabels, TicketLabels
  <2> QED
    BY <1>6, <1>7, <2>1 DEF Extend
<1>8. ASSUME NEW h \in Requests, EventExtend(h) PROVE TableStep
  <2>1. found[h] \in Ids
    BY <1>0, <1>00, <1>8 DEF EventExtend, OwnInv, Mine
  <2> QED
    BY <1>6, <1>8, <2>1 DEF EventExtend
<1>9. ASSUME Close PROVE TableStep
  <2>1. PICK s \in Active : Inactive({s}) /\ TouchRow(s)
    BY <1>9 DEF Close
  <2> QED
    BY <1>0, <1>9, <2>1, InactiveOnly, TouchTypes DEF Close, TableStep, RowTypes, Active
<1>10. ASSUME Lapse PROVE TableStep
  <2>1. PICK s \in Active : row' = [row EXCEPT ![s] = [@ EXCEPT !.late = TRUE]]
    BY <1>10 DEF Lapse
  <2> QED
    BY <1>0, <1>10, <2>1, LateOnly DEF Lapse, TableStep, RowTypes, Active
<1>11. ASSUME ExpireOld PROVE TableStep
  BY <1>0, <1>11, InactiveOnly DEF ExpireOld, TableStep, RowTypes
<1>12. ASSUME DeleteInactive PROVE TableStep
  <2>1. row' \in [Ids -> Row \union {None}]
    BY <1>0, <1>12 DEF DeleteInactive, RowTypes
  <2>2. \A s \in Uuids : row'[s] = row[s]
    BY <1>0, <1>00, <1>12 DEF DeleteInactive, RowsKnown
  <2>3. \A s \in Tickets : row'[s] = row[s] \/ row'[s] = None
    BY <1>0, <1>00, <1>12 DEF DeleteInactive
  <2> QED
    BY <1>0, <1>12, <2>1, <2>2, <2>3
       DEF DeleteInactive, TableStep, RowTypes, RowsKnown, OneActive, Kept
<1>13. ASSUME NEW h \in Requests, Lookup(h) PROVE TableStep
  <2>1. lockedBy' \in [Ids -> Requests \union {None}]
    BY <1>0, <1>13 DEF Lookup, RowTypes
  <2>2. row' = row /\ recent' = recent
    BY <1>13 DEF Lookup
  <2> QED
    BY <1>0, <2>1, <2>2, TableStill DEF TableStep, RowTypes
<1>14. ASSUME NEW h \in Requests, Touch(h) PROVE TableStep
  <2>1. job[h].got \in Ids
    BY <1>0, <1>00, <1>14 DEF Touch, JobKnown, OwnInv, Mine
  <2> QED
    BY <1>0, <1>14, <2>1, TableStill, TouchTypes, UnlockTypes DEF Touch, TableStep, RowTypes
<1>15. ASSUME NEW h \in Requests, SelectTicket(h) \/ Pin(h) \/ SelectDoomed(h) \/ Send(h)
              \/ WaitTimeout(h) \/ Conflict(h) \/ Fallback(h)
       PROVE  TableStep
  BY <1>01, <1>15 DEF SelectTicket, Pin, SelectDoomed, Send, WaitTimeout, Conflict, Fallback
<1>16. ASSUME NEW h \in Requests, ReadyArrives(h) \/ ReadyLost(h) \/ EventFind(h)
              \/ EventConflict(h) \/ EventFails(h)
       PROVE  TableStep
  BY <1>01, <1>16 DEF ReadyArrives, ReadyLost, EventFind, EventConflict, EventFails
<1>17. ASSUME NEW h \in Requests, RequestFails(h) PROVE TableStep
  BY <1>02, <1>17 DEF RequestFails
<1>18. ASSUME UNCHANGED vars PROVE TableStep
  BY <1>01, <1>18 DEF vars
<1> QED
  BY <1>1, <1>2, <1>3, <1>4, <1>5, <1>7, <1>8, <1>9, <1>10, <1>11, <1>12, <1>13, <1>14, <1>15,
     <1>16, <1>17, <1>18
     DEF Next, RequestStep, Progress, EventProgress, CleanupTask

(***************************************************************************)
(* The handlers and their events.                                          *)
(***************************************************************************)
\* What a message brings: a ticket, or a channel and what is closed already.
LEMMA InboundKnown ==
  ASSUME RowTypes, NEW j \in Inbound
  PROVE  /\ j \in Job /\ j.user \in Users /\ j.got = None /\ j.doomed = {} /\ j.tries = 0
         /\ j.ticket = None => j.channel \in Channels /\ j.closed = Closed
         /\ j.ticket # None => j.ticket \in Tickets /\ j.closed = {}
<1>0. Closed \in SUBSET Uuids
  BY DEF Closed
<1>0a. 0 \in 0..MaxTries
  BY SessionAssumption
<1>1. CASE j \notin Posted
  BY <1>0a, <1>1, SessionAssumption DEF Inbound, Job, Ids
<1>2. CASE j \in Posted
  <2> HIDE DEF Closed
  <2> QED
    BY <1>0, <1>0a, <1>2 DEF Posted, Job
<1> QED
  BY <1>1, <1>2

LEMMA FailsKnown ==
  ASSUME NEW j \in Job
  PROVE  /\ Fails(j) \in Job /\ Fails(j).user = j.user /\ Fails(j).channel = j.channel
         /\ Fails(j).ticket = None /\ Fails(j).pin = None /\ Fails(j).got = None
         /\ Fails(j).doomed = {} /\ Fails(j).tries = 0 /\ Fails(j).closed = {}
<1>1. 0 \in 0..MaxTries
  BY SessionAssumption
<1> QED
  BY <1>1 DEF Fails, NoJob, Job

LEMMA GotKnown ==
  ASSUME HandlerTypes, NEW h \in Requests, NEW s \in Ids, Got(h, s)
  PROVE  /\ job' \in [Requests -> Job]
         /\ job'[h] = [job[h] EXCEPT !.got = s, !.tries = 0]
         /\ job'[h].got = s /\ job'[h].tries = 0 /\ job'[h].user = job[h].user
         /\ job'[h].channel = job[h].channel /\ job'[h].ticket = job[h].ticket
         /\ job'[h].pin = job[h].pin /\ job'[h].doomed = job[h].doomed
         /\ job'[h].closed = job[h].closed
<1>1. 0 \in 0..MaxTries
  BY SessionAssumption
<1> QED
  BY <1>1 DEF HandlerTypes, Got, Job

\* A step of one handler or its event is none of any other.
Same(g) == /\ pc'[g] = pc[g] /\ job'[g] = job[g]
           /\ event'[g] = event[g] /\ found'[g] = found[g] /\ eventTries'[g] = eventTries[g]

LEMMA OthersKeep ==
  ASSUME HandlerTypes, EventTypes, NEW h \in Requests, RequestStep(h),
         NEW g \in Requests, g # h
  PROVE  Same(g)
<1>1. ASSUME SelectTicket(h) \/ Pin(h) \/ Lookup(h) \/ TouchTicket(h) \/ InsertTicket(h)
             \/ SelectDoomed(h) \/ Deactivate(h) \/ Touch(h)
      PROVE  Same(g)
  BY <1>1 DEF Same, HandlerTypes, SelectTicket, Pin, Lookup, TouchTicket, InsertTicket,
              SelectDoomed, Deactivate, Touch, Goto, Got, Fail
<1>2. ASSUME Send(h) \/ WaitTimeout(h) \/ Insert(h) \/ Conflict(h) \/ Extend(h) \/ Fallback(h)
      PROVE  Same(g)
  BY <1>2 DEF Same, HandlerTypes, EventTypes, Send, WaitTimeout, Insert, Conflict, Extend,
              Fallback, Goto, Got, Fail
<1>3. ASSUME EventFind(h) \/ EventInsert(h) \/ EventConflict(h) \/ EventExtend(h)
      PROVE  Same(g)
  BY <1>3 DEF Same, EventTypes, EventFind, EventInsert, EventConflict, EventExtend, EventGoto,
              EventFound, EventOver
<1>4. ASSUME ReadyArrives(h) \/ ReadyLost(h) \/ RequestFails(h) \/ EventFails(h)
      PROVE  Same(g)
  BY <1>4 DEF Same, HandlerTypes, EventTypes, ReadyArrives, ReadyLost, RequestFails, EventFails,
              EventGoto, EventFound, EventOver, Goto, Got, Fail
<1> QED
  BY <1>1, <1>2, <1>3, <1>4 DEF RequestStep, Progress, EventProgress

LEMMA SameKnown ==
  ASSUME HandlerTypes, NEW g \in Requests, JobKnown(g), OwnInv(g), Same(g), Kept, solo' = solo
  PROVE  JobKnown(g)' /\ OwnInv(g)'
<1>1. JobKnown(g)'
  BY DEF Same, JobKnown
<1>2. ASSUME NEW s \in job[g].closed PROVE row'[s] # None /\ row'[s].status # "ACTIVE"
  BY <1>2 DEF OwnInv, Kept, HandlerTypes, Job
<1>3. ASSUME NEW s, Mine(s, job[g])
      PROVE  /\ s \in Uuids \ job[g].closed /\ row'[s] # None
             /\ row'[s].user = job[g].user
             /\ solo \/ job[g].pin # None => row'[s].channel = job[g].channel
  BY <1>3 DEF Mine, Kept
<1> QED
  BY <1>1, <1>2, <1>3 DEF Same, OwnInv, Mine

\* What is kept of a session a handler holds.
LEMMA MineKept ==
  ASSUME Kept, solo' = solo, NEW j, NEW s, Mine(s, j)
  PROVE  /\ s \in Uuids \ j.closed /\ row'[s] # None /\ row'[s].user = j.user
         /\ solo' \/ j.pin # None => row'[s].channel = j.channel
BY DEF Mine, Kept

LEMMA ClosedKept ==
  ASSUME HandlerTypes, NEW h \in Requests, OwnInv(h), Kept
  PROVE  \A s \in job[h].closed : row'[s] # None /\ row'[s].status # "ACTIVE"
BY DEF OwnInv, Kept, HandlerTypes, Job

\* The sessions a statement finds are ones the message may be given.
LEMMA PoolIsMine ==
  ASSUME RowTypes, RowsKnown, HandlerTypes, NEW h \in Requests, OwnInv(h), job[h].pin = None,
         NEW s \in Pool(job[h].user, job[h].channel)
  PROVE  Mine(s, job[h])
BY DEF Pool, InPool, Active, Mine, OwnInv, Ids

LEMMA ActiveIsMine ==
  ASSUME RowTypes, RowsKnown, HandlerTypes, NEW h \in Requests, OwnInv(h),
         job[h].channel \in Channels, NEW s \in ActiveOn(job[h].user, job[h].channel)
  PROVE  Mine(s, job[h])
BY SessionAssumption DEF ActiveOn, Active, Mine, OwnInv, RowsKnown, Ids

\* The steps of a message that belongs to a ticket, or is pinned, and how it comes
\* to the pool.
LEMMA ArrivalSteps ==
  ASSUME SessionInv, TableStep, solo' = solo, NEW h \in Requests,
         \/ SelectTicket(h) \/ TouchTicket(h) \/ InsertTicket(h) \/ Pin(h) \/ Lookup(h)
  PROVE  HandlerTypes' /\ EventTypes' /\ JobKnown(h)' /\ OwnInv(h)'
<1>0. /\ RowTypes /\ RowsKnown /\ HandlerTypes /\ EventTypes /\ JobKnown(h) /\ OwnInv(h) /\ Kept
  BY TypeParts DEF SessionInv, TableStep
<1>00. /\ Uuids \subseteq Ids /\ Tickets \subseteq Ids /\ Uuids \intersect Tickets = {}
       /\ None \notin Ids \union Users \union Requests \union Channels
       /\ MaxTries \in Nat \ {0}
  BY SessionAssumption DEF Ids
<1>1. EventTypes' /\ event' = event /\ found' = found /\ eventTries' = eventTries
  BY <1>0 DEF EventTypes, SelectTicket, TouchTicket, InsertTicket, Pin, Lookup
<1>2. \A s \in job[h].closed : row'[s] # None /\ row'[s].status # "ACTIVE"
  BY <1>0, ClosedKept
<1>3. ASSUME job'[h] = Fails(job[h]), pc'[h] = "failed", pc[h] # "idle"
      PROVE  JobKnown(h)' /\ OwnInv(h)'
  <2>1. /\ job[h] \in Job /\ job[h].user \in Users
        /\ job'[h].user = job[h].user /\ job'[h].channel = job[h].channel
        /\ job'[h].ticket = None /\ job'[h].pin = None
        /\ job'[h].closed = {} /\ job'[h].tries = 0
    BY <1>0, <1>3, FailsKnown DEF HandlerTypes, JobKnown
  <2>2. JobKnown(h)'
    BY <1>0, <1>00, <1>1, <1>3, <2>1 DEF JobKnown, PoolLabels, TicketLabels
  <2>3. event[h] \in {"created", "ready"} => job[h].pin = None
    BY <1>0 DEF JobKnown
  <2>4. OwnInv(h)'
    BY <1>0, <1>1, <1>3, <2>1, <2>3 DEF OwnInv, Mine, Kept
  <2> QED
    BY <2>2, <2>4
<1>4. CASE SelectTicket(h)
  <2>1. PICK j \in Inbound :
          /\ j.ticket # None
          /\ \/ Goto(h, "failed") /\ job' = [job EXCEPT ![h] = Fails(j)]
             \/ /\ \E l \in {"ticketInsert", "ticketTouch", "ticketReopen"} : Goto(h, l)
                /\ job' = [job EXCEPT ![h] = j]
    BY <1>4 DEF SelectTicket
  <2>2. /\ j \in Job /\ j.user \in Users /\ j.ticket \in Tickets /\ j.closed = {} /\ j.tries = 0
    BY <1>0, <2>1, InboundKnown
  <2>3. /\ Fails(j) \in Job /\ Fails(j).user \in Users /\ Fails(j).closed = {}
        /\ Fails(j).tries = 0
    BY <2>2, FailsKnown
  <2>4. pc[h] = "idle" /\ event[h] = "none"
    BY <1>0, <1>4 DEF SelectTicket, JobKnown
  <2>5. HandlerTypes'
    BY <1>0, <2>1, <2>2, <2>3 DEF HandlerTypes, Goto, Labels
  <2>6. /\ job'[h] \in {j, Fails(j)}
        /\ \/ pc'[h] = "failed"
           \/ pc'[h] \in {"ticketInsert", "ticketTouch", "ticketReopen"} /\ job'[h] = j
    BY <1>0, <2>1 DEF HandlerTypes, Goto
  <2>7. JobKnown(h)'
    BY <1>0, <1>00, <1>1, <2>2, <2>3, <2>4, <2>6 DEF JobKnown, PoolLabels, TicketLabels
  <2>8. OwnInv(h)'
    BY <1>1, <2>2, <2>3, <2>4, <2>6 DEF OwnInv
  <2> QED
    BY <1>1, <2>5, <2>7, <2>8
<1>5. CASE TouchTicket(h)
  <2>0. job[h].ticket \in Tickets /\ pc[h] \in {"ticketTouch", "ticketReopen"}
    BY <1>0, <1>5 DEF TouchTicket, JobKnown, TicketLabels
  <2>1. CASE Fail(h)
    <3>1. Fails(job[h]) \in Job
      BY <1>0, FailsKnown DEF HandlerTypes
    <3>2. HandlerTypes' /\ job'[h] = Fails(job[h]) /\ pc'[h] = "failed"
      BY <1>0, <2>1, <3>1 DEF HandlerTypes, Fail, Goto, Labels
    <3> QED
      BY <1>1, <1>3, <2>0, <3>2
  <2>2. CASE Got(h, job[h].ticket) /\ Goto(h, "handed")
    <3>1. /\ job' \in [Requests -> Job] /\ job'[h].got = job[h].ticket /\ job'[h].tries = 0
          /\ job'[h].user = job[h].user /\ job'[h].channel = job[h].channel
          /\ job'[h].ticket = job[h].ticket /\ job'[h].pin = job[h].pin
          /\ job'[h].closed = job[h].closed
      BY <1>0, <1>00, <2>0, <2>2, GotKnown
    <3>2. HandlerTypes' /\ pc'[h] = "handed"
      BY <1>0, <2>2, <3>1 DEF HandlerTypes, Goto, Labels
    <3>3. JobKnown(h)'
      BY <1>0, <1>00, <1>1, <2>0, <3>1, <3>2 DEF JobKnown, PoolLabels, TicketLabels
    <3>4. OwnInv(h)'
      BY <1>0, <1>00, <1>1, <1>2, <2>0, <3>1, <3>2, MineKept DEF OwnInv, Mine, Kept
    <3> QED
      BY <1>1, <3>2, <3>3, <3>4
  <2> QED
    BY <1>5, <2>1, <2>2 DEF TouchTicket
<1>6. CASE InsertTicket(h)
  <2>0. job[h].ticket \in Tickets /\ pc[h] = "ticketInsert"
    BY <1>0, <1>6 DEF InsertTicket, JobKnown, TicketLabels
  <2>1. CASE Fail(h)
    <3>1. Fails(job[h]) \in Job
      BY <1>0, FailsKnown DEF HandlerTypes
    <3>2. HandlerTypes' /\ job'[h] = Fails(job[h]) /\ pc'[h] = "failed"
      BY <1>0, <2>1, <3>1 DEF HandlerTypes, Fail, Goto, Labels
    <3> QED
      BY <1>1, <1>3, <2>0, <3>2
  <2>2. CASE Got(h, job[h].ticket) /\ Goto(h, "ticketExtend")
    <3>1. /\ job' \in [Requests -> Job] /\ job'[h].got = job[h].ticket /\ job'[h].tries = 0
          /\ job'[h].user = job[h].user /\ job'[h].channel = job[h].channel
          /\ job'[h].ticket = job[h].ticket /\ job'[h].pin = job[h].pin
          /\ job'[h].closed = job[h].closed
      BY <1>0, <1>00, <2>0, <2>2, GotKnown
    <3>2. HandlerTypes' /\ pc'[h] = "ticketExtend"
      BY <1>0, <2>2, <3>1 DEF HandlerTypes, Goto, Labels
    <3>3. JobKnown(h)'
      BY <1>0, <1>00, <1>1, <2>0, <3>1, <3>2 DEF JobKnown, PoolLabels, TicketLabels
    <3>4. OwnInv(h)'
      BY <1>0, <1>00, <1>1, <1>2, <2>0, <3>1, <3>2, MineKept DEF OwnInv, Mine, Kept
    <3> QED
      BY <1>1, <3>2, <3>3, <3>4
  <2> QED
    BY <1>6, <2>1, <2>2 DEF InsertTicket
<1>7. CASE Pin(h)
  <2>1. PICK j \in Inbound :
          /\ j.pin # None
          /\ \/ /\ PinFits(j.pin, j) /\ Goto(h, "touch")
                /\ job' = [job EXCEPT ![h] = [j EXCEPT !.got = j.pin]]
             \/ Goto(h, "failed") /\ job' = [job EXCEPT ![h] = Fails(j)]
    BY <1>7 DEF Pin
  <2>2. /\ j \in Job /\ j.user \in Users /\ j.tries = 0
    BY <1>0, InboundKnown
  <2>3. j.ticket = None /\ j.channel \in Channels /\ j.closed = Closed
    <3>1. j.ticket = None
      <4> HIDE DEF Closed
      <4> QED
        BY <2>1 DEF Inbound, Posted
    <3> QED
      BY <1>0, <3>1, InboundKnown
  <2>4. pc[h] = "idle" /\ event[h] = "none" /\ row' = row
    BY <1>0, <1>7 DEF Pin, JobKnown
  <2>5. CASE Goto(h, "failed") /\ job' = [job EXCEPT ![h] = Fails(j)]
    <3>1. /\ Fails(j) \in Job /\ Fails(j).user \in Users /\ Fails(j).closed = {}
          /\ Fails(j).tries = 0
      BY <2>2, FailsKnown
    <3>2. HandlerTypes' /\ job'[h] = Fails(j) /\ pc'[h] = "failed"
      BY <1>0, <2>5, <3>1 DEF HandlerTypes, Goto, Labels
    <3>3. JobKnown(h)'
      BY <1>0, <1>00, <1>1, <2>4, <3>1, <3>2 DEF JobKnown, PoolLabels, TicketLabels
    <3>4. OwnInv(h)'
      BY <1>1, <2>4, <3>1, <3>2 DEF OwnInv
    <3> QED
      BY <1>1, <3>2, <3>3, <3>4
  <2>6. CASE /\ PinFits(j.pin, j) /\ Goto(h, "touch")
             /\ job' = [job EXCEPT ![h] = [j EXCEPT !.got = j.pin]]
    <3> DEFINE k == [j EXCEPT !.got = j.pin]
    <3>1. /\ k \in Job /\ k.user = j.user /\ k.channel = j.channel /\ k.ticket = None
          /\ k.got = j.pin /\ k.pin = j.pin /\ k.tries = 0 /\ k.closed = Closed
      <4> HIDE DEF Closed
      <4> QED
        BY <2>2, <2>3 DEF Job
    <3> HIDE DEF k
    <3>2. HandlerTypes' /\ job'[h] = k /\ pc'[h] = "touch"
      BY <1>0, <2>6, <3>1 DEF HandlerTypes, Goto, Labels, k
    <3>3. JobKnown(h)'
      BY <1>0, <1>00, <1>1, <2>2, <2>3, <2>4, <3>1, <3>2 DEF JobKnown, PoolLabels, TicketLabels
    <3>4. /\ j.pin \in Uuids \ Closed /\ row[j.pin] # None
          /\ row[j.pin].user = j.user /\ row[j.pin].channel = j.channel
      BY <2>6 DEF PinFits, Active, Closed, Ids
    <3>5. \A s \in Closed : row[s] # None /\ row[s].status # "ACTIVE"
      BY <1>00 DEF Closed, Active
    <3>6. OwnInv(h)'
      BY <1>1, <2>4, <3>1, <3>2, <3>4, <3>5 DEF OwnInv, Mine
    <3> QED
      BY <1>1, <3>2, <3>3, <3>6
  <2> QED
    BY <2>1, <2>5, <2>6
<1>8. CASE Lookup(h)
  <2>1. PICK j \in {i \in Inbound : i.ticket = None /\ i.pin = None} :
        LET free == {s \in Pool(j.user, j.channel) : lockedBy[s] = None} IN
        /\ job' = [job EXCEPT ![h] = IF free = {} THEN j ELSE [j EXCEPT !.got = Newest(free)]]
        /\ Goto(h, IF free = {} THEN "send"
                   ELSE IF Cardinality(free) > 1 THEN "cleanup" ELSE "touch")
    BY <1>8 DEF Lookup
  <2> DEFINE free == {s \in Pool(j.user, j.channel) : lockedBy[s] = None}
  <2>2. /\ j \in Job /\ j.user \in Users /\ j.tries = 0 /\ j.ticket = None /\ j.pin = None
        /\ j.channel \in Channels /\ j.closed = Closed
    BY <1>0, InboundKnown
  <2>3. pc[h] = "idle" /\ event[h] = "none" /\ row' = row
    BY <1>0, <1>8 DEF Lookup, JobKnown
  <2>4. \A s \in Closed : row[s] # None /\ row[s].status # "ACTIVE"
    BY <1>00 DEF Closed, Active
  <2>5. CASE free = {}
    <3>1. HandlerTypes' /\ job'[h] = j /\ pc'[h] = "send"
      BY <1>0, <2>1, <2>2, <2>5 DEF HandlerTypes, Goto, Labels
    <3>2. JobKnown(h)'
      BY <1>0, <1>00, <1>1, <2>2, <2>3, <3>1 DEF JobKnown, PoolLabels, TicketLabels
    <3>3. OwnInv(h)'
      BY <1>1, <2>2, <2>3, <2>4, <3>1 DEF OwnInv
    <3> QED
      BY <1>1, <3>1, <3>2, <3>3
  <2>6. CASE free # {}
    <3> DEFINE n == Newest(free)
    <3> DEFINE k == [j EXCEPT !.got = n]
    <3>1. n \in free
      <4>1. free \in SUBSET Ids
        BY DEF Pool
      <4> HIDE DEF free
      <4> QED
        BY <1>0, <2>6, <4>1, NewestIsOne DEF RowTypes
    <3>2. /\ n \in Uuids /\ row[n] # None /\ row[n].status = "ACTIVE" /\ row[n].user = j.user
          /\ solo => row[n].channel = j.channel
      <4> HIDE DEF n
      <4> QED
        BY <3>1 DEF Pool, InPool, Active, Ids
    <3>3. /\ k \in Job /\ k.user = j.user /\ k.channel = j.channel /\ k.ticket = None
          /\ k.got = n /\ k.pin = None /\ k.tries = 0 /\ k.closed = Closed
      <4> HIDE DEF Closed, n
      <4> QED
        BY <1>00, <2>2, <3>2 DEF Job
    <3>4. /\ job' = [job EXCEPT ![h] = k]
          /\ \E l \in {"cleanup", "touch"} : Goto(h, l)
      BY <2>1, <2>6
    <3> HIDE DEF k, n, free
    <3>5. HandlerTypes' /\ job'[h] = k /\ pc'[h] \in {"cleanup", "touch"}
      BY <1>0, <3>3, <3>4 DEF HandlerTypes, Goto, Labels
    <3>6. JobKnown(h)'
      BY <1>0, <1>00, <1>1, <2>2, <2>3, <3>3, <3>5 DEF JobKnown, PoolLabels, TicketLabels
    <3>7. n \notin Closed
      BY <2>4, <3>2
    <3>8. OwnInv(h)'
      BY <1>1, <2>3, <2>4, <3>2, <3>3, <3>5, <3>7 DEF OwnInv, Mine
    <3> QED
      BY <1>1, <3>5, <3>6, <3>8
  <2> QED
    BY <2>5, <2>6
<1> QED
  BY <1>4, <1>5, <1>6, <1>7, <1>8

\* The steps inside the pool, and of a session on its way.
LEMMA PoolSteps ==
  ASSUME SessionInv, TableStep, solo' = solo, NEW h \in Requests,
         \/ SelectDoomed(h) \/ Deactivate(h) \/ Touch(h) \/ Send(h) \/ WaitTimeout(h)
         \/ Extend(h)
  PROVE  HandlerTypes' /\ EventTypes' /\ JobKnown(h)' /\ OwnInv(h)'
<1>0. /\ RowTypes /\ RowsKnown /\ HandlerTypes /\ EventTypes /\ JobKnown(h) /\ OwnInv(h) /\ Kept
  BY TypeParts DEF SessionInv, TableStep
<1>00. /\ Uuids \subseteq Ids /\ Tickets \subseteq Ids /\ Uuids \intersect Tickets = {}
       /\ None \notin Ids \union Users \union Requests \union Channels
       /\ MaxTries \in Nat \ {0}
  BY SessionAssumption DEF Ids
<1>2. \A s \in job[h].closed : row'[s] # None /\ row'[s].status # "ACTIVE"
  BY <1>0, ClosedKept
\* Whoever keeps its message and what it holds keeps what is known of them.
<1>3. ASSUME NEW d \in SUBSET Ids, job' = [job EXCEPT ![h].doomed = d]
      PROVE  /\ job' \in [Requests -> Job] /\ job'[h].got = job[h].got
             /\ job'[h].tries = job[h].tries /\ job'[h].user = job[h].user
             /\ job'[h].channel = job[h].channel /\ job'[h].ticket = job[h].ticket
             /\ job'[h].pin = job[h].pin /\ job'[h].closed = job[h].closed
  BY <1>0, <1>3 DEF HandlerTypes, Job
<1>4. ASSUME /\ job'[h].got = job[h].got /\ job'[h].user = job[h].user
             /\ job'[h].channel = job[h].channel /\ job'[h].ticket = job[h].ticket
             /\ job'[h].pin = job[h].pin /\ job'[h].closed = job[h].closed,
             event' = event, found' = found,
             pc'[h] \in {"deactivate", "touch", "handed"} /\ pc[h] \notin {"send", "waiting"}
                 => pc[h] \in {"cleanup", "deactivate", "touch", "extend", "created"}
                    \/ job[h].ticket # None,
             pc'[h] \notin {"cleanup", "extend", "created"}
                \/ UNCHANGED pc,
             pc[h] \in {"send", "waiting"} => pc'[h] \in {"waiting", "insert"}
      PROVE  OwnInv(h)'
  <2>1. ASSUME pc'[h] \in {"cleanup", "deactivate", "touch", "extend", "created", "handed"},
               job[h].ticket = None
        PROVE  Mine(job[h].got, job[h])
    BY <1>0, <1>4, <2>1 DEF OwnInv
  <2>2. event[h] \in {"created", "ready"} => Mine(found[h], job[h])
    BY <1>0 DEF OwnInv
  <2> QED
    BY <1>0, <1>2, <1>4, <2>1, <2>2, MineKept DEF OwnInv, Mine
<1>5. CASE SelectDoomed(h)
  <2>2. /\ pc[h] = "cleanup" /\ event' = event /\ found' = found /\ eventTries' = eventTries
        /\ \/ Goto(h, "touch") /\ UNCHANGED job
           \/ /\ Goto(h, "deactivate")
              /\ \E d \in SUBSET Ids : job' = [job EXCEPT ![h].doomed = d]
    BY <1>5 DEF SelectDoomed, CleanupScope, Active
  <2>3. /\ pc'[h] \in {"touch", "deactivate"} /\ pc' \in [Requests -> Labels]
    BY <1>0, <2>2 DEF HandlerTypes, Goto, Labels
  <2>4. /\ job' \in [Requests -> Job] /\ job'[h].got = job[h].got
        /\ job'[h].tries = job[h].tries /\ job'[h].user = job[h].user
        /\ job'[h].channel = job[h].channel /\ job'[h].ticket = job[h].ticket
        /\ job'[h].pin = job[h].pin /\ job'[h].closed = job[h].closed
    BY <1>0, <1>3, <2>2 DEF HandlerTypes
  <2>5. JobKnown(h)'
    BY <1>0, <1>00, <2>2, <2>3, <2>4 DEF JobKnown, PoolLabels, TicketLabels
  <2>6. OwnInv(h)'
    BY <1>4, <2>2, <2>3, <2>4
  <2> QED
    BY <1>0, <2>2, <2>3, <2>4, <2>5, <2>6 DEF HandlerTypes, EventTypes
<1>6. CASE Deactivate(h)
  <2>2. /\ pc[h] = "deactivate" /\ event' = event /\ found' = found /\ eventTries' = eventTries
        /\ Goto(h, "touch") /\ job' = [job EXCEPT ![h].doomed = {}]
    BY <1>6 DEF Deactivate
  <2>3. /\ pc'[h] = "touch" /\ pc' \in [Requests -> Labels]
    BY <1>0, <2>2 DEF HandlerTypes, Goto, Labels
  <2>4. /\ job' \in [Requests -> Job] /\ job'[h].got = job[h].got
        /\ job'[h].tries = job[h].tries /\ job'[h].user = job[h].user
        /\ job'[h].channel = job[h].channel /\ job'[h].ticket = job[h].ticket
        /\ job'[h].pin = job[h].pin /\ job'[h].closed = job[h].closed
    BY <1>0, <2>2 DEF HandlerTypes, Job
  <2>5. JobKnown(h)'
    BY <1>0, <1>00, <2>2, <2>3, <2>4 DEF JobKnown, PoolLabels, TicketLabels
  <2>6. OwnInv(h)'
    BY <1>4, <2>2, <2>3, <2>4
  <2> QED
    BY <1>0, <2>2, <2>3, <2>4, <2>5, <2>6 DEF HandlerTypes, EventTypes
<1>7. CASE Touch(h) \/ WaitTimeout(h)
  <2>1. /\ event' = event /\ found' = found /\ eventTries' = eventTries /\ job' = job
        /\ \/ pc[h] = "touch" /\ Goto(h, "handed")
           \/ pc[h] = "waiting" /\ Goto(h, "insert")
    BY <1>7 DEF Touch, WaitTimeout
  <2>2. /\ pc' \in [Requests -> Labels]
        /\ \/ pc[h] = "touch" /\ pc'[h] = "handed"
           \/ pc[h] = "waiting" /\ pc'[h] = "insert"
    BY <1>0, <2>1 DEF HandlerTypes, Goto, Labels
  <2>3. JobKnown(h)'
    BY <1>0, <1>00, <2>1, <2>2 DEF JobKnown, PoolLabels, TicketLabels
  <2>4. OwnInv(h)'
    BY <1>4, <2>1, <2>2
  <2> QED
    BY <1>0, <2>1, <2>2, <2>3, <2>4 DEF HandlerTypes, EventTypes
<1>8. CASE Send(h)
  <2>1. /\ pc[h] = "send" /\ event[h] = "none"
        /\ found' = found /\ eventTries' = eventTries /\ job' = job
        /\ Goto(h, "waiting") /\ event' = [event EXCEPT ![h] = "sent"]
    BY <1>0, <1>8 DEF Send, JobKnown
  <2>2. /\ pc' \in [Requests -> Labels] /\ pc'[h] = "waiting"
        /\ event' \in [Requests -> EventLabels] /\ event'[h] = "sent"
    BY <1>0, <2>1 DEF HandlerTypes, EventTypes, Goto, Labels, EventLabels
  <2>3. JobKnown(h)'
    BY <1>0, <1>00, <2>1, <2>2 DEF JobKnown, PoolLabels, TicketLabels
  <2>4. OwnInv(h)'
    BY <1>2, <2>1, <2>2 DEF OwnInv
  <2> QED
    BY <1>0, <2>1, <2>2, <2>3, <2>4 DEF HandlerTypes, EventTypes
<1>9. CASE Extend(h)
  <2>1. /\ pc[h] \in {"extend", "created", "ticketExtend"}
        /\ event' = event /\ found' = found /\ eventTries' = eventTries
        /\ \/ pc[h] = "ticketExtend" /\ Fail(h)
           \/ Goto(h, "handed") /\ job' = job
    BY <1>9 DEF Extend
  <2>2. CASE pc[h] = "ticketExtend" /\ Fail(h)
    <3>1. /\ job[h] \in Job /\ job[h].user \in Users
      BY <1>0, <2>2 DEF HandlerTypes, JobKnown
    <3>2. /\ Fails(job[h]) \in Job /\ Fails(job[h]).user = job[h].user
          /\ Fails(job[h]).channel = job[h].channel
          /\ Fails(job[h]).ticket = None /\ Fails(job[h]).pin = None
          /\ Fails(job[h]).tries = 0 /\ Fails(job[h]).closed = {}
      BY <3>1, FailsKnown
    <3>3. HandlerTypes' /\ job'[h] = Fails(job[h]) /\ pc'[h] = "failed"
      BY <1>0, <2>2, <3>2 DEF HandlerTypes, Fail, Goto, Labels
    <3>4. JobKnown(h)'
      BY <1>0, <1>00, <2>1, <3>1, <3>2, <3>3 DEF JobKnown, PoolLabels, TicketLabels
    <3>5. event[h] # "none" => job[h].pin = None
      BY <1>0 DEF JobKnown
    <3>6. OwnInv(h)'
      BY <1>0, <2>1, <3>2, <3>3, <3>5 DEF OwnInv, Mine, Kept
    <3> QED
      BY <1>0, <2>1, <3>3, <3>4, <3>6 DEF EventTypes
  <2>3. CASE Goto(h, "handed") /\ job' = job
    <3>1. HandlerTypes' /\ pc'[h] = "handed"
      BY <1>0, <2>3 DEF HandlerTypes, Goto, Labels
    <3>2. JobKnown(h)'
      BY <1>0, <1>00, <2>1, <2>3, <3>1 DEF JobKnown, PoolLabels, TicketLabels
    <3>3. pc[h] = "ticketExtend" => job[h].ticket # None
      BY <1>0, <1>00 DEF JobKnown, TicketLabels
    <3>4. OwnInv(h)'
      BY <1>4, <2>1, <2>3, <3>1, <3>3
    <3> QED
      BY <1>0, <2>1, <3>1, <3>2, <3>4 DEF EventTypes
  <2> QED
    BY <2>1, <2>2, <2>3
<1> QED
  BY <1>5, <1>6, <1>7, <1>8, <1>9

\* Who gives up, or takes a session that is given to it at last.
LEMMA TakesKnown ==
  ASSUME SessionInv, TableStep, solo' = solo, NEW h \in Requests, NEW s \in Uuids,
         event[h] = "none" \/ job[h].pin = None,
         pc[h] \in PoolLabels,
         s \notin job[h].closed, row'[s] # None, row'[s].user = job[h].user,
         solo \/ job[h].pin # None => row'[s].channel = job[h].channel,
         Got(h, s),
         NEW l \in {"extend", "created", "handed"}, Goto(h, l),
         \/ event' = event /\ found' = found /\ eventTries' = eventTries
         \/ EventOver(h)
  PROVE  HandlerTypes' /\ EventTypes' /\ JobKnown(h)' /\ OwnInv(h)'
<1>0. /\ RowTypes /\ RowsKnown /\ HandlerTypes /\ EventTypes /\ JobKnown(h) /\ OwnInv(h) /\ Kept
  BY TypeParts DEF SessionInv, TableStep
<1>00. /\ Uuids \subseteq Ids /\ Tickets \subseteq Ids /\ Uuids \intersect Tickets = {}
       /\ None \notin Ids \union Users \union Requests \union Channels
       /\ MaxTries \in Nat \ {0}
  BY SessionAssumption DEF Ids
<1>1. \A t \in job[h].closed : row'[t] # None /\ row'[t].status # "ACTIVE"
  BY <1>0, ClosedKept
<1>2. /\ job' \in [Requests -> Job] /\ job'[h].got = s /\ job'[h].tries = 0
      /\ job'[h].user = job[h].user /\ job'[h].channel = job[h].channel
      /\ job'[h].ticket = job[h].ticket /\ job'[h].pin = job[h].pin
      /\ job'[h].closed = job[h].closed
  BY <1>0, <1>00, GotKnown
<1>3. HandlerTypes' /\ pc'[h] = l
  BY <1>0, <1>2 DEF HandlerTypes, Goto, Labels
<1>4. /\ EventTypes'
      /\ \/ event'[h] = event[h] /\ found'[h] = found[h] /\ eventTries'[h] = eventTries[h]
         \/ event'[h] = "none" /\ eventTries'[h] = 0
  BY <1>0, <1>00 DEF EventTypes, EventOver, EventGoto, EventFound, EventLabels
<1>5. /\ job[h].channel \in Channels /\ job[h].ticket = None /\ job[h].pin = None
      /\ job[h].user \in Users
  BY <1>0 DEF JobKnown, PoolLabels
<1>6. JobKnown(h)'
  BY <1>0, <1>00, <1>2, <1>3, <1>4, <1>5 DEF JobKnown, PoolLabels, TicketLabels
<1>7. event[h] \in {"created", "ready"} => Mine(found[h], job[h])
  BY <1>0 DEF OwnInv
<1>8. OwnInv(h)'
  BY <1>0, <1>1, <1>2, <1>3, <1>4, <1>5, <1>7, MineKept DEF OwnInv, Mine
<1> QED
  BY <1>3, <1>4, <1>6, <1>8

LEMMA FailKnown ==
  ASSUME SessionInv, TableStep, solo' = solo, NEW h \in Requests, Fail(h), pc[h] # "idle",
         event' = event, found' = found, eventTries' = eventTries
  PROVE  HandlerTypes' /\ EventTypes' /\ JobKnown(h)' /\ OwnInv(h)'
<1>0. /\ HandlerTypes /\ EventTypes /\ JobKnown(h) /\ OwnInv(h) /\ Kept
  BY TypeParts DEF SessionInv, TableStep
<1>1. /\ job[h] \in Job /\ job[h].user \in Users
  BY <1>0 DEF HandlerTypes, JobKnown
<1>2. /\ Fails(job[h]) \in Job /\ Fails(job[h]).user = job[h].user
      /\ Fails(job[h]).channel = job[h].channel
      /\ Fails(job[h]).ticket = None /\ Fails(job[h]).pin = None
      /\ Fails(job[h]).tries = 0 /\ Fails(job[h]).closed = {}
  BY <1>1, FailsKnown
<1>3. HandlerTypes' /\ job'[h] = Fails(job[h]) /\ pc'[h] = "failed"
  BY <1>0, <1>2 DEF HandlerTypes, Fail, Goto, Labels
<1>4. JobKnown(h)'
  BY <1>0, <1>1, <1>2, <1>3, SessionAssumption DEF JobKnown, PoolLabels, TicketLabels
<1>5. event[h] # "none" => job[h].pin = None
  BY <1>0 DEF JobKnown
<1>6. OwnInv(h)'
  BY <1>0, <1>2, <1>3, <1>5 DEF OwnInv, Mine, Kept
<1> QED
  BY <1>0, <1>3, <1>4, <1>6 DEF EventTypes

\* The creation of a session and what follows when it fails.
LEMMA CreationSteps ==
  ASSUME SessionInv, TableStep, solo' = solo, NEW h \in Requests,
         \/ Insert(h) \/ Conflict(h) \/ Fallback(h) \/ ReadyArrives(h) \/ RequestFails(h)
  PROVE  HandlerTypes' /\ EventTypes' /\ JobKnown(h)' /\ OwnInv(h)'
<1>0. /\ RowTypes /\ RowsKnown /\ OneActive /\ HandlerTypes /\ EventTypes
      /\ JobKnown(h) /\ OwnInv(h) /\ Kept
  BY TypeParts DEF SessionInv, TableStep
<1>00. /\ Uuids \subseteq Ids /\ Tickets \subseteq Ids /\ Uuids \intersect Tickets = {}
       /\ None \notin Ids \union Users \union Requests \union Channels
       /\ MaxTries \in Nat \ {0}
  BY SessionAssumption DEF Ids
<1>1. \A t \in job[h].closed : row[t] # None /\ row[t].status # "ACTIVE"
  BY <1>0 DEF OwnInv
<1>2. \A t \in job[h].closed : row'[t] # None /\ row'[t].status # "ACTIVE"
  BY <1>0, ClosedKept
<1>3. ASSUME pc[h] \in PoolLabels
      PROVE  /\ job[h].user \in Users /\ job[h].channel \in Channels
             /\ job[h].ticket = None /\ job[h].pin = None
  BY <1>0, <1>3 DEF JobKnown, PoolLabels
<1>4. ASSUME ActiveOn(job[h].user, job[h].channel) # {}, pc[h] \in PoolLabels, row' = row
      PROVE  LET n == Newest(ActiveOn(job[h].user, job[h].channel)) IN
             /\ n \in Uuids \ job[h].closed /\ row'[n] # None
             /\ row'[n].user = job[h].user /\ row'[n].channel = job[h].channel
  <2> DEFINE S == ActiveOn(job[h].user, job[h].channel)
  <2> DEFINE n == Newest(S)
  <2>1. n \in S
    <3>1. S \in SUBSET Ids
      BY DEF ActiveOn, Active
    <3> HIDE DEF S
    <3> QED
      BY <1>0, <1>4, <3>1, NewestIsOne DEF RowTypes, S
  <2> HIDE DEF n
  <2>2. n \in Ids /\ row[n] # None /\ row[n].status = "ACTIVE" /\ row[n].user = job[h].user
        /\ row[n].channel = job[h].channel
    BY <2>1 DEF ActiveOn, Active
  <2>3. n \in Uuids
    BY <1>0, <1>00, <1>3, <1>4, <2>2 DEF RowsKnown, Ids
  <2>4. n \notin job[h].closed
    BY <1>1, <2>2
  <2> QED
    BY <1>4, <2>2, <2>3, <2>4 DEF n
<1>5. CASE Insert(h)
  <2>0. pc[h] = "insert" /\ pc[h] \in PoolLabels
        /\ event' = event /\ found' = found /\ eventTries' = eventTries
    BY <1>5 DEF Insert, PoolLabels
  <2>1. CASE /\ ~Taken(job[h].user, job[h].channel) /\ NewRow(job[h].user, job[h].channel)
             /\ \E s \in Created : Got(h, s)
             /\ Goto(h, "created")
    <3>1. PICK s \in Created : Got(h, s)
      BY <2>1
    <3>2. /\ s \in Uuids /\ row[s] = None
          /\ row'[s] = [user |-> job[h].user, channel |-> job[h].channel,
                        status |-> "ACTIVE", late |-> FALSE]
      BY <1>0, <1>3, <2>0, <2>1, NewRowOnly
    <3>3. /\ row'[s] # None /\ s \notin job[h].closed
          /\ row'[s].user = job[h].user /\ row'[s].channel = job[h].channel
      <4>1. row'[s] # None /\ s \notin job[h].closed
        BY <1>1, <3>1, <3>2 DEF Created
      <4> QED
        BY <3>2, <4>1
    <3> QED
      BY <1>3, <2>0, <2>1, <3>1, <3>2, <3>3, TakesKnown
  <2>2. CASE /\ job' = [job EXCEPT ![h].tries = @ + 1]
             /\ Goto(h, IF job[h].tries + 1 < MaxTries THEN "conflict" ELSE "fallback")
    <3>1. job[h] \in Job /\ job[h].tries \in 0..MaxTries /\ job[h].tries < MaxTries
      BY <1>0, <2>0 DEF HandlerTypes, JobKnown, Job
    <3>2. job[h].tries + 1 \in 0..MaxTries
      BY <1>00, <3>1
    <3>3. /\ job' \in [Requests -> Job] /\ job'[h].tries = job[h].tries + 1
          /\ job'[h].user = job[h].user /\ job'[h].channel = job[h].channel
          /\ job'[h].ticket = job[h].ticket /\ job'[h].pin = job[h].pin
          /\ job'[h].closed = job[h].closed
      BY <1>0, <2>2, <3>1, <3>2 DEF HandlerTypes, Job
    <3>4. /\ pc' \in [Requests -> Labels]
          /\ \/ pc'[h] = "conflict" /\ job[h].tries + 1 < MaxTries
             \/ pc'[h] = "fallback"
      BY <1>0, <2>2 DEF HandlerTypes, Goto, Labels
    <3>5. JobKnown(h)'
      BY <1>0, <1>3, <2>0, <3>3, <3>4 DEF JobKnown, PoolLabels, TicketLabels
    <3>6. event[h] \in {"created", "ready"} => Mine(found[h], job[h])
      BY <1>0 DEF OwnInv
    <3>7. OwnInv(h)'
      BY <1>0, <1>2, <2>0, <3>3, <3>4, <3>6, MineKept DEF OwnInv, Mine
    <3> QED
      BY <1>0, <2>0, <3>3, <3>4, <3>5, <3>7 DEF HandlerTypes, EventTypes
  <2> QED
    BY <1>5, <2>1, <2>2 DEF Insert
<1>6. CASE Conflict(h) \/ Fallback(h)
  <2>0. pc[h] \in {"conflict", "fallback"} /\ pc[h] \in PoolLabels
        /\ event' = event /\ found' = found /\ eventTries' = eventTries /\ row' = row
    BY <1>6 DEF Conflict, Fallback, PoolLabels
  <2> DEFINE S == ActiveOn(job[h].user, job[h].channel)
  <2>1. CASE Fail(h)
    BY <2>0, <2>1, FailKnown
  <2>2. CASE S # {} /\ Got(h, Newest(S)) /\ (Goto(h, "created") \/ Goto(h, "handed"))
    <3>1. PICK n : n = Newest(S)
      OBVIOUS
    <3>2. /\ n \in Uuids \ job[h].closed /\ row'[n] # None
          /\ row'[n].user = job[h].user /\ row'[n].channel = job[h].channel
      BY <1>4, <2>0, <2>2, <3>1
    <3>3. Got(h, n)
      BY <2>2, <3>1
    <3> HIDE DEF S
    <3> QED
      BY <1>3, <2>0, <2>2, <3>2, <3>3, TakesKnown
  <2>3. CASE pc[h] = "conflict" /\ Goto(h, "insert") /\ job' = job
    <3>1. HandlerTypes' /\ pc'[h] = "insert"
      BY <1>0, <2>3 DEF HandlerTypes, Goto, Labels
    <3>2. JobKnown(h)'
      BY <1>0, <1>3, <2>0, <2>3, <3>1 DEF JobKnown, PoolLabels, TicketLabels
    <3>3. event[h] \in {"created", "ready"} => Mine(found[h], job[h])
      BY <1>0 DEF OwnInv
    <3>4. OwnInv(h)'
      BY <1>0, <1>2, <2>0, <2>3, <3>1, <3>3, MineKept DEF OwnInv, Mine
    <3> QED
      BY <1>0, <2>0, <3>1, <3>2, <3>4 DEF EventTypes
  <2> QED
    BY <1>6, <2>1, <2>2, <2>3 DEF Conflict, Fallback
<1>7. CASE ReadyArrives(h)
  <2>1. /\ event[h] = "ready" /\ pc[h] = "waiting" /\ pc[h] \in PoolLabels
        /\ Got(h, found[h]) /\ Goto(h, "extend") /\ EventOver(h) /\ row' = row
    BY <1>7 DEF ReadyArrives, PoolLabels
  <2>2. PICK s : s = found[h]
    OBVIOUS
  <2>3. Mine(s, job[h])
    BY <1>0, <2>1, <2>2 DEF OwnInv
  <2>4. Got(h, s)
    BY <2>1, <2>2
  <2>5. /\ s \in Uuids \ job[h].closed /\ row'[s] # None /\ row'[s].user = job[h].user
        /\ solo \/ job[h].pin # None => row'[s].channel = job[h].channel
    BY <2>1, <2>3 DEF Mine
  <2> QED
    BY <1>3, <2>1, <2>4, <2>5, TakesKnown
<1>8. CASE RequestFails(h)
  <2>0. /\ pc[h] # "idle" /\ row' = row
        /\ event' = event /\ found' = found /\ eventTries' = eventTries
    BY <1>8 DEF RequestFails
  <2>1. CASE Fail(h)
    BY <2>0, <2>1, FailKnown
  <2>2. CASE \E l \in AfterFault(h) \ {"failed"} : Goto(h, l) /\ UNCHANGED job
    <3>1. \/ pc[h] \in {"send", "waiting", "extend"} /\ Goto(h, "insert") /\ UNCHANGED job
          \/ pc[h] \in {"insert", "conflict", "created"} /\ Goto(h, "fallback") /\ UNCHANGED job
      BY <2>2 DEF AfterFault
    <3>2. /\ HandlerTypes' /\ job' = job /\ pc[h] \in PoolLabels
          /\ \/ pc[h] \in {"send", "waiting", "extend"} /\ pc'[h] = "insert"
             \/ pc[h] \in {"insert", "conflict", "created"} /\ pc'[h] = "fallback"
      BY <1>0, <3>1 DEF HandlerTypes, Goto, Labels, PoolLabels
    <3>3. JobKnown(h)'
      BY <1>0, <1>3, <2>0, <3>2 DEF JobKnown, PoolLabels, TicketLabels
    <3>4. event[h] \in {"created", "ready"} => Mine(found[h], job[h])
      BY <1>0 DEF OwnInv
    <3>5. OwnInv(h)'
      BY <1>0, <1>2, <2>0, <3>2, <3>4, MineKept DEF OwnInv, Mine
    <3> QED
      BY <1>0, <2>0, <3>2, <3>3, <3>5 DEF EventTypes
  <2> QED
    BY <1>8, <2>1, <2>2 DEF RequestFails
<1> QED
  BY <1>5, <1>6, <1>7, <1>8

\* The event's handler finds a session for its message.
LEMMA FoundKnown ==
  ASSUME SessionInv, TableStep, solo' = solo, NEW h \in Requests, NEW s \in Uuids,
         event[h] # "none", s \notin job[h].closed, row'[s] # None,
         row'[s].user = job[h].user, solo => row'[s].channel = job[h].channel,
         EventFound(h, s), NEW l \in {"created", "ready"}, EventGoto(h, l),
         pc' = pc, job' = job
  PROVE  HandlerTypes' /\ EventTypes' /\ JobKnown(h)' /\ OwnInv(h)'
<1>0. /\ HandlerTypes /\ EventTypes /\ JobKnown(h) /\ OwnInv(h) /\ Kept
  BY TypeParts DEF SessionInv, TableStep
<1>00. Uuids \subseteq Ids /\ MaxTries \in Nat \ {0}
  BY SessionAssumption DEF Ids
<1>1. /\ EventTypes'
      /\ event'[h] = l /\ found'[h] = s /\ eventTries'[h] = 0
  BY <1>0, <1>00 DEF EventTypes, EventGoto, EventFound, EventLabels
<1>2. JobKnown(h)'
  BY <1>0, <1>00, <1>1 DEF JobKnown
<1>3. \A t \in job[h].closed : row'[t] # None /\ row'[t].status # "ACTIVE"
  BY <1>0, ClosedKept
<1>4. job[h].pin = None
  BY <1>0 DEF JobKnown
<1>5. OwnInv(h)'
  BY <1>0, <1>1, <1>3, <1>4, MineKept DEF OwnInv, Mine
<1> QED
  BY <1>0, <1>1, <1>2, <1>5 DEF HandlerTypes

\* The event's handler gives up.
LEMMA OverKnown ==
  ASSUME SessionInv, TableStep, solo' = solo, NEW h \in Requests, EventOver(h),
         pc' = pc, job' = job
  PROVE  HandlerTypes' /\ EventTypes' /\ JobKnown(h)' /\ OwnInv(h)'
<1>0. /\ HandlerTypes /\ EventTypes /\ JobKnown(h) /\ OwnInv(h) /\ Kept
  BY TypeParts DEF SessionInv, TableStep
<1>00. MaxTries \in Nat \ {0}
  BY SessionAssumption
<1>1. EventTypes' /\ event'[h] = "none" /\ eventTries'[h] = 0
  BY <1>0, <1>00 DEF EventTypes, EventOver, EventGoto, EventFound, EventLabels
<1>2. JobKnown(h)'
  BY <1>0, <1>00, <1>1 DEF JobKnown
<1>3. \A t \in job[h].closed : row'[t] # None /\ row'[t].status # "ACTIVE"
  BY <1>0, ClosedKept
<1>4. OwnInv(h)'
  BY <1>0, <1>1, <1>3, MineKept DEF OwnInv, Mine
<1> QED
  BY <1>0, <1>1, <1>2, <1>4 DEF HandlerTypes

\* It goes on without a session yet.
LEMMA SeekKnown ==
  ASSUME SessionInv, TableStep, solo' = solo, NEW h \in Requests, event[h] # "none",
         pc' = pc, job' = job, found' = found,
         eventTries' \in [Requests -> 0..MaxTries],
         NEW l \in {"insert", "again", "conflict"}, EventGoto(h, l),
         l = "again" \/ eventTries'[h] < MaxTries
  PROVE  HandlerTypes' /\ EventTypes' /\ JobKnown(h)' /\ OwnInv(h)'
<1>0. /\ HandlerTypes /\ EventTypes /\ JobKnown(h) /\ OwnInv(h) /\ Kept
  BY TypeParts DEF SessionInv, TableStep
<1>1. EventTypes' /\ event'[h] = l
  BY <1>0 DEF EventTypes, EventGoto, EventLabels
<1>2. JobKnown(h)'
  BY <1>0, <1>1 DEF JobKnown
<1>3. \A t \in job[h].closed : row'[t] # None /\ row'[t].status # "ACTIVE"
  BY <1>0, ClosedKept
<1>4. OwnInv(h)'
  BY <1>0, <1>1, <1>3, MineKept DEF OwnInv, Mine
<1> QED
  BY <1>0, <1>1, <1>2, <1>4 DEF HandlerTypes

LEMMA EventSteps ==
  ASSUME SessionInv, TableStep, solo' = solo, NEW h \in Requests,
         \/ ReadyLost(h) \/ EventFind(h) \/ EventInsert(h) \/ EventConflict(h)
         \/ EventExtend(h) \/ EventFails(h)
  PROVE  HandlerTypes' /\ EventTypes' /\ JobKnown(h)' /\ OwnInv(h)'
<1>0. /\ RowTypes /\ RowsKnown /\ OneActive /\ HandlerTypes /\ EventTypes
      /\ JobKnown(h) /\ OwnInv(h) /\ Kept
  BY TypeParts DEF SessionInv, TableStep
<1>00. /\ Uuids \subseteq Ids /\ Tickets \subseteq Ids /\ Uuids \intersect Tickets = {}
       /\ None \notin Ids \union Users \union Requests \union Channels
       /\ MaxTries \in Nat \ {0}
  BY SessionAssumption DEF Ids
<1>1. /\ pc' = pc /\ job' = job /\ event[h] # "none"
  BY DEF ReadyLost, EventFind, EventInsert, EventConflict, EventExtend, EventFails
<1>2. /\ job[h].user \in Users /\ job[h].channel \in Channels /\ job[h].pin = None
  BY <1>0, <1>1 DEF JobKnown
<1>3. ASSUME NEW S \in SUBSET Ids, S # {}, row' = row, \A s \in S : Mine(s, job[h]),
             NEW l \in {"created", "ready"}, EventGoto(h, l), EventFound(h, Newest(S))
      PROVE  HandlerTypes' /\ EventTypes' /\ JobKnown(h)' /\ OwnInv(h)'
  <2>1. PICK n : n = Newest(S)
    OBVIOUS
  <2>2. n \in S
    BY <1>0, <1>3, <2>1, NewestIsOne DEF RowTypes
  <2>3. /\ n \in Uuids \ job[h].closed /\ row'[n] # None /\ row'[n].user = job[h].user
        /\ solo => row'[n].channel = job[h].channel
    BY <1>3, <2>2 DEF Mine
  <2>4. EventFound(h, n)
    BY <1>3, <2>1
  <2> QED
    BY <1>1, <1>3, <2>3, <2>4, FoundKnown
<1>4. CASE ReadyLost(h)
  BY <1>1, <1>4, OverKnown DEF ReadyLost
<1>5. CASE EventFind(h)
  <2> DEFINE S == Pool(job[h].user, job[h].channel)
  <2>1. /\ event[h] \in {"sent", "again"} /\ row' = row
        /\ \/ EventOver(h)
           \/ event[h] = "sent" /\ EventGoto(h, "insert") /\ UNCHANGED <<found, eventTries>>
           \/ S # {} /\ EventFound(h, Newest(S)) /\ EventGoto(h, "ready")
    BY <1>5 DEF EventFind
  <2>2. CASE EventOver(h)
    BY <1>1, <2>2, OverKnown
  <2>3. CASE event[h] = "sent" /\ EventGoto(h, "insert") /\ UNCHANGED <<found, eventTries>>
    BY <1>0, <1>00, <1>1, <2>3, SeekKnown DEF EventTypes, JobKnown
  <2>4. CASE S # {} /\ EventFound(h, Newest(S)) /\ EventGoto(h, "ready")
    <3>1. S \in SUBSET Ids /\ \A s \in S : Mine(s, job[h])
      BY <1>0, <1>2, PoolIsMine DEF Pool
    <3> HIDE DEF S
    <3> QED
      BY <1>3, <2>1, <2>4, <3>1
  <2> QED
    BY <2>1, <2>2, <2>3, <2>4
<1>6. CASE EventInsert(h)
  <2>1. CASE /\ ~Taken(job[h].user, job[h].channel) /\ NewRow(job[h].user, job[h].channel)
             /\ \E s \in Created : EventFound(h, s)
             /\ EventGoto(h, "created")
    <3>1. PICK s \in Created : EventFound(h, s)
      BY <2>1
    <3>2. /\ s \in Uuids /\ row[s] = None
          /\ row'[s] = [user |-> job[h].user, channel |-> job[h].channel,
                        status |-> "ACTIVE", late |-> FALSE]
      BY <1>0, <1>2, <2>1, NewRowOnly
    <3>3. row'[s] # None /\ s \notin job[h].closed
      BY <1>0, <3>1, <3>2 DEF Created, OwnInv
    <3>4. row'[s].user = job[h].user /\ row'[s].channel = job[h].channel
      BY <3>2
    <3> QED
      BY <1>1, <2>1, <3>1, <3>2, <3>3, <3>4, FoundKnown
  <2>2. CASE /\ eventTries' = [eventTries EXCEPT ![h] = @ + 1]
             /\ EventGoto(h, IF eventTries[h] + 1 < MaxTries THEN "conflict" ELSE "again")
             /\ UNCHANGED found
    <3>1. event[h] = "insert" /\ eventTries[h] \in 0..MaxTries /\ eventTries[h] < MaxTries
      BY <1>0, <1>6 DEF EventInsert, JobKnown, EventTypes
    <3>2. eventTries[h] + 1 \in 0..MaxTries
      BY <1>00, <3>1
    <3>3. eventTries' \in [Requests -> 0..MaxTries] /\ eventTries'[h] = eventTries[h] + 1
      BY <1>0, <2>2, <3>2 DEF EventTypes
    <3>4. CASE eventTries[h] + 1 < MaxTries
      BY <1>1, <2>2, <3>3, <3>4, SeekKnown
    <3>5. CASE ~(eventTries[h] + 1 < MaxTries)
      BY <1>1, <2>2, <3>3, <3>5, SeekKnown
    <3> QED
      BY <3>4, <3>5
  <2> QED
    BY <1>6, <2>1, <2>2 DEF EventInsert
<1>7. CASE EventConflict(h)
  <2> DEFINE S == ActiveOn(job[h].user, job[h].channel)
  <2>1. /\ event[h] = "conflict" /\ row' = row
        /\ \/ EventGoto(h, "insert") /\ UNCHANGED <<found, eventTries>>
           \/ S # {} /\ EventFound(h, Newest(S)) /\ EventGoto(h, "created")
    BY <1>7 DEF EventConflict
  <2>2. CASE EventGoto(h, "insert") /\ UNCHANGED <<found, eventTries>>
    BY <1>0, <1>1, <2>1, <2>2, SeekKnown DEF EventTypes, JobKnown
  <2>3. CASE S # {} /\ EventFound(h, Newest(S)) /\ EventGoto(h, "created")
    <3>1. S \in SUBSET Ids /\ \A s \in S : Mine(s, job[h])
      BY <1>0, <1>2, ActiveIsMine DEF ActiveOn, Active
    <3> HIDE DEF S
    <3> QED
      BY <1>3, <2>1, <2>3, <3>1
  <2> QED
    BY <2>1, <2>2, <2>3
<1>8. CASE EventExtend(h)
  <2>1. event[h] = "created" /\ EventGoto(h, "ready") /\ found' = found
        /\ eventTries' = eventTries
    BY <1>8 DEF EventExtend
  <2>2. Mine(found[h], job[h])
    BY <1>0, <2>1 DEF OwnInv
  <2>3. EventTypes' /\ event'[h] = "ready"
    BY <1>0, <2>1 DEF EventTypes, EventGoto, EventLabels
  <2>4. JobKnown(h)'
    BY <1>0, <1>1, <2>1, <2>3 DEF JobKnown
  <2>5. \A t \in job[h].closed : row'[t] # None /\ row'[t].status # "ACTIVE"
    BY <1>0, ClosedKept
  <2>6. OwnInv(h)'
    BY <1>0, <1>1, <2>1, <2>2, <2>3, <2>5, MineKept DEF OwnInv, Mine
  <2> QED
    BY <1>0, <1>1, <2>3, <2>4, <2>6 DEF HandlerTypes
<1>9. CASE EventFails(h)
  <2>1. CASE EventOver(h)
    BY <1>1, <2>1, OverKnown
  <2>2. CASE /\ event[h] \in {"insert", "conflict", "created"}
             /\ EventGoto(h, "again")
             /\ UNCHANGED <<found, eventTries>>
    BY <1>0, <1>1, <2>2, SeekKnown DEF EventTypes
  <2> QED
    BY <1>9, <2>1, <2>2 DEF EventFails
<1> QED
  BY <1>4, <1>5, <1>6, <1>7, <1>8, <1>9

(***************************************************************************)
(* The invariant is inductive.                                             *)
(***************************************************************************)
\* The counters, and the setting that is fixed.
LEMMA CountNext ==
  ASSUME TypeOK, [Next]_vars
  PROVE  CountTypes' /\ solo' = solo
<1>0. CountTypes /\ MaxUpsets \in Nat
  BY TypeParts, SessionAssumption
<1>1. ASSUME UNCHANGED <<solo, ends, faults>> PROVE CountTypes' /\ solo' = solo
  BY <1>0, <1>1 DEF CountTypes
<1>2. ASSUME NEW h \in Requests,
             SelectTicket(h) \/ Pin(h) \/ Lookup(h) \/ TouchTicket(h) \/ InsertTicket(h)
             \/ SelectDoomed(h) \/ Deactivate(h) \/ Touch(h) \/ Send(h) \/ WaitTimeout(h)
      PROVE  UNCHANGED <<solo, ends, faults>>
  BY <1>2 DEF SelectTicket, Pin, Lookup, TouchTicket, InsertTicket, SelectDoomed, Deactivate,
              Touch, Send, WaitTimeout
<1>3. ASSUME NEW h \in Requests,
             Insert(h) \/ Conflict(h) \/ Extend(h) \/ Fallback(h) \/ ReadyArrives(h)
             \/ ReadyLost(h) \/ EventFind(h) \/ EventInsert(h) \/ EventConflict(h)
             \/ EventExtend(h)
      PROVE  UNCHANGED <<solo, ends, faults>>
  BY <1>3 DEF Insert, Conflict, Extend, Fallback, ReadyArrives, ReadyLost, EventFind, EventInsert,
              EventConflict, EventExtend
<1>4. ASSUME NEW h \in Requests, RequestFails(h) \/ EventFails(h)
      PROVE  CountTypes' /\ solo' = solo
  BY <1>0, <1>4 DEF RequestFails, EventFails, Fault, CountTypes
<1>5. ASSUME Close \/ Lapse PROVE CountTypes' /\ solo' = solo
  BY <1>0, <1>5 DEF Close, Lapse, CountTypes
<1>6. ASSUME CleanupTask PROVE UNCHANGED <<solo, ends, faults>>
  BY <1>6 DEF CleanupTask, ExpireOld, DeleteInactive
<1> QED
  BY <1>1, <1>2, <1>3, <1>4, <1>5, <1>6
     DEF Next, RequestStep, Progress, EventProgress, vars

\* With a session for each channel there is at most one to clean up.
LEMMA ScopeIsOne ==
  ASSUME RowTypes, RowsKnown, OneActive, solo, NEW u \in Users, NEW c \in Channels
  PROVE  Cardinality(CleanupScope(u, c)) <= 1
<1> DEFINE S == CleanupScope(u, c)
<1>1. \A s \in S : s \in Uuids
  BY SessionAssumption DEF CleanupScope, Active, RowsKnown, Ids
<1>2. \A s, t \in S : s = t
  BY <1>1 DEF CleanupScope, Active, OneActive
<1> SUFFICES Cardinality(S) <= 1
  OBVIOUS
<1> HIDE DEF S
<1>3. S = {} \/ \E s : S = {s}
  BY <1>2
<1>4. CASE S = {}
  BY <1>4, FS_EmptySet
<1>5. CASE \E s : S = {s}
  <2>1. PICK s : S = {s}
    BY <1>5
  <2>2. Cardinality({s}) = 1
    BY FS_Singleton
  <2> QED
    BY <2>1, <2>2
<1> QED
  BY <1>3, <1>4, <1>5

LEMMA CalmNext == SessionInv /\ [Next]_vars => Calm'
<1> SUFFICES ASSUME SessionInv, [Next]_vars, solo', ends' = 0
             PROVE  /\ \A s \in Ids : row'[s] # None => ~row'[s].late
                    /\ \A s \in Uuids : row'[s] # None => row'[s].status = "ACTIVE"
                    /\ \A h \in Requests : job'[h].doomed = {}
  BY DEF Calm
<1>0. /\ RowTypes /\ RowsKnown /\ OneActive /\ HandlerTypes /\ EventTypes /\ CountTypes /\ Calm
      /\ \A h \in Requests : JobKnown(h) /\ OwnInv(h)
  BY TypeParts DEF SessionInv
<1>00. /\ Uuids \subseteq Ids /\ Tickets \subseteq Ids /\ Uuids \intersect Tickets = {}
       /\ None \notin Ids \union Users \union Requests \union Channels
  BY SessionAssumption DEF Ids
<1>01. solo' = solo /\ TypeOK
  BY CountNext DEF SessionInv
<1>1. ~Close /\ ~Lapse
  <2>1. ends \in Nat
    BY <1>0, SessionAssumption DEF CountTypes
  <2>2. ASSUME Close \/ Lapse PROVE ends' = ends + 1
    BY <2>2 DEF Close, Lapse
  <2> QED
    BY <2>1, <2>2
<1>2. ends = 0
  <2>1. ASSUME ends' = ends PROVE ends = 0
    BY <2>1
  <2>2. ASSUME NEW h \in Requests, RequestStep(h) PROVE ends' = ends
    BY <2>2 DEF RequestStep, Progress, EventProgress, SelectTicket, Pin, Lookup, TouchTicket,
                InsertTicket, SelectDoomed, Deactivate, Touch, Send, WaitTimeout, Insert, Conflict,
                Extend, Fallback, ReadyArrives, ReadyLost, EventFind, EventInsert, EventConflict,
                EventExtend, RequestFails, EventFails
  <2>3. ASSUME CleanupTask PROVE ends' = ends
    BY <2>3 DEF CleanupTask, ExpireOld, DeleteInactive
  <2> QED
    BY <1>1, <2>1, <2>2, <2>3 DEF Next, vars
<1>3. /\ \A s \in Ids : row[s] # None => ~row[s].late
      /\ \A s \in Uuids : row[s] # None => row[s].status = "ACTIVE"
      /\ \A h \in Requests : job[h].doomed = {}
  BY <1>0, <1>01, <1>2 DEF Calm
<1> DEFINE RowsCalm == /\ \A s \in Ids : row'[s] # None => ~row'[s].late
                       /\ \A s \in Uuids : row'[s] # None => row'[s].status = "ACTIVE"
<1> DEFINE NoneDoomed == \A h \in Requests : job'[h].doomed = {}
<1>4. ASSUME row' = row PROVE RowsCalm
  BY <1>3, <1>4
<1>5. ASSUME NEW s \in Ids, SetExpiry(s) PROVE RowsCalm
  <2>1. \A t \in Ids : row'[t] # None => row[t] # None /\ row'[t].status = row[t].status
                                          /\ ~row'[t].late
    BY <1>0, <1>3, <1>5, RowFields DEF SetExpiry, RowTypes, Row
  <2> QED
    BY <1>00, <1>3, <2>1
<1>6. ASSUME NEW u \in Users, NEW c \in Channels, ~Taken(u, c), NewRow(u, c) PROVE RowsCalm
  <2>1. /\ \A s \in Created : s \in Uuids /\ row[s] = None /\ row'[s] =
                [user |-> u, channel |-> c, status |-> "ACTIVE", late |-> FALSE]
        /\ \A s \in Ids : row'[s] = row[s] \/ s \in Created
    BY <1>0, <1>6, NewRowOnly
  <2> QED
    BY <1>00, <1>3, <2>1
<1>7. ASSUME NEW h \in Requests, RequestStep(h) PROVE RowsCalm
  <2>1. CASE TouchTicket(h)
    <3>0. job[h].ticket \in Tickets
      BY <1>0, <2>1 DEF TouchTicket, JobKnown, TicketLabels
    <3> DEFINE t == job[h].ticket
    <3>1. \/ row' = row
          \/ row[t] # None /\ row' = [row EXCEPT ![t].late = FALSE,
                         ![t].status = IF pc[h] = "ticketReopen" THEN "ACTIVE" ELSE @]
      BY <2>1 DEF TouchTicket
    <3>2. ASSUME row[t] # None, row' = [row EXCEPT ![t].late = FALSE,
                         ![t].status = IF pc[h] = "ticketReopen" THEN "ACTIVE" ELSE @]
          PROVE  \A s \in Ids : IF s = t THEN ~row'[s].late ELSE row'[s] = row[s]
      BY <1>0, <1>00, <3>0, <3>2, RowFields DEF RowTypes, Row
    <3> HIDE DEF t
    <3> QED
      BY <1>00, <1>3, <1>4, <3>0, <3>1, <3>2 DEF t
  <2>2. CASE InsertTicket(h)
    <3>0. job[h].ticket \in Tickets
      BY <1>0, <2>2 DEF InsertTicket, JobKnown, TicketLabels
    <3>1. \/ row' = row
          \/ row' = [row EXCEPT ![job[h].ticket] =
                [user |-> job[h].user, channel |-> None, status |-> "ACTIVE", late |-> FALSE]]
      BY <2>2 DEF InsertTicket
    <3>2. \A s \in Ids : row'[s] = row[s] \/ (s \in Tickets /\ ~row'[s].late)
      BY <1>0, <1>00, <3>0, <3>1 DEF RowTypes
    <3> QED
      BY <1>00, <1>3, <3>2
  <2>3. CASE Deactivate(h)
    <3>1. Inactive({})
      BY <1>3, <2>3 DEF Deactivate
    <3>2. \A s \in Ids : row'[s] = row[s]
      BY <3>1 DEF Inactive
    <3> QED
      BY <1>00, <1>3, <3>2
  <2>4. CASE Insert(h)
    <3>1. job[h].user \in Users /\ job[h].channel \in Channels
      BY <1>0, <2>4 DEF Insert, JobKnown, PoolLabels
    <3> QED
      BY <1>4, <1>6, <2>4, <3>1 DEF Insert
  <2>5. CASE EventInsert(h)
    <3>1. job[h].user \in Users /\ job[h].channel \in Channels
      BY <1>0, <2>5 DEF EventInsert, JobKnown
    <3> QED
      BY <1>4, <1>6, <2>5, <3>1 DEF EventInsert
  <2>6. CASE Extend(h)
    <3>1. job[h].got \in Ids
      BY <1>0, <1>00, <2>6 DEF Extend, JobKnown, OwnInv, Mine, PoolLabels, TicketLabels
    <3> QED
      BY <1>5, <2>6, <3>1 DEF Extend
  <2>7. CASE EventExtend(h)
    <3>1. found[h] \in Ids
      BY <1>0, <1>00, <2>7 DEF EventExtend, OwnInv, Mine
    <3> QED
      BY <1>5, <2>7, <3>1 DEF EventExtend
  <2>8. ASSUME SelectTicket(h) \/ Pin(h) \/ Lookup(h) \/ SelectDoomed(h) \/ Touch(h) \/ Send(h)
               \/ WaitTimeout(h) \/ Conflict(h) \/ Fallback(h) \/ ReadyArrives(h)
               \/ ReadyLost(h) \/ EventFind(h) \/ EventConflict(h) \/ RequestFails(h)
               \/ EventFails(h)
        PROVE  row' = row
    BY <2>8 DEF SelectTicket, Pin, Lookup, SelectDoomed, Touch, Send, WaitTimeout, Conflict,
                Fallback, ReadyArrives, ReadyLost, EventFind, EventConflict, RequestFails,
                EventFails
  <2> QED
    BY <1>4, <1>7, <2>1, <2>2, <2>3, <2>4, <2>5, <2>6, <2>7, <2>8
       DEF RequestStep, Progress, EventProgress
<1>8. ASSUME CleanupTask PROVE RowsCalm
  <2>1. ~ExpireOld
    BY <1>3 DEF ExpireOld, Active
  <2>2. ASSUME DeleteInactive PROVE \A s \in Ids : row'[s] = row[s] \/ row'[s] = None
    BY <2>2 DEF DeleteInactive
  <2> QED
    BY <1>00, <1>3, <1>8, <2>1, <2>2 DEF CleanupTask
<1>9. ASSUME NEW h \in Requests, RequestStep(h) PROVE NoneDoomed
  <2>1. ASSUME NEW g \in Requests, g # h PROVE job'[g].doomed = {}
    BY <1>0, <1>3, <1>9, <2>1, OthersKeep DEF Same
  <2>2. ASSUME Fail(h) PROVE job'[h].doomed = {}
    BY <1>0, <2>2 DEF Fail, Fails, NoJob, HandlerTypes
  <2>3. ASSUME NEW s, Got(h, s) PROVE job'[h].doomed = {}
    BY <1>0, <1>3, <2>3 DEF Got, HandlerTypes, Job
  <2>4. CASE SelectDoomed(h)
    <3>1. job[h].user \in Users /\ job[h].channel \in Channels
      BY <1>0, <2>4 DEF SelectDoomed, JobKnown, PoolLabels
    <3>2. Cardinality(CleanupScope(job[h].user, job[h].channel)) <= 1
      BY <1>0, <1>01, <3>1, ScopeIsOne
    <3>3. job' = job
      BY <2>4, <3>2 DEF SelectDoomed
    <3> QED
      BY <1>3, <3>3
  <2>5. CASE Deactivate(h)
    BY <1>0, <1>3, <2>5 DEF Deactivate, HandlerTypes, Job
  <2>6. CASE SelectTicket(h)
    <3>1. PICK j \in Inbound : \/ job' = [job EXCEPT ![h] = Fails(j)]
                               \/ job' = [job EXCEPT ![h] = j]
      BY <2>6 DEF SelectTicket
    <3>2. j.doomed = {} /\ Fails(j).doomed = {}
      BY <1>0, InboundKnown, FailsKnown
    <3> QED
      BY <1>0, <2>1, <3>1, <3>2 DEF HandlerTypes
  <2>7. CASE Pin(h)
    <3>1. PICK j \in Inbound : \/ job' = [job EXCEPT ![h] = [j EXCEPT !.got = j.pin]]
                               \/ job' = [job EXCEPT ![h] = Fails(j)]
      BY <2>7 DEF Pin
    <3>2. j \in Job /\ j.doomed = {} /\ Fails(j).doomed = {}
      BY <1>0, InboundKnown, FailsKnown
    <3>3. [j EXCEPT !.got = j.pin].doomed = {}
      BY <3>2 DEF Job
    <3> QED
      BY <1>0, <2>1, <3>1, <3>2, <3>3 DEF HandlerTypes
  <2>8. CASE Lookup(h)
    <3>1. PICK j \in Inbound : \/ \E n : job' = [job EXCEPT ![h] = [j EXCEPT !.got = n]]
                               \/ job' = [job EXCEPT ![h] = j]
      BY <2>8 DEF Lookup
    <3>2. j \in Job /\ j.doomed = {}
      BY <1>0, InboundKnown
    <3>3. \A n : [j EXCEPT !.got = n].doomed = {}
      BY <3>2 DEF Job
    <3> QED
      BY <1>0, <2>1, <3>1, <3>2, <3>3 DEF HandlerTypes
  <2>9. CASE TouchTicket(h) \/ InsertTicket(h)
    BY <2>1, <2>2, <2>3, <2>9 DEF TouchTicket, InsertTicket
  <2>10. CASE Insert(h)
    <3>1. ASSUME job' = [job EXCEPT ![h].tries = @ + 1] PROVE job'[h].doomed = {}
      BY <1>0, <1>3, <3>1 DEF HandlerTypes, Job
    <3> QED
      BY <2>1, <2>3, <2>10, <3>1 DEF Insert
  <2>11. CASE Conflict(h) \/ Fallback(h) \/ ReadyArrives(h)
    BY <1>3, <2>1, <2>2, <2>3, <2>11 DEF Conflict, Fallback, ReadyArrives
  <2>12. CASE RequestFails(h) \/ Extend(h)
    BY <1>3, <2>1, <2>2, <2>12 DEF RequestFails, Extend
  <2>13. ASSUME Touch(h) \/ Send(h) \/ WaitTimeout(h) \/ ReadyLost(h) \/ EventFind(h)
                \/ EventInsert(h) \/ EventConflict(h) \/ EventExtend(h) \/ EventFails(h)
         PROVE  job' = job
    BY <2>13 DEF Touch, Send, WaitTimeout, ReadyLost, EventFind, EventInsert, EventConflict,
                 EventExtend, EventFails
  <2> QED
    BY <1>3, <1>9, <2>1, <2>4, <2>5, <2>6, <2>7, <2>8, <2>9, <2>10, <2>11, <2>12, <2>13
       DEF RequestStep, Progress, EventProgress
<1>10. ASSUME CleanupTask \/ UNCHANGED vars PROVE NoneDoomed
  BY <1>3, <1>10 DEF CleanupTask, ExpireOld, DeleteInactive, vars
<1> HIDE DEF RowsCalm, NoneDoomed
<1>11. RowsCalm /\ NoneDoomed
  BY <1>1, <1>4, <1>7, <1>8, <1>9, <1>10 DEF Next, vars
<1> QED
  BY <1>11 DEF RowsCalm, NoneDoomed

\* Every step keeps the invariant.
LEMMA SessionNext == SessionInv /\ [Next]_vars => SessionInv'
<1> SUFFICES ASSUME SessionInv, [Next]_vars PROVE SessionInv'
  OBVIOUS
<1>0. /\ TypeOK /\ HandlerTypes /\ EventTypes
      /\ \A h \in Requests : JobKnown(h) /\ OwnInv(h)
  BY TypeParts DEF SessionInv
<1>1. TableStep /\ Kept
  BY TableNext DEF TableStep
<1>2. CountTypes' /\ solo' = solo
  BY <1>0, CountNext
<1>3. Calm'
  BY CalmNext
<1>4. ASSUME NEW h \in Requests, RequestStep(h)
      PROVE  /\ HandlerTypes' /\ EventTypes'
             /\ \A g \in Requests : JobKnown(g)' /\ OwnInv(g)'
  <2>1. HandlerTypes' /\ EventTypes' /\ JobKnown(h)' /\ OwnInv(h)'
    BY <1>1, <1>2, <1>4, ArrivalSteps, PoolSteps, CreationSteps, EventSteps
       DEF RequestStep, Progress, EventProgress
  <2>2. ASSUME NEW g \in Requests, g # h PROVE JobKnown(g)' /\ OwnInv(g)'
    <3>1. Same(g)
      BY <1>0, <1>4, <2>2, OthersKeep
    <3> QED
      BY <1>0, <1>1, <1>2, <3>1, SameKnown
  <2> QED
    BY <2>1, <2>2
<1>5. ASSUME UNCHANGED <<pc, job, event, found, eventTries>>
      PROVE  /\ HandlerTypes' /\ EventTypes'
             /\ \A g \in Requests : JobKnown(g)' /\ OwnInv(g)'
  <2>1. HandlerTypes' /\ EventTypes'
    BY <1>0, <1>5 DEF HandlerTypes, EventTypes
  <2>2. ASSUME NEW g \in Requests PROVE JobKnown(g)' /\ OwnInv(g)'
    <3>1. Same(g)
      BY <1>5 DEF Same
    <3> QED
      BY <1>0, <1>1, <1>2, <3>1, SameKnown
  <2> QED
    BY <2>1, <2>2
<1>6. /\ HandlerTypes' /\ EventTypes'
      /\ \A g \in Requests : JobKnown(g)' /\ OwnInv(g)'
  <2>1. ASSUME Close \/ Lapse \/ CleanupTask \/ UNCHANGED vars
        PROVE  UNCHANGED <<pc, job, event, found, eventTries>>
    BY <2>1 DEF Close, Lapse, CleanupTask, ExpireOld, DeleteInactive, vars
  <2> QED
    BY <1>4, <1>5, <2>1 DEF Next
<1>7. TypeOK' /\ RowsKnown' /\ OneActive'
  BY <1>1, <1>2, <1>6, TypeParts DEF TableStep
<1> QED
  BY <1>3, <1>6, <1>7 DEF SessionInv

LEMMA SessionInit == Init => SessionInv
<1> SUFFICES ASSUME Init PROVE SessionInv
  OBVIOUS
<1>0. /\ Uuids \subseteq Ids /\ Tickets \subseteq Ids /\ Uuids \intersect Tickets = {}
      /\ None \notin Ids \union Users \union Requests \union Channels
      /\ MaxTries \in Nat \ {0} /\ MaxUpsets \in Nat
  BY SessionAssumption DEF Ids
<1>1. row \in [Ids -> [user: Users, channel: Channels \union {None},
                       status: {"ACTIVE", "OLD"}, late: {FALSE}] \union {None}]
  BY DEF Init, InitialRows
<1>2. /\ \A s \in Ids : row[s] # None => (row[s].channel = None <=> s \in Tickets)
      /\ \A s \in Uuids : row[s] # None => row[s].status = "ACTIVE"
      /\ \A s, t \in Uuids : row[s] # None /\ row[t] # None /\ s # t
                /\ row[s].status = "ACTIVE" /\ row[t].status = "ACTIVE"
                => <<row[s].user, row[s].channel>> # <<row[t].user, row[t].channel>>
  BY DEF Init, InitialRows
<1>3. RowTypes
  <2>1. row \in [Ids -> Row \union {None}]
    BY <1>1 DEF Row
  <2> QED
    BY <2>1 DEF Init, RowTypes
<1>4. HandlerTypes /\ EventTypes /\ CountTypes
  <2>1. NoJob \in Job
    BY <1>0 DEF NoJob, Job
  <2> QED
    BY <1>0, <2>1 DEF Init, HandlerTypes, EventTypes, CountTypes, Labels, EventLabels
<1>5. RowsKnown
  BY <1>0, <1>1, <1>2 DEF RowsKnown
<1>6. OneActive
  BY <1>2 DEF OneActive
<1>7. ASSUME NEW h \in Requests
      PROVE  JobKnown(h) /\ OwnInv(h) /\ job[h].doomed = {}
  BY <1>0, <1>7 DEF Init, JobKnown, OwnInv, NoJob, PoolLabels, TicketLabels
<1>8. \A s \in Ids : row[s] # None => ~row[s].late
  BY <1>1
<1>9. Calm
  BY <1>2, <1>7, <1>8 DEF Calm
<1> QED
  BY <1>3, <1>4, <1>5, <1>6, <1>7, <1>9, TypeParts DEF SessionInv

\* The invariant holds in every reachable state.
THEOREM SessionInvariance == Spec => []SessionInv
BY SessionInit, SessionNext, PTL DEF Spec

(***************************************************************************)
(* The properties.                                                         *)
(***************************************************************************)
\* The table, the locks and the handlers keep their types.
THEOREM SessionTypes == Spec => []TypeOK
<1>1. SessionInv => TypeOK
  BY DEF SessionInv
<1> QED
  BY <1>1, SessionInvariance, PTL

\* The session a message is given is its user's, a ticket's message has the
\* ticket's session, no other message has one, and with separate channels, or
\* with a pin, it is of the message's channel: however many handlers and events
\* race for it.
THEOREM HandedIsOwnAlways == Spec => []HandedIsOwn
<1>1. SessionInv => HandedIsOwn
  <2> SUFFICES ASSUME SessionInv, NEW h \in Requests, pc[h] = "handed"
               PROVE  LET j == job[h] IN
                      /\ j.ticket # None => j.got = j.ticket
                      /\ j.ticket = None => j.got \in Uuids
                      /\ j.ticket = None /\ row[j.got] # None =>
                          /\ row[j.got].user = j.user
                          /\ solo \/ j.pin # None => row[j.got].channel = j.channel
    BY DEF HandedIsOwn
  <2>1. JobKnown(h) /\ OwnInv(h)
    BY DEF SessionInv
  <2> QED
    BY <2>1 DEF JobKnown, OwnInv, Mine
<1> QED
  BY <1>1, SessionInvariance, PTL

\* A session that was closed, or had run out and been deactivated, before a
\* message came is not given to it, unless it is a ticket's: the lookups, the
\* index conflict and the event's handler all ask for active sessions, and
\* nothing makes a session of the pool active again.
THEOREM ClosedStaysClosedAlways == Spec => []ClosedStaysClosed
<1>1. SessionInv => ClosedStaysClosed
  <2> SUFFICES ASSUME SessionInv, NEW h \in Requests, pc[h] = "handed"
               PROVE  job[h].got \notin job[h].closed
    BY DEF ClosedStaysClosed
  <2>1. JobKnown(h) /\ OwnInv(h) /\ job[h] \in Job
    BY TypeParts DEF SessionInv, HandlerTypes
  <2>2. CASE job[h].ticket = None
    BY <2>1, <2>2 DEF OwnInv, Mine
  <2>3. CASE job[h].ticket # None
    <3>1. job[h].got \in Tickets /\ job[h].closed \subseteq Uuids
      BY <2>1, <2>3 DEF JobKnown, Job
    <3> QED
      BY <3>1, SessionAssumption
  <2> QED
    BY <2>2, <2>3
<1> QED
  BY <1>1, SessionInvariance, PTL

\* With a session for each channel, all messages of a user on a channel are given
\* the same session, as long as none is closed or runs out: the partial index
\* leaves one active, and nothing deactivates it.
THEOREM OneSessionPerChannelAlways == Spec => []OneSessionPerChannel
<1>1. SessionInv => OneSessionPerChannel
  <2> SUFFICES ASSUME SessionInv, NEW g \in Requests, NEW h \in Requests, solo, ends = 0,
                      pc[g] = "handed", pc[h] = "handed",
                      job[g].ticket = None, job[h].ticket = None,
                      job[g].user = job[h].user, job[g].channel = job[h].channel
               PROVE  job[g].got = job[h].got
    BY DEF OneSessionPerChannel
  <2>1. Mine(job[g].got, job[g]) /\ Mine(job[h].got, job[h])
    BY DEF SessionInv, OwnInv
  <2>2. \A s \in Uuids : row[s] # None => row[s].status = "ACTIVE"
    BY DEF SessionInv, Calm
  <2> QED
    BY <2>1, <2>2 DEF SessionInv, OneActive, Mine
<1> QED
  BY <1>1, SessionInvariance, PTL

\* A session of the pool keeps its user and channel, and once it is closed, by a
\* button, by cleaning up or by running out, no step makes it active again: only a
\* ticket's session is reopened.
THEOREM ClosedForGood ==
  Spec => [][\A s \in Uuids : row[s] # None /\ row'[s] # None =>
                /\ row'[s].user = row[s].user /\ row'[s].channel = row[s].channel
                /\ row[s].status # "ACTIVE" => row'[s].status # "ACTIVE"]_vars
<1>1. SessionInv /\ [Next]_vars => Kept
  BY TableNext DEF TableStep
<1>2. Kept => [\A s \in Uuids : row[s] # None /\ row'[s] # None =>
                /\ row'[s].user = row[s].user /\ row'[s].channel = row[s].channel
                /\ row[s].status # "ACTIVE" => row'[s].status # "ACTIVE"]_vars
  BY DEF Kept
<1> QED
  BY <1>1, <1>2, SessionInvariance, PTL DEF Spec
=============================================================================
