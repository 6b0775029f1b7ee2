------------------------------ MODULE Accounts ------------------------------
(***************************************************************************)
(* Who is who.  A person writes by e-mail, by Slack or through a channel    *)
(* that passes an address or a uuid; the tables users and                   *)
(* user_integration_mappings turn each of them into one canonical user.     *)
(* E-mail and Slack listeners, the request manager and the delivery of      *)
(* replies resolve addresses at the same time, each in several statements   *)
(* of its own READ COMMITTED transaction, while Slack profiles change and   *)
(* validated mappings age.                                                  *)
(*                                                                         *)
(* A mapping row belongs to a user and a type; the model keeps the EMAIL    *)
(* row of a user as its address and the SLACK row as address, Slack id and  *)
(* the age of its validation.                                               *)
(***************************************************************************)
EXTENDS Naturals, FiniteSets

CONSTANTS
    Emails,         \* addresses
    SlackIds,       \* members of the Slack workspace
    Users,          \* the uuids that uuid4() or a client may come up with
    Callers,        \* coroutines that resolve someone
    None,           \* NULL, no row
    NotFound,       \* "__NOT_FOUND__": the negative cache entry of an address
    MaxCalls,       \* bound: resolutions
    MaxChanges,     \* bound: changes of a Slack profile
    MaxExpiries,    \* bound: validations that get older than five minutes
    MaxFaults       \* bound: statements and Slack calls that fail

ASSUME NoneAssumption ==
    /\ None \notin Emails \union SlackIds \union Users
    /\ NotFound \notin SlackIds \union {None}
    /\ {MaxCalls, MaxChanges, MaxExpiries, MaxFaults} \subseteq Nat

Ops == {"mail", "slack", "lookup", "canonical", "uuid"}

Labels == {"idle", "cached", "validate", "profile", "known",
           "byAddress", "anyAddress", "findMapping", "findUser", "insertUser",
           "ensureRow", "upsertRow", "findAgain", "store", "consistent",
           "lookup", "revalidate", "search", "byUuid", "insertUuid",
           "done", "failed"}

VARIABLES
    users,      \* users.user_id: is there a row
    primary,    \* users.primary_email
    mail,       \* EMAIL row of a user: user_email = integration_user_id
    slack,      \* SLACK row of a user
    profile,    \* the address in a Slack member's profile (Slack's own state)
    pc, job,    \* where each caller stands and what it holds
    inserted,   \* user row a caller has flushed and not committed
    calls, changes, expiries, faults    \* counters of the bounds

tables == <<users, primary, mail, slack>>
counters == <<calls, changes, expiries, faults>>
vars == <<tables, profile, pc, job, inserted, counters>>

SlackRow == [email: Emails, id: SlackIds \union {NotFound}, fresh: BOOLEAN]
NoJob == [op |-> "mail", email |-> None, id |-> None, user |-> None, asked |-> None]
Job == [op: Ops, email: Emails \union {None},
        id: SlackIds \union {None, NotFound}, user: Users \union {None},
        asked: Users \union {None}]

TypeOK ==
    /\ users \subseteq Users
    /\ primary \in [Users -> Emails \union {None}]
    /\ mail \in [Users -> Emails \union {None}]
    /\ slack \in [Users -> SlackRow \union {None}]
    /\ profile \in [SlackIds -> Emails \union {None}]
    /\ pc \in [Callers -> Labels]
    /\ job \in [Callers -> Job]
    /\ inserted \in [Callers -> Users \union {None}]
    /\ calls \in 0..MaxCalls /\ changes \in 0..MaxChanges
    /\ expiries \in 0..MaxExpiries /\ faults \in 0..MaxFaults

Init ==
    /\ users = {}
    /\ primary = [u \in Users |-> None]
    /\ mail = [u \in Users |-> None]
    /\ slack = [u \in Users |-> None]
    /\ profile \in [SlackIds -> Emails]
    /\ \A s, t \in SlackIds : profile[s] = profile[t] => s = t
    /\ pc = [c \in Callers |-> "idle"]
    /\ job = [c \in Callers |-> NoJob]
    /\ inserted = [c \in Callers |-> None]
    /\ calls = 0 /\ changes = 0 /\ expiries = 0 /\ faults = 0

-----------------------------------------------------------------------------
(* What the statements see.                                                 *)

SlackOf(id) == {u \in Users : slack[u] # None /\ slack[u].id = id}
SlackWith(e) == {u \in Users : slack[u] # None /\ slack[u].email = e}
MailWith(e) == {u \in Users : mail[u] = e}
MappedTo(e) == SlackWith(e) \union MailWith(e)
Owner(e) == {u \in users : primary[u] = e}

Unused == Users \ (users \union {inserted[c] : c \in Callers})

\* An INSERT of an address waits for the transaction that has inserted it.
AddressLocked(e) == \E c \in Callers : inserted[c] # None /\ job[c].email = e

\* uq_integration_user_id_type: a Slack id belongs to one row, "__NOT_FOUND__"
\* to any number of them; in an EMAIL row the id is the address.
IdTaken(u, j) ==
    IF j.op \in {"mail", "canonical"} THEN \E v \in MailWith(j.email) : v # u
    ELSE j.id # NotFound /\ \E v \in SlackOf(j.id) : v # u

Goto(c, label) == pc' = [pc EXCEPT ![c] = label]
With(c, user, label) ==
    /\ job' = [job EXCEPT ![c].user = user]
    /\ Goto(c, label)

\* An error of the statement: the lookup for a delivery logs it and finds
\* nobody, the others raise.
Raise(c) ==
    /\ With(c, None, IF job[c].op = "lookup" THEN "done" ELSE "failed")

\* The canonical user is known: the request manager has what it asked for,
\* the others write the row of their type.
AfterCanonical(c) == IF job[c].op = "canonical" THEN "done" ELSE "store"
AfterStore(c) == IF job[c].op = "slack" THEN "consistent" ELSE "done"

Begin(c, op, email, id, user, label) ==
    /\ pc[c] = "idle"
    /\ calls < MaxCalls
    /\ calls' = calls + 1
    /\ job' = [job EXCEPT ![c] =
            [op |-> op, email |-> email, id |-> id, user |-> user, asked |-> None]]
    /\ Goto(c, label)
    /\ UNCHANGED <<tables, profile, inserted, changes, expiries, faults>>

Keep == UNCHANGED <<tables, profile, inserted, counters>>

-----------------------------------------------------------------------------
(* The calls.                                                               *)

\* A mail comes in: email_service resolves its sender.
ResolveMail(c) == \E e \in Emails : Begin(c, "mail", e, None, None, "byAddress")

\* The request manager or the delivery endpoint gets an address for a user id,
\* perhaps with "-<ticket>" after it, which is cut off.
ResolveAddress(c) == \E e \in Emails : Begin(c, "canonical", e, None, None, "findMapping")

\* A client asks for the conversations of an address, which makes a user of it
\* when it is a new one.  (A uuid is looked for as it is.)
AskConversations(c) == \E e \in Emails : Begin(c, "canonical", e, None, None, "findMapping")

\* A Slack event names its member.
ResolveSlack(c) == \E s \in SlackIds : Begin(c, "slack", None, s, None, "cached")

\* A client names a user by a uuid.
ResolveUuid(c) == \E u \in Users : Begin(c, "uuid", None, None, u, "byUuid")

\* A reply without a channel: who on Slack has the address of its user?
LookupSlack(c) ==
    \E e \in Emails : Owner(e) # {} /\ Begin(c, "lookup", e, None, None, "lookup")

\* The request manager names the user it has resolved to the agent by address, if
\* there is one and it can be read, and the dispatcher that gets the answer for
\* that name resolves it again.
NameUser(c) ==
    /\ pc[c] = "done"
    /\ job[c].op \in {"canonical", "uuid"}
    /\ job[c].user # None /\ job[c].asked = None
    /\ LET u == job[c].user IN
       \/ /\ primary[u] # None
          /\ job' = [job EXCEPT ![c] =
                [NoJob EXCEPT !.op = "canonical", !.email = primary[u], !.asked = u]]
          /\ Goto(c, "findMapping")
       \/ /\ job' = [job EXCEPT ![c] = [NoJob EXCEPT !.op = "uuid", !.user = u, !.asked = u]]
          /\ Goto(c, "byUuid")
    /\ Keep

\* The caller has its answer.
Return(c) ==
    /\ pc[c] \in {"done", "failed"}
    /\ Goto(c, "idle")
    /\ job' = [job EXCEPT ![c] = NoJob]
    /\ Keep

-----------------------------------------------------------------------------
(* Slack: the cached mapping first, then the profile, then any mapping.     *)

\* The mapping of the Slack id: taken as it is for five minutes.
ReadCached(c) ==
    /\ pc[c] = "cached"
    /\ \/ SlackOf(job[c].id) = {} /\ Goto(c, "profile") /\ UNCHANGED job
       \/ \E u \in SlackOf(job[c].id) :
            /\ job' = [job EXCEPT ![c].email = slack[u].email, ![c].user = u]
            /\ Goto(c, IF slack[u].fresh THEN "byAddress" ELSE "validate")
    /\ Keep

\* users.info of the row's id, and the time of the check written to the row: a
\* row found wrong counts as validated just now, too.
Checked(u) == slack' = [slack EXCEPT ![u].fresh = TRUE]

Validate(c) ==
    /\ pc[c] = "validate"
    /\ LET u == job[c].user  valid == profile[job[c].id] = job[c].email IN
       /\ slack[u] # None
       /\ Checked(u)
       /\ IF valid THEN Goto(c, "byAddress") /\ UNCHANGED job
          ELSE /\ job' = [job EXCEPT ![c].email = None, ![c].user = None]
               /\ Goto(c, "profile")
    /\ UNCHANGED <<users, primary, mail, profile, inserted, counters>>

\* users.info for the address; the row of the id, if there is one, counts as
\* validated whatever address it carries.
ReadProfile(c) ==
    /\ pc[c] = "profile"
    /\ LET e == profile[job[c].id] IN
       /\ job' = [job EXCEPT ![c].email = e, ![c].user = None]
       /\ Goto(c, IF e = None THEN "known" ELSE "byAddress")
       /\ slack' = [u \in Users |->
            IF e # None /\ u \in SlackOf(job[c].id)
            THEN [slack[u] EXCEPT !.fresh = TRUE] ELSE slack[u]]
    /\ UNCHANGED <<users, primary, mail, profile, inserted, counters>>

\* No address to be had: any mapping of the id will do.
ReadKnown(c) ==
    /\ pc[c] = "known"
    /\ \/ SlackOf(job[c].id) = {} /\ With(c, None, "failed")
       \/ \E u \in SlackOf(job[c].id) : With(c, u, "done")
    /\ Keep

-----------------------------------------------------------------------------
(* resolve_user_id_from_email and what follows it.                          *)

RowsOfSlackId(j) == IF j.op = "mail" THEN MailWith(j.email) ELSE SlackOf(j.id)
RowsOfType(j) == IF j.op = "mail" THEN MailWith(j.email) ELSE SlackWith(j.email)

ReadByAddress(c) ==
    /\ pc[c] = "byAddress"
    /\ \/ RowsOfType(job[c]) = {} /\ With(c, None, "anyAddress")
       \/ \E u \in RowsOfType(job[c]) :
            With(c, u, IF job[c].op = "slack" THEN "consistent" ELSE "done")
    /\ Keep

ReadAnyAddress(c) ==
    /\ pc[c] = "anyAddress"
    /\ \/ MappedTo(job[c].email) = {} /\ With(c, None, "findMapping")
       \/ \E u \in MappedTo(job[c].email) : With(c, u, "store")
    /\ Keep

HolderOfSlackId(j) ==
    IF j.op # "mail" /\ SlackOf(j.id) # {} THEN CHOOSE u \in SlackOf(j.id) : TRUE ELSE j.user

\* The user whose row store_user_mapping writes.
RowOwner(j) == j.user

\* INSERT ... ON CONFLICT (user_id, integration_type) DO UPDATE, and its commit.
Store(c) ==
    /\ pc[c] = "store"
    /\ LET j == job[c]  u == RowOwner(j) IN
       \/ /\ IdTaken(u, j)
          /\ Raise(c)
          /\ UNCHANGED <<mail, slack>>
       \/ /\ ~IdTaken(u, j)
          /\ Goto(c, AfterStore(c))
          /\ IF j.op = "mail"
             THEN mail' = [mail EXCEPT ![u] = j.email] /\ UNCHANGED slack
             ELSE /\ slack' = [slack EXCEPT ![u] =
                       [email |-> j.email, id |-> j.id, fresh |-> TRUE]]
                  /\ UNCHANGED mail
          /\ UNCHANGED job
    /\ UNCHANGED <<users, primary, profile, inserted, counters>>

\* The EMAIL row of the address decides when it names another user: the SLACK row
\* is written for that one.  (OneUserPerAddress says it never does.)
Consistent(c) ==
    /\ pc[c] = "consistent"
    /\ LET others == MailWith(job[c].email) \ {job[c].user} IN
       \/ others = {} /\ Goto(c, "done") /\ UNCHANGED job
       \/ \E u \in others : With(c, u, "store")
    /\ Keep

-----------------------------------------------------------------------------
(* get_or_create_canonical_user.                                            *)

FindMapping(c) ==
    /\ pc[c] = "findMapping"
    /\ \/ MappedTo(job[c].email) = {} /\ Goto(c, "findUser") /\ UNCHANGED job
       \/ \E u \in MappedTo(job[c].email) : With(c, u, "ensureRow")
    /\ Keep

FindUser(c) ==
    /\ pc[c] \in {"findUser", "findAgain"}
    /\ \/ /\ Owner(job[c].email) = {}
          /\ IF pc[c] = "findUser" THEN Goto(c, "insertUser") /\ UNCHANGED job ELSE Raise(c)
       \/ \E u \in Owner(job[c].email) : With(c, u, "ensureRow")
    /\ Keep

\* users.primary_email is unique: the INSERT waits for one that is not yet
\* committed, fails when the address is there, and then reads it again.
InsertUser(c) ==
    /\ pc[c] = "insertUser"
    /\ ~AddressLocked(job[c].email)
    /\ \/ /\ Owner(job[c].email) # {}
          /\ Goto(c, "findAgain")
          /\ UNCHANGED <<job, inserted>>
       \/ /\ Owner(job[c].email) = {}
          /\ \E u \in Unused :
                /\ inserted' = [inserted EXCEPT ![c] = u]
                /\ With(c, u, "ensureRow")
    /\ UNCHANGED <<tables, profile, counters>>

\* _ensure_email_mapping: only a user without an EMAIL row gets one.
EnsureRow(c) ==
    /\ pc[c] = "ensureRow"
    /\ Goto(c, IF mail[job[c].user] = None THEN "upsertRow" ELSE AfterCanonical(c))
    /\ UNCHANGED <<job, tables, profile, inserted, counters>>

\* Its upsert and the commit, which also makes a new user visible.  When the
\* address has an EMAIL row already, the transaction is rolled back; only the
\* attempt that has inserted the user looks for the address once more.
UpsertRow(c) ==
    /\ pc[c] = "upsertRow"
    /\ LET u == job[c].user  e == job[c].email IN
       \/ /\ \E v \in MailWith(e) : v # u
          /\ IF inserted[c] # None THEN Goto(c, "findAgain") /\ UNCHANGED job ELSE Raise(c)
          /\ UNCHANGED tables
       \/ /\ ~\E v \in MailWith(e) : v # u
          /\ mail' = [mail EXCEPT ![u] = e]
          /\ IF inserted[c] = None THEN UNCHANGED <<users, primary>>
             ELSE /\ users' = users \union {u}
                  /\ primary' = [primary EXCEPT ![u] = e]
          /\ Goto(c, AfterCanonical(c))
          /\ UNCHANGED <<job, slack>>
    /\ inserted' = [inserted EXCEPT ![c] = None]
    /\ UNCHANGED <<profile, counters>>

-----------------------------------------------------------------------------
(* A uuid is its own answer; a row without an address is made for it.       *)

FindUuid(c) ==
    /\ pc[c] = "byUuid"
    /\ Goto(c, IF job[c].user \in users THEN "done" ELSE "insertUuid")
    /\ UNCHANGED job
    /\ Keep

\* user_id is unique: whoever comes second reads the row again.
InsertUuid(c) ==
    /\ pc[c] = "insertUuid"
    /\ \A d \in Callers : inserted[d] # job[c].user
    /\ users' = users \union {job[c].user}
    /\ Goto(c, "done")
    /\ UNCHANGED <<job, primary, mail, slack, profile, inserted, counters>>

-----------------------------------------------------------------------------
(* The lookup for a delivery.                                               *)

\* The SLACK row of the address; an old entry for "not found" is deleted.
ReadLookup(c) ==
    /\ pc[c] = "lookup"
    /\ \/ /\ SlackWith(job[c].email) = {}
          /\ Goto(c, "search")
          /\ UNCHANGED <<job, slack>>
       \/ \E u \in SlackWith(job[c].email) :
            /\ job' = [job EXCEPT ![c].user = u, ![c].id = slack[u].id]
            /\ IF ~slack[u].fresh /\ slack[u].id = NotFound
               THEN slack' = [slack EXCEPT ![u] = None] ELSE UNCHANGED slack
            /\ Goto(c, IF slack[u].fresh THEN "done"
                       ELSE IF slack[u].id = NotFound THEN "search" ELSE "revalidate")
    /\ UNCHANGED <<users, primary, mail, profile, inserted, counters>>

Revalidate(c) ==
    /\ pc[c] = "revalidate"
    /\ LET u == job[c].user  valid == profile[job[c].id] = job[c].email IN
       /\ slack[u] # None
       /\ Checked(u)
       /\ Goto(c, IF valid THEN "done" ELSE "search")
    /\ UNCHANGED <<job, users, primary, mail, profile, inserted, counters>>

\* users.lookupByEmail: the id found, or the entry for "not found", is stored.
Search(c) ==
    /\ pc[c] = "search"
    /\ LET found == {s \in SlackIds : profile[s] = job[c].email} IN
       \E s \in IF found = {} THEN {NotFound} ELSE found :
            job' = [job EXCEPT ![c].id = s, ![c].user = None]
    /\ Goto(c, "findMapping")
    /\ Keep

-----------------------------------------------------------------------------
(* The surroundings.                                                        *)

\* A member gets another address, one that no other profile carries, or hides it.
ProfileChanges ==
    /\ changes < MaxChanges
    /\ changes' = changes + 1
    /\ \E s \in SlackIds, e \in Emails \union {None} :
        /\ e = None \/ \A t \in SlackIds : profile[t] # e
        /\ profile[s] # e
        /\ profile' = [profile EXCEPT ![s] = e]
    /\ UNCHANGED <<tables, pc, job, inserted, calls, expiries, faults>>

\* Five minutes pass for a validation.
ValidationAges ==
    /\ expiries < MaxExpiries
    /\ expiries' = expiries + 1
    /\ \E u \in Users :
        /\ slack[u] # None /\ slack[u].fresh
        /\ slack' = [slack EXCEPT ![u].fresh = FALSE]
    /\ UNCHANGED <<users, primary, mail, profile, pc, job, inserted, calls, changes, faults>>

\* A statement or a call of Slack's API fails, or a row to be updated is gone.
\* The cache lookups and the profile pass it over, a delivery finds nobody, the
\* others raise; the transaction is rolled back.
Passed(c) ==
    IF pc[c] \in {"cached", "validate"} THEN "profile"
    ELSE IF pc[c] = "profile" THEN "known"
    ELSE IF pc[c] \in {"lookup", "revalidate"} THEN "search"
    ELSE IF job[c].op = "lookup" THEN "done" ELSE "failed"

CallFails(c) ==
    /\ pc[c] \notin {"idle", "done", "failed"}
    /\ IF pc[c] \in {"validate", "revalidate"} /\ slack[job[c].user] = None
       THEN UNCHANGED faults
       ELSE faults < MaxFaults /\ faults' = faults + 1
    /\ Goto(c, Passed(c))
    /\ job' = [job EXCEPT ![c].user = None,
                          ![c].email = IF pc[c] = "validate" THEN None ELSE @]
    /\ inserted' = [inserted EXCEPT ![c] = None]
    /\ UNCHANGED <<tables, profile, calls, changes, expiries>>

\* users.info fails while a row is validated: the row counts as wrong.
CheckFails(c) ==
    /\ pc[c] \in {"validate", "revalidate"}
    /\ slack[job[c].user] # None
    /\ faults < MaxFaults
    /\ faults' = faults + 1
    /\ Checked(job[c].user)
    /\ Goto(c, Passed(c))
    /\ job' = [job EXCEPT ![c].email = IF pc[c] = "validate" THEN None ELSE @]
    /\ UNCHANGED <<users, primary, mail, profile, inserted, calls, changes, expiries>>

CallerStep(c) ==
    \/ ResolveMail(c) \/ ResolveAddress(c) \/ ResolveSlack(c) \/ ResolveUuid(c)
    \/ AskConversations(c) \/ LookupSlack(c) \/ NameUser(c) \/ Return(c)
    \/ ReadCached(c) \/ Validate(c) \/ ReadProfile(c) \/ ReadKnown(c)
    \/ ReadByAddress(c) \/ ReadAnyAddress(c) \/ Store(c) \/ Consistent(c)
    \/ FindMapping(c) \/ FindUser(c) \/ InsertUser(c) \/ EnsureRow(c) \/ UpsertRow(c)
    \/ FindUuid(c) \/ InsertUuid(c)
    \/ ReadLookup(c) \/ Revalidate(c) \/ Search(c)
    \/ CallFails(c) \/ CheckFails(c)

Next == ProfileChanges \/ ValidationAges \/ \E c \in Callers : CallerStep(c)

Spec == Init /\ [][Next]_vars

-----------------------------------------------------------------------------
(* Properties.                                                              *)

\* All rows that carry an address belong to one user, the one whose
\* primary_email it is, whichever of the callers wrote them and however their
\* statements interleaved: nobody is split into two users, and no row of one
\* user carries the address of another.
OneUserPerAddress ==
    /\ \A u, v \in users : primary[u] = primary[v] /\ primary[u] # None => u = v
    /\ \A u \in Users : mail[u] # None => u \in users /\ mail[u] = primary[u]
    /\ \A u \in Users : slack[u] # None => u \in users /\ slack[u].email = primary[u]

\* Whoever an address is resolved to, by mail, by Slack or by the request
\* manager, is the user who owns that address; and the name a user goes by between
\* the services comes back as that user.
ResolvedIsOwner ==
    \A c \in Callers : pc[c] = "done" =>
        /\ job[c].user # None /\ job[c].email # None =>
            job[c].user \in users /\ primary[job[c].user] = job[c].email
        /\ job[c].asked # None => job[c].user = job[c].asked
=============================================================================
