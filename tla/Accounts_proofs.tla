--------------------------- MODULE Accounts_proofs ---------------------------
(***************************************************************************)
(* Proofs about Accounts, for every number of addresses, Slack members,    *)
(* uuids, callers, resolutions and faults.                                 *)
(***************************************************************************)
EXTENDS Accounts, TLAPS

USE DEF tables, counters

(***************************************************************************)
(* What the tables and the callers hold, as far as the ownership of        *)
(* addresses depends on it.                                                *)
(***************************************************************************)
Row == [email: Emails, id: SlackIds \union {None, NotFound}, fresh: BOOLEAN]
TableTypes ==
  /\ users \subseteq Users
  /\ primary \in [Users -> Emails \union {None}]
  /\ mail \in [Users -> Emails \union {None}]
  /\ slack \in [Users -> Row \union {None}]
  /\ profile \in [SlackIds -> Emails \union {None}]
CallerTypes ==
  /\ pc \in [Callers -> Labels]
  /\ job \in [Callers -> Job]
  /\ inserted \in [Callers -> Users \union {None}]

\* The labels at which a caller has an address; at others it has none yet, or is
\* never to have one.
Addressed == {"validate", "byAddress", "anyAddress", "findMapping", "findUser",
              "findAgain", "insertUser", "ensureRow", "upsertRow", "store", "consistent",
              "lookup", "revalidate", "search"}
JobKnown(c) ==
  /\ pc[c] \in Addressed => job[c].email \in Emails
  /\ pc[c] \in {"cached", "profile", "known", "byUuid", "insertUuid"} => job[c].email = None
  /\ pc[c] \in {"cached", "validate", "profile"} => job[c].id \in SlackIds
  /\ pc[c] \in {"byUuid", "insertUuid", "ensureRow", "upsertRow"} => job[c].user \in Users
TypeInv == TableTypes /\ CallerTypes /\ \A c \in Callers : JobKnown(c)

LEMMA NullsDiffer ==
  /\ None \notin Emails /\ None \notin SlackIds /\ None \notin Users
BY NoneAssumption

\* How the record of a job changes.
LEMMA JobSet ==
  ASSUME CallerTypes, NEW c \in Callers, NEW j \in Job, job' = [job EXCEPT ![c] = j]
  PROVE  /\ job' \in [Callers -> Job]
         /\ job'[c] = j
         /\ \A d \in Callers : d # c => job'[d] = job[d]
BY DEF CallerTypes
LEMMA JobUser ==
  ASSUME CallerTypes, NEW c \in Callers, NEW u \in Users \union {None},
         job' = [job EXCEPT ![c].user = u]
  PROVE  /\ job' \in [Callers -> Job]
         /\ job'[c] = [job[c] EXCEPT !.user = u]
         /\ \A d \in Callers : d # c => job'[d] = job[d]
<1>1. job[c] \in Job
  BY DEF CallerTypes
<1>2. [job[c] EXCEPT !.user = u] \in Job
  BY <1>1 DEF Job
<1>3. job' = [job EXCEPT ![c] = [job[c] EXCEPT !.user = u]]
  BY DEF CallerTypes
<1> QED
  BY <1>2, <1>3, JobSet
LEMMA JobEmailUser ==
  ASSUME CallerTypes, NEW c \in Callers, NEW u \in Users \union {None},
         NEW e \in Emails \union {None},
         job' = [job EXCEPT ![c].email = e, ![c].user = u]
  PROVE  /\ job' \in [Callers -> Job]
         /\ job'[c] = [job[c] EXCEPT !.email = e, !.user = u]
         /\ \A d \in Callers : d # c => job'[d] = job[d]
<1>1. job[c] \in Job
  BY DEF CallerTypes
<1>2. [job[c] EXCEPT !.email = e, !.user = u] \in Job
  BY <1>1 DEF Job
<1>3. job' = [job EXCEPT ![c] = [job[c] EXCEPT !.email = e, !.user = u]]
  BY DEF CallerTypes
<1> QED
  BY <1>2, <1>3, JobSet

LEMMA JobIdUser ==
  ASSUME CallerTypes, NEW c \in Callers, NEW u \in Users \union {None},
         NEW i \in SlackIds \union {None, NotFound},
         job' = [job EXCEPT ![c].id = i, ![c].user = u]
  PROVE  /\ job' \in [Callers -> Job]
         /\ job'[c] = [job[c] EXCEPT !.id = i, !.user = u]
         /\ \A d \in Callers : d # c => job'[d] = job[d]
<1>1. job[c] \in Job
  BY DEF CallerTypes
<1>2. [job[c] EXCEPT !.id = i, !.user = u] \in Job
  BY <1>1 DEF Job
<1>3. job' = [job EXCEPT ![c] = [job[c] EXCEPT !.id = i, !.user = u]]
  BY DEF CallerTypes
<1> QED
  BY <1>2, <1>3, JobSet

\* What begins a call, and where it goes.
LEMMA BeginTypes ==
  ASSUME TypeInv, NEW c \in Callers, NEW o \in Ops, NEW e \in Emails \union {None},
         NEW i \in SlackIds \union {None}, NEW u \in Users \union {None},
         NEW l \in Labels, Begin(c, o, e, i, u, l),
         l \in Addressed => e \in Emails,
         l = "cached" => e = None /\ i \in SlackIds,
         l = "byUuid" => e = None /\ u \in Users,
         l \notin {"validate", "profile", "known", "insertUuid", "ensureRow", "upsertRow"}
  PROVE  TypeInv'
<1>0. TableTypes /\ CallerTypes /\ \A d \in Callers : JobKnown(d)
  BY DEF TypeInv
<1> DEFINE j == [op |-> o, email |-> e, id |-> i, user |-> u, asked |-> None]
<1>1. j \in Job
  BY DEF Job
<1>2. job' = [job EXCEPT ![c] = j] /\ pc' = [pc EXCEPT ![c] = l] /\ UNCHANGED <<tables, profile, inserted>>
  BY DEF Begin, Goto
<1>3. job' \in [Callers -> Job] /\ job'[c] = j /\ \A d \in Callers : d # c => job'[d] = job[d]
  <2> HIDE DEF j
  <2> QED
    BY <1>0, <1>1, <1>2, JobSet
<1>4. TableTypes' /\ CallerTypes'
  BY <1>0, <1>2, <1>3 DEF TableTypes, CallerTypes
<1>5. JobKnown(c)'
  BY <1>0, <1>2, <1>3 DEF JobKnown, CallerTypes
<1>6. \A d \in Callers : d # c => JobKnown(d)'
  BY <1>0, <1>2, <1>3 DEF JobKnown, CallerTypes
<1> QED
  BY <1>4, <1>5, <1>6 DEF TypeInv

\* Every other step changes the fields of a job.
LEMMA StepTypes ==
  ASSUME TypeInv, NEW c \in Callers, TableTypes', job' \in [Callers -> Job],
         inserted' \in [Callers -> Users \union {None}],
         NEW l \in Labels, pc' = [pc EXCEPT ![c] = l], JobKnown(c)',
         \A d \in Callers : d # c => job'[d] = job[d]
  PROVE  TypeInv'
BY DEF TypeInv, CallerTypes, JobKnown

\* A row that is checked stays a row.
LEMMA FreshTypes ==
  ASSUME TableTypes, NEW u, slack[u] # None, slack' = [slack EXCEPT ![u].fresh = TRUE]
  PROVE  slack' \in [Users -> Row \union {None}]
<1>1. CASE u \in Users
  <2>1. slack[u] \in Row
    BY <1>1 DEF TableTypes
  <2>2. [slack[u] EXCEPT !.fresh = TRUE] \in Row
    BY <2>1 DEF Row
  <2>3. slack' = [slack EXCEPT ![u] = [slack[u] EXCEPT !.fresh = TRUE]]
    OBVIOUS
  <2> QED
    BY <2>2, <2>3, <1>1 DEF TableTypes
<1>2. CASE u \notin Users
  BY <1>2 DEF TableTypes
<1> QED
  BY <1>1, <1>2


LEMMA TypeInit == Init => TypeInv
BY NoneAssumption DEF Init, TypeInv, TableTypes, CallerTypes, JobKnown, Addressed,
  NoJob, Job, Ops, Labels

\* Every step keeps the types.
LEMMA TypeNext == TypeInv /\ [Next]_vars => TypeInv'
<1> SUFFICES ASSUME TypeInv, [Next]_vars PROVE TypeInv'
  OBVIOUS
<1>0. TableTypes /\ CallerTypes
  BY DEF TypeInv
<1>k. \A c \in Callers : JobKnown(c)
  BY DEF TypeInv
<1>1. ASSUME NEW c \in Callers, ResolveMail(c) PROVE TypeInv'
  <2>1. PICK e \in Emails : Begin(c, "mail", e, None, None, "byAddress")
    BY <1>1 DEF ResolveMail
  <2> QED
    BY <2>1, BeginTypes, NullsDiffer DEF Ops, Labels, Addressed
<1>2. ASSUME NEW c \in Callers, ResolveAddress(c) PROVE TypeInv'
  <2>1. PICK e \in Emails : Begin(c, "canonical", e, None, None, "findMapping")
    BY <1>2 DEF ResolveAddress
  <2> QED
    BY <2>1, BeginTypes, NullsDiffer DEF Ops, Labels, Addressed
<1>3. ASSUME NEW c \in Callers, ResolveSlack(c) PROVE TypeInv'
  <2>1. PICK s \in SlackIds : Begin(c, "slack", None, s, None, "cached")
    BY <1>3 DEF ResolveSlack
  <2> QED
    BY <2>1, BeginTypes, NullsDiffer DEF Ops, Labels, Addressed
<1>4. ASSUME NEW c \in Callers, ResolveUuid(c) PROVE TypeInv'
  <2>1. PICK u \in Users : Begin(c, "uuid", None, None, u, "byUuid")
    BY <1>4 DEF ResolveUuid
  <2> QED
    BY <2>1, BeginTypes, NullsDiffer DEF Ops, Labels, Addressed
<1>5. ASSUME NEW c \in Callers, AskConversations(c) PROVE TypeInv'
  <2>1. PICK e \in Emails : Begin(c, "canonical", e, None, None, "findMapping")
    BY <1>5 DEF AskConversations
  <2> QED
    BY <2>1, BeginTypes, NullsDiffer DEF Ops, Labels, Addressed
<1>6. ASSUME NEW c \in Callers, LookupSlack(c) PROVE TypeInv'
  <2>1. PICK e \in Emails : Begin(c, "lookup", e, None, None, "lookup")
    BY <1>6 DEF LookupSlack
  <2> QED
    BY <2>1, BeginTypes, NullsDiffer DEF Ops, Labels, Addressed
<1>7. ASSUME NEW c \in Callers, NameUser(c) PROVE TypeInv'
  <2>t. TableTypes'
    BY <1>0, <1>7 DEF NameUser, Goto, Keep, NoJob, TableTypes
  <2>i. inserted' \in [Callers -> Users \union {None}]
    BY <1>7, <1>0 DEF NameUser, Goto, Keep, NoJob, TableTypes, CallerTypes
  <2>1. PICK j \in Job, l \in Labels :
          /\ job' = [job EXCEPT ![c] = j] /\ pc' = [pc EXCEPT ![c] = l]
          /\ \/ l = "findMapping" /\ j.email \in Emails
             \/ l = "byUuid" /\ j.email = None /\ j.user \in Users
    <3>1. job[c].user \in Users
      BY <1>7, <1>0 DEF NameUser, CallerTypes, Job
    <3> DEFINE u == job[c].user
               j1 == [NoJob EXCEPT !.op = "canonical", !.email = primary[u], !.asked = u]
               j2 == [NoJob EXCEPT !.op = "uuid", !.user = u, !.asked = u]
    <3>2. CASE primary[u] # None /\ job' = [job EXCEPT ![c] = j1] /\ Goto(c, "findMapping")
      <4>1. j1 \in Job /\ j1.email \in Emails
        BY <3>1, <3>2, <1>0 DEF Job, NoJob, Ops, TableTypes
      <4> QED
        BY <4>1, <3>2 DEF Goto, Labels
    <3>3. CASE job' = [job EXCEPT ![c] = j2] /\ Goto(c, "byUuid")
      <4>1. j2 \in Job /\ j2.email = None /\ j2.user \in Users
        BY <3>1 DEF Job, NoJob, Ops
      <4> QED
        BY <4>1, <3>3 DEF Goto, Labels
    <3> QED
      BY <1>7, <3>2, <3>3 DEF NameUser
  <2>2. job' \in [Callers -> Job] /\ job'[c] = j
          /\ \A d \in Callers : d # c => job'[d] = job[d]
    BY <1>0, <2>1, JobSet
  <2>3. JobKnown(c)'
    BY <1>0, <2>1, <2>2 DEF JobKnown, Addressed, CallerTypes
  <2> QED
    BY <1>0, <2>t, <2>i, <2>1, <2>2, <2>3, StepTypes
<1>8. ASSUME NEW c \in Callers, Return(c) PROVE TypeInv'
  <2>t. TableTypes'
    BY <1>0, <1>8 DEF Return, Goto, Keep, NoJob, TableTypes
  <2>i. inserted' \in [Callers -> Users \union {None}]
    BY <1>8, <1>0 DEF Return, Goto, Keep, NoJob, TableTypes, CallerTypes
  <2>1. NoJob \in Job /\ "idle" \in Labels
    BY DEF NoJob, Job, Ops, Labels
  <2>2. job' \in [Callers -> Job] /\ \A d \in Callers : d # c => job'[d] = job[d]
    BY <1>8, <1>0, <2>1, JobSet DEF Return
  <2>3. JobKnown(c)'
    BY <1>8, <1>0 DEF Return, Goto, JobKnown, Addressed, CallerTypes
  <2>4. pc' = [pc EXCEPT ![c] = "idle"]
    BY <1>8 DEF Return, Goto
  <2> QED
    BY <1>0, <2>t, <2>i, <2>1, <2>2, <2>3, <2>4, StepTypes
<1>9. ASSUME NEW c \in Callers, ReadCached(c) PROVE TypeInv'
  <2>t. TableTypes'
    BY <1>0, <1>9 DEF ReadCached, Goto, Keep, SlackOf, TableTypes
  <2>i. inserted' \in [Callers -> Users \union {None}]
    BY <1>9, <1>0 DEF ReadCached, Goto, Keep, SlackOf, TableTypes, CallerTypes
  <2>1. CASE UNCHANGED job /\ Goto(c, "profile")
    <3>1. JobKnown(c)'
      BY <1>9, <1>0, <1>k, <2>1 DEF ReadCached, Goto, JobKnown, Addressed, CallerTypes
    <3> QED
      BY <1>0, <2>t, <2>i, <2>1, <3>1, StepTypes DEF Goto, Labels, CallerTypes
  <2>2. CASE \E u \in SlackOf(job[c].id) :
              /\ job' = [job EXCEPT ![c].email = slack[u].email, ![c].user = u]
              /\ Goto(c, IF slack[u].fresh THEN "byAddress" ELSE "validate")
    <3>1. PICK u \in Users, l \in {"byAddress", "validate"} :
            /\ slack[u] \in Row
            /\ job' = [job EXCEPT ![c].email = slack[u].email, ![c].user = u]
            /\ pc' = [pc EXCEPT ![c] = l]
      BY <1>0, <2>2 DEF SlackOf, Goto, TableTypes
    <3>2. slack[u].email \in Emails
      BY <3>1 DEF Row
    <3>3. job' \in [Callers -> Job] /\ job'[c] = [job[c] EXCEPT !.email = slack[u].email, !.user = u]
            /\ \A d \in Callers : d # c => job'[d] = job[d]
      BY <1>0, <3>1, <3>2, JobEmailUser
    <3>4. JobKnown(c)'
      BY <1>9, <1>0, <1>k, <3>1, <3>2, <3>3 DEF ReadCached, JobKnown, Addressed,
        CallerTypes, Job
    <3> QED
      BY <1>0, <2>t, <2>i, <3>1, <3>3, <3>4, StepTypes DEF Labels
  <2> QED
    BY <1>9, <2>1, <2>2 DEF ReadCached
<1>10. ASSUME NEW c \in Callers, Validate(c) PROVE TypeInv'
  <2>t. TableTypes'
    BY <1>0, <1>10, FreshTypes DEF Validate, Checked, TableTypes
  <2>i. inserted' \in [Callers -> Users \union {None}]
    BY <1>10, <1>0 DEF Validate, CallerTypes
  <2>1. CASE UNCHANGED job /\ Goto(c, "byAddress")
    <3>1. JobKnown(c)'
      BY <1>10, <1>0, <1>k, <2>1 DEF Validate, Goto, JobKnown, Addressed, CallerTypes
    <3> QED
      BY <1>0, <2>t, <2>i, <2>1, <3>1, StepTypes DEF Goto, Labels, CallerTypes
  <2>2. CASE job' = [job EXCEPT ![c].email = None, ![c].user = None] /\ Goto(c, "profile")
    <3>1. job' \in [Callers -> Job] /\ job'[c] = [job[c] EXCEPT !.email = None, !.user = None]
            /\ \A d \in Callers : d # c => job'[d] = job[d]
      BY <1>0, <2>2, JobEmailUser
    <3>2. JobKnown(c)'
      BY <1>10, <1>0, <1>k, <2>2, <3>1 DEF Validate, Goto, JobKnown, Addressed,
        CallerTypes, Job
    <3> QED
      BY <1>0, <2>t, <2>i, <2>2, <3>1, <3>2, StepTypes DEF Goto, Labels
  <2> QED
    BY <1>10, <2>1, <2>2 DEF Validate
<1>11. ASSUME NEW c \in Callers, ReadProfile(c) PROVE TypeInv'
  <2>1. PICK e \in Emails \union {None} :
          /\ job' = [job EXCEPT ![c].email = e, ![c].user = None]
          /\ Goto(c, IF e = None THEN "known" ELSE "byAddress")
    BY <1>11, <1>0, <1>k DEF ReadProfile, JobKnown, TableTypes
  <2>t. TableTypes'
    <3>1. \A u \in Users : slack[u] # None => [slack[u] EXCEPT !.fresh = TRUE] \in Row
      BY <1>0 DEF TableTypes, Row
    <3> QED
      BY <1>0, <1>11, <3>1 DEF ReadProfile, SlackOf, TableTypes
  <2>i. inserted' \in [Callers -> Users \union {None}]
    BY <1>11, <1>0 DEF ReadProfile, CallerTypes
  <2>2. job' \in [Callers -> Job] /\ job'[c] = [job[c] EXCEPT !.email = e, !.user = None]
          /\ \A d \in Callers : d # c => job'[d] = job[d]
    BY <1>0, <2>1, JobEmailUser
  <2>3. JobKnown(c)'
    BY <1>11, <1>0, <1>k, <2>1, <2>2 DEF ReadProfile, Goto, JobKnown, Addressed,
      CallerTypes, Job
  <2>4. PICK l \in Labels : pc' = [pc EXCEPT ![c] = l]
    BY <2>1 DEF Goto, Labels
  <2> QED
    BY <1>0, <2>t, <2>i, <2>2, <2>3, <2>4, StepTypes
<1>12. ASSUME NEW c \in Callers, ReadKnown(c) PROVE TypeInv'
  <2>t. TableTypes'
    BY <1>0, <1>12 DEF ReadKnown, With, Goto, Keep, SlackOf, TableTypes
  <2>i. inserted' \in [Callers -> Users \union {None}]
    BY <1>12, <1>0 DEF ReadKnown, With, Goto, Keep, SlackOf, TableTypes, CallerTypes
  <2>1. PICK u \in Users \union {None}, l \in Labels :
            job' = [job EXCEPT ![c].user = u] /\ pc' = [pc EXCEPT ![c] = l]
               /\ l \in {"failed", "done"} /\ (l = "ensureRow" => u \in Users)
    BY <1>12, <1>0 DEF ReadKnown, With, Goto, Keep, SlackOf, Labels, TableTypes,
      CallerTypes, Job
  <2>2. job' \in [Callers -> Job] /\ job'[c] = [job[c] EXCEPT !.user = u]
          /\ \A d \in Callers : d # c => job'[d] = job[d]
    BY <1>0, <2>1, JobUser
  <2>3. JobKnown(c)'
    BY <1>12, <1>0, <1>k, <2>1, <2>2 DEF ReadKnown, JobKnown, Addressed, CallerTypes,
      Job
  <2> QED
    BY <1>0, <2>t, <2>i, <2>1, <2>2, <2>3, StepTypes
<1>13. ASSUME NEW c \in Callers, ReadByAddress(c) PROVE TypeInv'
  <2>t. TableTypes'
    BY <1>0, <1>13 DEF ReadByAddress, RowsOfType, With, Goto, Keep, MailWith,
      SlackWith, TableTypes
  <2>i. inserted' \in [Callers -> Users \union {None}]
    BY <1>13, <1>0 DEF ReadByAddress, RowsOfType, With, Goto, Keep, MailWith,
      SlackWith, TableTypes, CallerTypes
  <2>1. PICK u \in Users \union {None}, l \in Labels :
            job' = [job EXCEPT ![c].user = u] /\ pc' = [pc EXCEPT ![c] = l]
               /\ l \in {"anyAddress", "consistent", "done"} /\ (l = "ensureRow" => u \in Users)
    BY <1>13, <1>0 DEF ReadByAddress, RowsOfType, With, Goto, Keep, MailWith,
      SlackWith, Labels, TableTypes, CallerTypes, Job
  <2>2. job' \in [Callers -> Job] /\ job'[c] = [job[c] EXCEPT !.user = u]
          /\ \A d \in Callers : d # c => job'[d] = job[d]
    BY <1>0, <2>1, JobUser
  <2>3. JobKnown(c)'
    BY <1>13, <1>0, <1>k, <2>1, <2>2 DEF ReadByAddress, JobKnown, Addressed,
      CallerTypes, Job
  <2> QED
    BY <1>0, <2>t, <2>i, <2>1, <2>2, <2>3, StepTypes
<1>14. ASSUME NEW c \in Callers, ReadAnyAddress(c) PROVE TypeInv'
  <2>t. TableTypes'
    BY <1>0, <1>14 DEF ReadAnyAddress, MappedTo, MailWith, SlackWith, With, Goto,
      Keep, TableTypes
  <2>i. inserted' \in [Callers -> Users \union {None}]
    BY <1>14, <1>0 DEF ReadAnyAddress, MappedTo, MailWith, SlackWith, With, Goto,
      Keep, TableTypes, CallerTypes
  <2>1. PICK u \in Users \union {None}, l \in Labels :
            job' = [job EXCEPT ![c].user = u] /\ pc' = [pc EXCEPT ![c] = l]
               /\ l \in {"findMapping", "store"} /\ (l = "ensureRow" => u \in Users)
    BY <1>14, <1>0 DEF ReadAnyAddress, MappedTo, MailWith, SlackWith, With, Goto,
      Keep, Labels, TableTypes, CallerTypes, Job
  <2>2. job' \in [Callers -> Job] /\ job'[c] = [job[c] EXCEPT !.user = u]
          /\ \A d \in Callers : d # c => job'[d] = job[d]
    BY <1>0, <2>1, JobUser
  <2>3. JobKnown(c)'
    BY <1>14, <1>0, <1>k, <2>1, <2>2 DEF ReadAnyAddress, JobKnown, Addressed,
      CallerTypes, Job
  <2> QED
    BY <1>0, <2>t, <2>i, <2>1, <2>2, <2>3, StepTypes
<1>15. ASSUME NEW c \in Callers, Store(c) PROVE TypeInv'
  <2>i. inserted' \in [Callers -> Users \union {None}]
    BY <1>15, <1>0 DEF Store, CallerTypes
  <2>j. job[c].email \in Emails /\ job[c].id \in SlackIds \union {None, NotFound}
    BY <1>15, <1>0, <1>k DEF Store, JobKnown, Addressed, CallerTypes, Job
  <2>1. CASE Raise(c) /\ UNCHANGED <<mail, slack>>
    <3>1. PICK l \in {"done", "failed"} :
            job' = [job EXCEPT ![c].user = None] /\ pc' = [pc EXCEPT ![c] = l]
      BY <2>1 DEF Raise, With, Goto
    <3>2. job' \in [Callers -> Job] /\ \A d \in Callers : d # c => job'[d] = job[d]
      BY <1>0, <3>1, JobUser
    <3>3. TableTypes'
      BY <1>15, <1>0, <2>1 DEF Store, TableTypes
    <3>4. JobKnown(c)'
      BY <1>0, <3>1 DEF JobKnown, Addressed, CallerTypes
    <3> QED
      BY <1>0, <2>i, <3>1, <3>2, <3>3, <3>4, StepTypes DEF Labels
  <2>2. CASE /\ Goto(c, AfterStore(c))
             /\ IF job[c].op = "mail"
                THEN mail' = [mail EXCEPT ![job[c].user] = job[c].email] /\ UNCHANGED slack
                ELSE /\ slack' = [slack EXCEPT ![job[c].user] =
                          [email |-> job[c].email, id |-> job[c].id, fresh |-> TRUE]]
                     /\ UNCHANGED mail
             /\ UNCHANGED job
    <3>1. TableTypes'
      <4>1. [email |-> job[c].email, id |-> job[c].id, fresh |-> TRUE] \in Row
        BY <2>j DEF Row
      <4> HIDE DEF Row
      <4> QED
        BY <1>15, <1>0, <2>2, <2>j, <4>1 DEF Store, TableTypes
    <3>2. PICK l \in {"done", "consistent"} : pc' = [pc EXCEPT ![c] = l]
      BY <2>2 DEF Goto, AfterStore
    <3>3. JobKnown(c)'
      BY <1>0, <2>2, <2>j, <3>2 DEF JobKnown, Addressed, CallerTypes
    <3> QED
      BY <1>0, <2>i, <2>2, <3>1, <3>2, <3>3, StepTypes DEF Labels, CallerTypes
  <2> QED
    BY <1>15, <2>1, <2>2 DEF Store, RowOwner
<1>16. ASSUME NEW c \in Callers, Consistent(c) PROVE TypeInv'
  <2>t. TableTypes'
    BY <1>0, <1>16 DEF Consistent, MailWith, With, Goto, Keep, TableTypes
  <2>i. inserted' \in [Callers -> Users \union {None}]
    BY <1>16, <1>0 DEF Consistent, MailWith, With, Goto, Keep, TableTypes, CallerTypes
  <2>1. PICK u \in Users \union {None}, l \in Labels :
            job' = [job EXCEPT ![c].user = u] /\ pc' = [pc EXCEPT ![c] = l]
               /\ l \in {"done", "store"} /\ (l = "ensureRow" => u \in Users)
    BY <1>16, <1>0 DEF Consistent, MailWith, With, Goto, Keep, Labels, TableTypes,
      CallerTypes, Job
  <2>2. job' \in [Callers -> Job] /\ job'[c] = [job[c] EXCEPT !.user = u]
          /\ \A d \in Callers : d # c => job'[d] = job[d]
    BY <1>0, <2>1, JobUser
  <2>3. JobKnown(c)'
    BY <1>16, <1>0, <1>k, <2>1, <2>2 DEF Consistent, JobKnown, Addressed,
      CallerTypes, Job
  <2> QED
    BY <1>0, <2>t, <2>i, <2>1, <2>2, <2>3, StepTypes
<1>17. ASSUME NEW c \in Callers, FindMapping(c) PROVE TypeInv'
  <2>t. TableTypes'
    BY <1>0, <1>17 DEF FindMapping, MappedTo, MailWith, SlackWith, With, Goto, Keep,
      TableTypes
  <2>i. inserted' \in [Callers -> Users \union {None}]
    BY <1>17, <1>0 DEF FindMapping, MappedTo, MailWith, SlackWith, With, Goto, Keep,
      TableTypes, CallerTypes
  <2>1. PICK u \in Users \union {None}, l \in Labels :
            job' = [job EXCEPT ![c].user = u] /\ pc' = [pc EXCEPT ![c] = l]
               /\ l \in {"findUser", "ensureRow"} /\ (l = "ensureRow" => u \in Users)
    BY <1>17, <1>0 DEF FindMapping, MappedTo, MailWith, SlackWith, With, Goto, Keep,
      Labels, TableTypes, CallerTypes, Job
  <2>2. job' \in [Callers -> Job] /\ job'[c] = [job[c] EXCEPT !.user = u]
          /\ \A d \in Callers : d # c => job'[d] = job[d]
    BY <1>0, <2>1, JobUser
  <2>3. JobKnown(c)'
    BY <1>17, <1>0, <1>k, <2>1, <2>2 DEF FindMapping, JobKnown, Addressed,
      CallerTypes, Job
  <2> QED
    BY <1>0, <2>t, <2>i, <2>1, <2>2, <2>3, StepTypes
<1>18. ASSUME NEW c \in Callers, FindUser(c) PROVE TypeInv'
  <2>t. TableTypes'
    BY <1>0, <1>18 DEF FindUser, Owner, Raise, With, Goto, Keep, TableTypes
  <2>i. inserted' \in [Callers -> Users \union {None}]
    BY <1>18, <1>0 DEF FindUser, Owner, Raise, With, Goto, Keep, TableTypes, CallerTypes
  <2>1. PICK u \in Users \union {None}, l \in Labels :
            job' = [job EXCEPT ![c].user = u] /\ pc' = [pc EXCEPT ![c] = l]
               /\ l \in {"insertUser", "ensureRow", "failed", "done"} /\ (l = "ensureRow" => u \in Users)
    <3>1. Owner(job[c].email) \subseteq Users /\ job[c].user \in Users \union {None}
      BY <1>0 DEF Owner, TableTypes, CallerTypes, Job
    <3>2. CASE Goto(c, "insertUser") /\ UNCHANGED job
      <4>1. job' = [job EXCEPT ![c].user = job[c].user]
        BY <1>0, <3>2 DEF CallerTypes, Job
      <4> QED
        BY <3>1, <3>2, <4>1 DEF Goto, Labels
    <3>3. CASE Raise(c)
      BY <3>3 DEF Raise, With, Goto, Labels
    <3>4. CASE \E u \in Owner(job[c].email) : With(c, u, "ensureRow")
      BY <3>1, <3>4 DEF With, Goto, Labels
    <3> QED
      BY <1>18, <3>2, <3>3, <3>4 DEF FindUser
  <2>2. job' \in [Callers -> Job] /\ job'[c] = [job[c] EXCEPT !.user = u]
          /\ \A d \in Callers : d # c => job'[d] = job[d]
    BY <1>0, <2>1, JobUser
  <2>3. JobKnown(c)'
    BY <1>18, <1>0, <1>k, <2>1, <2>2 DEF FindUser, JobKnown, Addressed, CallerTypes, Job
  <2> QED
    BY <1>0, <2>t, <2>i, <2>1, <2>2, <2>3, StepTypes
<1>19. ASSUME NEW c \in Callers, InsertUser(c) PROVE TypeInv'
  <2>t. TableTypes'
    BY <1>0, <1>19 DEF InsertUser, TableTypes
  <2>1. CASE Goto(c, "findAgain") /\ UNCHANGED <<job, inserted>>
    <3>1. JobKnown(c)'
      BY <1>19, <1>0, <1>k, <2>1 DEF InsertUser, Goto, JobKnown, Addressed, CallerTypes
    <3> QED
      BY <1>0, <2>t, <2>1, <3>1, StepTypes DEF Goto, Labels, CallerTypes
  <2>2. CASE \E u \in Unused : inserted' = [inserted EXCEPT ![c] = u] /\ With(c, u, "ensureRow")
    <3>1. PICK u \in Users : inserted' = [inserted EXCEPT ![c] = u] /\ With(c, u, "ensureRow")
      BY <2>2 DEF Unused
    <3>2. job' \in [Callers -> Job] /\ job'[c] = [job[c] EXCEPT !.user = u]
            /\ \A d \in Callers : d # c => job'[d] = job[d]
      BY <1>0, <3>1, JobUser DEF With
    <3>3. JobKnown(c)'
      BY <1>19, <1>0, <1>k, <3>1, <3>2 DEF InsertUser, With, Goto, JobKnown,
        Addressed, CallerTypes, Job
    <3>4. inserted' \in [Callers -> Users \union {None}]
      BY <1>0, <3>1 DEF CallerTypes
    <3> QED
      BY <1>0, <2>t, <3>1, <3>2, <3>3, <3>4, StepTypes DEF With, Goto, Labels
  <2> QED
    BY <1>19, <2>1, <2>2 DEF InsertUser
<1>20. ASSUME NEW c \in Callers, EnsureRow(c) PROVE TypeInv'
  <2>t. TableTypes'
    BY <1>0, <1>20 DEF EnsureRow, Goto, AfterCanonical, TableTypes
  <2>i. inserted' \in [Callers -> Users \union {None}]
    BY <1>20, <1>0 DEF EnsureRow, Goto, AfterCanonical, TableTypes, CallerTypes
  <2>1. PICK l \in Labels : pc' = [pc EXCEPT ![c] = l] /\ l \in {"upsertRow", "done", "store"}
    BY <1>20, <1>0 DEF EnsureRow, Goto, AfterCanonical, Labels, CallerTypes
  <2>2. job' \in [Callers -> Job] /\ \A d \in Callers : job'[d] = job[d]
    BY <1>20, <1>0 DEF EnsureRow, Goto, AfterCanonical, CallerTypes
  <2>3. JobKnown(c)'
    BY <1>20, <1>0, <1>k, <2>1, <2>2 DEF EnsureRow, JobKnown, Addressed, CallerTypes
  <2> QED
    BY <1>0, <2>t, <2>i, <2>1, <2>2, <2>3, StepTypes
<1>21. ASSUME NEW c \in Callers, UpsertRow(c) PROVE TypeInv'
  <2>i. inserted' \in [Callers -> Users \union {None}]
    BY <1>21, <1>0 DEF UpsertRow, CallerTypes
  <2>j. job[c].email \in Emails
    BY <1>21, <1>k DEF UpsertRow, JobKnown, Addressed
  <2>1. CASE UNCHANGED tables
    <3>1. PICK u \in Users \union {None}, l \in Labels :
            /\ job' = [job EXCEPT ![c].user = u] \/ UNCHANGED job
            /\ pc' = [pc EXCEPT ![c] = l]
            /\ l \in {"findAgain", "failed", "done", "store"}
      BY <1>21, <1>0 DEF UpsertRow, Raise, With, Goto, AfterCanonical, Labels
    <3>2. /\ job' \in [Callers -> Job] /\ job'[c].email = job[c].email
          /\ \A d \in Callers : d # c => job'[d] = job[d]
      BY <1>0, <3>1, JobUser DEF CallerTypes, Job
    <3>3. JobKnown(c)'
      BY <1>0, <2>j, <3>1, <3>2 DEF JobKnown, Addressed, CallerTypes
    <3>4. TableTypes'
      BY <1>21, <1>0, <2>1 DEF UpsertRow, TableTypes
    <3> QED
      BY <1>0, <2>i, <3>1, <3>2, <3>3, <3>4, StepTypes
  <2>2. CASE /\ mail' = [mail EXCEPT ![job[c].user] = job[c].email]
             /\ IF inserted[c] = None THEN UNCHANGED <<users, primary>>
                ELSE /\ users' = users \union {job[c].user}
                     /\ primary' = [primary EXCEPT ![job[c].user] = job[c].email]
             /\ Goto(c, AfterCanonical(c))
             /\ UNCHANGED <<job, slack>>
    <3>u. inserted[c] # None => job[c].user \in Users
      BY <1>21, <1>0, <1>k, <2>2 DEF UpsertRow, JobKnown
    <3>1. TableTypes'
      <4>1. mail' \in [Users -> Emails \union {None}]
        BY <1>0, <2>2, <2>j DEF TableTypes
      <4>2. users' \subseteq Users /\ primary' \in [Users -> Emails \union {None}]
        <5>1. CASE inserted[c] = None
          BY <5>1, <1>0, <2>2 DEF TableTypes
        <5>2. CASE inserted[c] # None
          BY <5>2, <1>0, <2>2, <2>j, <3>u DEF TableTypes
        <5> QED
          BY <5>1, <5>2
      <4> QED
        BY <1>21, <1>0, <2>2, <4>1, <4>2 DEF UpsertRow, TableTypes
    <3>2. PICK l \in {"done", "store"} : pc' = [pc EXCEPT ![c] = l]
      BY <2>2 DEF Goto, AfterCanonical
    <3>3. JobKnown(c)'
      BY <1>0, <2>2, <2>j, <3>2 DEF JobKnown, Addressed, CallerTypes
    <3> QED
      BY <1>0, <2>i, <2>2, <3>1, <3>2, <3>3, StepTypes DEF Labels, CallerTypes
  <2> QED
    BY <1>21, <2>1, <2>2 DEF UpsertRow
<1>22. ASSUME NEW c \in Callers, FindUuid(c) PROVE TypeInv'
  <2>t. TableTypes'
    BY <1>0, <1>22 DEF FindUuid, Goto, Keep, TableTypes
  <2>i. inserted' \in [Callers -> Users \union {None}]
    BY <1>22, <1>0 DEF FindUuid, Goto, Keep, TableTypes, CallerTypes
  <2>1. PICK l \in Labels : pc' = [pc EXCEPT ![c] = l] /\ l \in {"done", "insertUuid"}
    BY <1>22, <1>0 DEF FindUuid, Goto, Keep, Labels, CallerTypes
  <2>2. job' \in [Callers -> Job] /\ \A d \in Callers : job'[d] = job[d]
    BY <1>22, <1>0 DEF FindUuid, Goto, Keep, CallerTypes
  <2>3. JobKnown(c)'
    BY <1>22, <1>0, <1>k, <2>1, <2>2 DEF FindUuid, JobKnown, Addressed, CallerTypes
  <2> QED
    BY <1>0, <2>t, <2>i, <2>1, <2>2, <2>3, StepTypes
<1>23. ASSUME NEW c \in Callers, InsertUuid(c) PROVE TypeInv'
  <2>t. TableTypes'
    BY <1>23, <1>0, <1>k DEF InsertUuid, TableTypes, JobKnown
  <2>1. job' \in [Callers -> Job] /\ inserted' \in [Callers -> Users \union {None}] /\ job' = job
    BY <1>23, <1>0 DEF InsertUuid, CallerTypes
  <2>2. pc' = [pc EXCEPT ![c] = "done"]
    BY <1>23 DEF InsertUuid, Goto
  <2>3. JobKnown(c)'
    BY <1>0, <2>1, <2>2 DEF JobKnown, Addressed, CallerTypes
  <2> QED
    BY <1>0, <2>t, <2>1, <2>2, <2>3, StepTypes DEF Labels
<1>24. ASSUME NEW c \in Callers, ReadLookup(c) PROVE TypeInv'
  <2>t. TableTypes'
    BY <1>24, <1>0 DEF ReadLookup, TableTypes
  <2>i. inserted' \in [Callers -> Users \union {None}]
    BY <1>24, <1>0 DEF ReadLookup, CallerTypes
  <2>1. PICK l \in {"search", "done", "revalidate"} : pc' = [pc EXCEPT ![c] = l]
    BY <1>24 DEF ReadLookup, Goto
  <2>2. /\ job' \in [Callers -> Job] /\ job'[c].email = job[c].email
        /\ \A d \in Callers : d # c => job'[d] = job[d]
    <3>1. CASE UNCHANGED job
      BY <1>0, <3>1 DEF CallerTypes
    <3>2. CASE \E u \in SlackWith(job[c].email) :
                 job' = [job EXCEPT ![c].user = u, ![c].id = slack[u].id]
      <4>1. PICK u \in Users : /\ slack[u] \in Row
                               /\ job' = [job EXCEPT ![c].user = u, ![c].id = slack[u].id]
        BY <1>0, <3>2 DEF SlackWith, TableTypes
      <4>2. slack[u].id \in SlackIds \union {None, NotFound}
        BY <4>1 DEF Row
      <4>3. job' = [job EXCEPT ![c].id = slack[u].id, ![c].user = u]
        BY <1>0, <4>1 DEF CallerTypes, Job
      <4>4. job[c] \in Job
        BY <1>0 DEF CallerTypes
      <4> QED
        BY <1>0, <4>2, <4>3, <4>4, JobIdUser DEF Job
    <3> QED
      BY <1>24, <3>1, <3>2 DEF ReadLookup
  <2>3. JobKnown(c)'
    BY <1>24, <1>0, <1>k, <2>1, <2>2 DEF ReadLookup, JobKnown, Addressed, CallerTypes
  <2> QED
    BY <1>0, <2>t, <2>i, <2>1, <2>2, <2>3, StepTypes DEF Labels
<1>25. ASSUME NEW c \in Callers, Revalidate(c) PROVE TypeInv'
  <2>t. TableTypes'
    BY <1>0, <1>25, FreshTypes DEF Revalidate, Checked, TableTypes
  <2>1. PICK l \in {"search", "done"} : pc' = [pc EXCEPT ![c] = l]
    BY <1>25 DEF Revalidate, Goto
  <2>2. UNCHANGED <<job, inserted>>
    BY <1>25 DEF Revalidate
  <2>3. JobKnown(c)'
    BY <1>25, <1>0, <1>k, <2>1, <2>2 DEF Revalidate, JobKnown, Addressed, CallerTypes
  <2> QED
    BY <1>0, <2>t, <2>1, <2>2, <2>3, StepTypes DEF Labels, CallerTypes
<1>26. ASSUME NEW c \in Callers, Search(c) PROVE TypeInv'
  <2>t. TableTypes'
    BY <1>0, <1>26 DEF Search, Goto, Keep, TableTypes
  <2>i. inserted' \in [Callers -> Users \union {None}]
    BY <1>26, <1>0 DEF Search, Goto, Keep, TableTypes, CallerTypes
  <2>1. PICK s \in SlackIds \union {None, NotFound} :
          job' = [job EXCEPT ![c].id = s, ![c].user = None]
    BY <1>26 DEF Search
  <2>2. /\ job' \in [Callers -> Job] /\ job'[c] = [job[c] EXCEPT !.id = s, !.user = None]
        /\ \A d \in Callers : d # c => job'[d] = job[d]
    BY <1>0, <2>1, JobIdUser
  <2>3. JobKnown(c)'
    BY <1>26, <1>0, <1>k, <2>2 DEF Search, Goto, JobKnown, Addressed, CallerTypes, Job
  <2>4. pc' = [pc EXCEPT ![c] = "findMapping"] /\ "findMapping" \in Labels
    BY <1>26 DEF Search, Goto, Labels
  <2> QED
    BY <1>0, <2>t, <2>i, <2>2, <2>3, <2>4, StepTypes
<1>27. ASSUME NEW c \in Callers, CallFails(c) PROVE TypeInv'
  <2>t. TableTypes' /\ inserted' \in [Callers -> Users \union {None}]
    BY <1>27, <1>0 DEF CallFails, TableTypes, CallerTypes
  <2>p. Passed(c) \in {"profile", "known", "search", "done", "failed"}
    BY DEF Passed
  <2>1. pc' = [pc EXCEPT ![c] = Passed(c)] /\ Passed(c) \in Labels
    BY <1>27, <2>p DEF CallFails, Goto, Labels
  <2>2. PICK e \in Emails \union {None} :
          /\ e = IF pc[c] = "validate" THEN None ELSE job[c].email
          /\ job' \in [Callers -> Job] /\ job'[c] = [job[c] EXCEPT !.email = e, !.user = None]
          /\ \A d \in Callers : d # c => job'[d] = job[d]
    <3> DEFINE e == IF pc[c] = "validate" THEN None ELSE job[c].email
    <3>1. e \in Emails \union {None} /\ job[c].user \in Users \union {None}
      BY <1>0 DEF CallerTypes, Job
    <3>2. job' = [job EXCEPT ![c].email = e, ![c].user = None]
      BY <1>27, <1>0 DEF CallFails, CallerTypes, Job
    <3> HIDE DEF e
    <3>3. job' \in [Callers -> Job] /\ job'[c] = [job[c] EXCEPT !.email = e, !.user = None]
            /\ \A d \in Callers : d # c => job'[d] = job[d]
      BY <1>0, <3>1, <3>2, JobEmailUser
    <3> QED
      BY <3>1, <3>3 DEF e
  <2>3. JobKnown(c)'
    BY <1>27, <1>0, <1>k, <2>1, <2>2 DEF CallFails, Passed, JobKnown, Addressed,
      CallerTypes, Job
  <2> QED
    BY <1>0, <2>t, <2>1, <2>2, <2>3, StepTypes DEF Labels
<1>28. ASSUME NEW c \in Callers, CheckFails(c) PROVE TypeInv'
  <2>t. TableTypes' /\ inserted' \in [Callers -> Users \union {None}]
    BY <1>28, <1>0, FreshTypes DEF CheckFails, Checked, TableTypes, CallerTypes
  <2>p. Passed(c) \in {"profile", "known", "search", "done", "failed"}
    BY DEF Passed
  <2>1. pc' = [pc EXCEPT ![c] = Passed(c)] /\ Passed(c) \in Labels
    BY <1>28, <2>p DEF CheckFails, Goto, Labels
  <2>2. PICK e \in Emails \union {None} :
          /\ e = IF pc[c] = "validate" THEN None ELSE job[c].email
          /\ job' \in [Callers -> Job] /\ job'[c] = [job[c] EXCEPT !.email = e, !.user = job[c].user]
          /\ \A d \in Callers : d # c => job'[d] = job[d]
    <3> DEFINE e == IF pc[c] = "validate" THEN None ELSE job[c].email
    <3>1. e \in Emails \union {None} /\ job[c].user \in Users \union {None}
      BY <1>0 DEF CallerTypes, Job
    <3>2. job' = [job EXCEPT ![c].email = e, ![c].user = job[c].user]
      BY <1>28, <1>0 DEF CheckFails, CallerTypes, Job
    <3> HIDE DEF e
    <3>3. job' \in [Callers -> Job] /\ job'[c] = [job[c] EXCEPT !.email = e, !.user = job[c].user]
            /\ \A d \in Callers : d # c => job'[d] = job[d]
      BY <1>0, <3>1, <3>2, JobEmailUser
    <3> QED
      BY <3>1, <3>3 DEF e
  <2>3. JobKnown(c)'
    BY <1>28, <1>0, <1>k, <2>1, <2>2 DEF CheckFails, Passed, JobKnown, Addressed,
      CallerTypes, Job
  <2> QED
    BY <1>0, <2>t, <2>1, <2>2, <2>3, StepTypes DEF Labels
<1>29. ASSUME ProfileChanges PROVE TypeInv'
  BY <1>29, <1>0, <1>k DEF ProfileChanges, TypeInv, TableTypes, CallerTypes, JobKnown
<1>30. ASSUME ValidationAges PROVE TypeInv'
  <2>1. TableTypes'
    <3>1. PICK u \in Users : slack[u] # None /\ slack' = [slack EXCEPT ![u].fresh = FALSE]
      BY <1>30 DEF ValidationAges
    <3>2. slack[u] \in Row
      BY <3>1, <1>0 DEF TableTypes
    <3>3. [slack[u] EXCEPT !.fresh = FALSE] \in Row
      BY <3>2 DEF Row
    <3>4. slack' = [slack EXCEPT ![u] = [slack[u] EXCEPT !.fresh = FALSE]]
      BY <3>1, <1>0 DEF TableTypes
    <3>5. slack' \in [Users -> Row \union {None}]
      BY <3>3, <3>4, <1>0 DEF TableTypes
    <3> QED
      BY <1>30, <1>0, <3>5 DEF ValidationAges, TableTypes
  <2> QED
    BY <1>30, <1>0, <1>k, <2>1 DEF ValidationAges, TypeInv, CallerTypes, JobKnown
<1>31. CASE UNCHANGED vars
  BY <1>31, <1>0, <1>k DEF vars, TypeInv, TableTypes, CallerTypes, JobKnown
<1> QED
  BY <1>1, <1>2, <1>3, <1>4, <1>5, <1>6, <1>7, <1>8, <1>9, <1>10, <1>11, <1>12,
    <1>13, <1>14, <1>15, <1>16, <1>17, <1>18, <1>19, <1>20, <1>21, <1>22, <1>23,
    <1>24, <1>25, <1>26, <1>27, <1>28, <1>29, <1>30, <1>31 DEF Next, CallerStep

(***************************************************************************)
(* Who owns an address.  A committed row never loses its address, so what  *)
(* a caller has read of it stays true, however stale the rest is; and a    *)
(* user who is inserted but not committed is known to nobody else.         *)
(***************************************************************************)
Owns(u, e) == u \in users /\ primary[u] = e

DataInv ==
  /\ \A u \in Users : primary[u] # None => u \in users
  /\ \A u, v \in Users : primary[u] = primary[v] /\ primary[u] # None => u = v
  /\ \A u \in Users : mail[u] # None => Owns(u, mail[u])
  /\ \A u \in Users : slack[u] # None => Owns(u, slack[u].email)

\* What a caller has found; a user it has inserted has no rows yet, and the
\* address no owner.
FoundOK(c) ==
  /\ pc[c] \in {"validate", "revalidate", "store", "consistent"}
       => Owns(job[c].user, job[c].email)
  /\ pc[c] \in {"ensureRow", "upsertRow"} /\ inserted[c] = None
       => Owns(job[c].user, job[c].email)
  /\ pc[c] = "done" /\ job[c].user # None /\ job[c].email # None
       => Owns(job[c].user, job[c].email)
InsertedOK(c) ==
  inserted[c] # None =>
    /\ pc[c] \in {"ensureRow", "upsertRow"}
    /\ job[c].user = inserted[c]
    /\ inserted[c] \notin users
    /\ \A u \in users : primary[u] # job[c].email

\* A caller that goes by a name the request manager has given a user.
CanonicalLabels == {"findMapping", "findUser", "findAgain", "insertUser", "ensureRow",
                    "upsertRow", "done", "failed"}
UuidLabels == {"byUuid", "insertUuid", "done", "failed"}
AskedOK(c) ==
  job[c].asked # None =>
    \/ /\ job[c].op = "canonical" /\ pc[c] \in CanonicalLabels
       /\ job[c].email \in Emails /\ Owns(job[c].asked, job[c].email)
       /\ pc[c] = "done" => job[c].user = job[c].asked
    \/ /\ job[c].op = "uuid" /\ pc[c] \in UuidLabels
       /\ job[c].user = job[c].asked \/ pc[c] = "failed"

\* Two callers never have the same user or the same address inserted.
Apart(c, d) ==
  c # d /\ inserted[c] # None /\ inserted[d] # None =>
    inserted[c] # inserted[d] /\ job[c].email # job[d].email

CallersInv ==
  /\ \A c \in Callers : FoundOK(c) /\ InsertedOK(c) /\ AskedOK(c)
  /\ \A c, d \in Callers : Apart(c, d)
OwnerInv == DataInv /\ CallersInv

LEMMA OwnerInit == Init => OwnerInv
BY NoneAssumption DEF Init, OwnerInv, DataInv, CallersInv, FoundOK, InsertedOK, AskedOK, Apart,
  NoJob

\* The rows of an address are its owner's.
LEMMA RowsOwned ==
  ASSUME TypeInv, DataInv, NEW e \in Emails, NEW u
  PROVE  /\ u \in MailWith(e) => u \in Users /\ Owns(u, e)
         /\ u \in SlackWith(e) => u \in Users /\ Owns(u, e)
         /\ u \in MappedTo(e) => u \in Users /\ Owns(u, e)
         /\ u \in Owner(e) => u \in Users /\ Owns(u, e)
BY NullsDiffer DEF TypeInv, TableTypes, DataInv, MailWith, SlackWith, MappedTo, Owner, Owns

OthersStay(c) == \A d \in Callers : d # c => pc'[d] = pc[d] /\ job'[d] = job[d]

\* A step of a caller that leaves users and their addresses alone.
LEMMA Keeps ==
  ASSUME TypeInv, OwnerInv, NEW c \in Callers, UNCHANGED <<users, primary>>, DataInv',
         OthersStay(c),
         \A d \in Callers : d # c => inserted'[d] = inserted[d],
         inserted'[c] # None => inserted'[c] = inserted[c] /\ job'[c].email = job[c].email,
         FoundOK(c)', InsertedOK(c)', AskedOK(c)'
  PROVE  OwnerInv'
<1>1. \A d \in Callers : FoundOK(d)' /\ InsertedOK(d)' /\ AskedOK(d)'
  <2> SUFFICES ASSUME NEW d \in Callers, d # c PROVE FoundOK(d)' /\ InsertedOK(d)' /\ AskedOK(d)'
    OBVIOUS
  <2>1. pc'[d] = pc[d] /\ job'[d] = job[d] /\ inserted'[d] = inserted[d]
    BY DEF OthersStay
  <2>2. FoundOK(d) /\ InsertedOK(d) /\ AskedOK(d)
    BY DEF OwnerInv, CallersInv
  <2> QED
    BY <2>1, <2>2 DEF FoundOK, InsertedOK, AskedOK, Owns
<1>2. \A d1, d2 \in Callers : Apart(d1, d2)'
  BY DEF OwnerInv, CallersInv, Apart, OthersStay
<1> QED
  BY <1>1, <1>2 DEF OwnerInv, CallersInv

\* The name a caller goes by stays its user's: what it finds for the address owns it.
LEMMA AskedKept ==
  ASSUME TypeInv, OwnerInv, NEW c \in Callers, UNCHANGED <<users, primary>>,
         job'[c].op = job[c].op, job'[c].asked = job[c].asked,
         job[c].op = "canonical" /\ job[c].asked # None =>
           /\ job'[c].email = job[c].email /\ pc'[c] \in CanonicalLabels
           /\ pc'[c] = "done" => Owns(job'[c].user, job[c].email),
         job[c].op = "uuid" /\ job[c].asked # None =>
           /\ pc'[c] \in UuidLabels
           /\ (job'[c].user = job[c].user /\ pc[c] # "failed") \/ pc'[c] = "failed"
  PROVE  AskedOK(c)'
<1>1. AskedOK(c) /\ DataInv
  BY DEF OwnerInv, CallersInv
<1>2. CASE job[c].op = "canonical" /\ job[c].asked # None
  <2>1. job[c].email \in Emails /\ Owns(job[c].asked, job[c].email)
    BY <1>1, <1>2 DEF AskedOK
  <2>2. pc'[c] = "done" => job'[c].user = job[c].asked
    BY <1>1, <1>2, <2>1, NullsDiffer DEF DataInv, Owns, TypeInv, TableTypes
  <2> QED
    BY <1>2, <2>1, <2>2 DEF AskedOK, Owns
<1>3. CASE ~(job[c].op = "canonical" /\ job[c].asked # None)
  BY <1>1, <1>3 DEF AskedOK
<1> QED
  BY <1>2, <1>3

\* Nothing of the tables changes.
LEMMA DataSame ==
  ASSUME DataInv, UNCHANGED tables PROVE DataInv'
BY DEF DataInv, Owns

\* Only the time of a check changes.
LEMMA DataFresh ==
  ASSUME TypeInv, DataInv, NEW u, slack[u] # None, UNCHANGED <<users, primary, mail>>,
         slack' = [slack EXCEPT ![u].fresh = TRUE]
  PROVE  DataInv'
<1>1. \A v \in Users : slack'[v] # None => slack[v] # None /\ slack'[v].email = slack[v].email
  <2> SUFFICES ASSUME NEW v \in Users, slack'[v] # None
              PROVE  slack[v] # None /\ slack'[v].email = slack[v].email
    OBVIOUS
  <2>1. CASE v = u
    <3>1. slack[v] \in Row
      BY <2>1 DEF TypeInv, TableTypes
    <3>2. slack'[v] = [slack[v] EXCEPT !.fresh = TRUE]
      BY <2>1 DEF TypeInv, TableTypes
    <3> QED
      BY <2>1, <3>1, <3>2 DEF Row
  <2>2. CASE v # u
    BY <2>2 DEF TypeInv, TableTypes
  <2> QED
    BY <2>1, <2>2
<1> QED
  BY <1>1 DEF DataInv, Owns

\* How a job changes, field by field.
LEMMA UserChange ==
  ASSUME TypeInv, NEW c \in Callers, NEW u \in Users \union {None},
         job' = [job EXCEPT ![c].user = u]
  PROVE  /\ job'[c].user = u /\ job'[c].email = job[c].email
         /\ job'[c].op = job[c].op /\ job'[c].asked = job[c].asked
         /\ \A d \in Callers : d # c => job'[d] = job[d]
BY JobUser DEF TypeInv, CallerTypes, Job
SetsEmail(c, e, u) == job' = [job EXCEPT ![c].email = e, ![c].user = u]
LEMMA EmailUserChange ==
  ASSUME TypeInv, NEW c \in Callers, NEW u, u \in Users \union {None},
         NEW e, e \in Emails \union {None}, SetsEmail(c, e, u)
  PROVE  /\ job'[c].user = u /\ job'[c].email = e
         /\ job'[c].op = job[c].op /\ job'[c].asked = job[c].asked
         /\ \A d \in Callers : d # c => job'[d] = job[d]
<1>1. job[c] \in Job
  BY DEF TypeInv, CallerTypes
<1> DEFINE j == [job[c] EXCEPT !.email = e]
<1>2. j \in Job /\ j.email = e /\ j.op = job[c].op /\ j.asked = job[c].asked
  BY <1>1 DEF Job
<1>3. job'[c] = [j EXCEPT !.user = u] /\ \A d \in Callers : d # c => job'[d] = job[d]
  BY JobEmailUser DEF TypeInv, SetsEmail
<1> HIDE DEF j
<1> QED
  BY <1>2, <1>3 DEF Job
SetsId(c, i, u) == job' = [job EXCEPT ![c].id = i, ![c].user = u]
LEMMA IdUserChange ==
  ASSUME TypeInv, NEW c \in Callers, NEW u, u \in Users \union {None},
         NEW i, i \in SlackIds \union {None, NotFound}, SetsId(c, i, u)
  PROVE  /\ job'[c].user = u /\ job'[c].email = job[c].email
         /\ job'[c].op = job[c].op /\ job'[c].asked = job[c].asked
         /\ \A d \in Callers : d # c => job'[d] = job[d]
<1>1. job[c] \in Job
  BY DEF TypeInv, CallerTypes
<1> DEFINE j == [job[c] EXCEPT !.id = i]
<1>2. j \in Job /\ j.email = job[c].email /\ j.op = job[c].op /\ j.asked = job[c].asked
  BY <1>1 DEF Job
<1>3. job'[c] = [j EXCEPT !.user = u] /\ \A d \in Callers : d # c => job'[d] = job[d]
  BY JobIdUser DEF TypeInv, SetsId
<1> HIDE DEF j
<1> QED
  BY <1>2, <1>3 DEF Job

\* What begins a call holds nothing yet.
LEMMA BeginOwner ==
  ASSUME TypeInv, OwnerInv, NEW c \in Callers, NEW o \in Ops, NEW e \in Emails \union {None},
         NEW i \in SlackIds \union {None}, NEW u \in Users \union {None},
         NEW l \in {"byAddress", "findMapping", "lookup", "cached", "byUuid"},
         Begin(c, o, e, i, u, l)
  PROVE  OwnerInv'
<1> DEFINE j == [op |-> o, email |-> e, id |-> i, user |-> u, asked |-> None]
<1>1. j \in Job /\ j.asked = None
  BY DEF Job
<1>2. /\ pc[c] = "idle" /\ pc' = [pc EXCEPT ![c] = l] /\ job' = [job EXCEPT ![c] = j]
      /\ UNCHANGED <<tables, inserted>>
  BY DEF Begin, Goto
<1>3. job'[c] = j /\ \A d \in Callers : d # c => job'[d] = job[d]
  <2> HIDE DEF j
  <2> QED
    BY <1>1, <1>2, JobSet DEF TypeInv
<1>4. inserted[c] = None /\ inserted'[c] = None
  BY <1>2 DEF OwnerInv, CallersInv, InsertedOK
<1>5. pc'[c] = l /\ OthersStay(c)
  BY <1>2, <1>3 DEF OthersStay, TypeInv, CallerTypes
<1>6. DataInv'
  BY <1>2, DataSame DEF OwnerInv
<1>7. FoundOK(c)' /\ InsertedOK(c)' /\ AskedOK(c)'
  <2> HIDE DEF j
  <2> QED
    BY <1>1, <1>3, <1>4, <1>5 DEF FoundOK, InsertedOK, AskedOK
<1> QED
  BY <1>2, <1>4, <1>5, <1>6, <1>7, Keeps


LEMMA OwnerSame ==
  ASSUME OwnerInv, DataInv', UNCHANGED <<users, primary, pc, job, inserted>>
  PROVE  OwnerInv'
BY DEF OwnerInv, CallersInv, FoundOK, InsertedOK, AskedOK, Apart, Owns


\* A step of a caller that adds a user, or holds one to be added.
LEMMA Grows ==
  ASSUME TypeInv, OwnerInv, NEW c \in Callers, DataInv', OthersStay(c),
         users \subseteq users', \A u \in users : primary'[u] = primary[u],
         \A d \in Callers : d # c => inserted'[d] = inserted[d],
         \A d \in Callers : d # c /\ inserted[d] # None =>
           inserted[d] \notin users' /\ \A u \in users' : primary'[u] # job[d].email,
         \A d \in Callers : d # c /\ inserted'[c] # None /\ inserted[d] # None =>
           inserted'[c] # inserted[d] /\ job'[c].email # job[d].email,
         FoundOK(c)', InsertedOK(c)', AskedOK(c)'
  PROVE  OwnerInv'
<1>1. \A d \in Callers : FoundOK(d)' /\ InsertedOK(d)' /\ AskedOK(d)'
  <2> SUFFICES ASSUME NEW d \in Callers, d # c PROVE FoundOK(d)' /\ InsertedOK(d)' /\ AskedOK(d)'
    OBVIOUS
  <2>1. pc'[d] = pc[d] /\ job'[d] = job[d] /\ inserted'[d] = inserted[d]
    BY DEF OthersStay
  <2>2. FoundOK(d) /\ InsertedOK(d) /\ AskedOK(d)
    BY DEF OwnerInv, CallersInv
  <2> QED
    BY <2>1, <2>2 DEF FoundOK, InsertedOK, AskedOK, Owns
<1>2. \A d1, d2 \in Callers : Apart(d1, d2)'
  BY DEF OwnerInv, CallersInv, Apart, OthersStay
<1> QED
  BY <1>1, <1>2 DEF OwnerInv, CallersInv

\* A row written for the owner of its address.
LEMMA DataStored ==
  ASSUME TypeInv, DataInv, NEW c \in Callers, job[c].email \in Emails,
         Owns(job[c].user, job[c].email), users' = users, primary' = primary,
         \A v \in Users : mail'[v] = mail[v] \/ (v = job[c].user /\ mail'[v] = job[c].email),
         \A v \in Users :
           slack'[v] = slack[v] \/ (v = job[c].user /\ slack'[v].email = job[c].email)
  PROVE  DataInv'
BY DEF DataInv, Owns


\* Every step keeps the ownership of addresses.
LEMMA OwnerNext == TypeInv /\ OwnerInv /\ [Next]_vars => OwnerInv'
<1> SUFFICES ASSUME TypeInv, OwnerInv, [Next]_vars PROVE OwnerInv'
  OBVIOUS
<1>0. TableTypes /\ CallerTypes /\ DataInv
  BY DEF TypeInv, OwnerInv
<1>k. \A c \in Callers : JobKnown(c) /\ job[c].user \in Users \union {None}
  BY DEF TypeInv, CallerTypes, Job
<1>c. \A c \in Callers : FoundOK(c) /\ InsertedOK(c) /\ AskedOK(c)
  BY DEF OwnerInv, CallersInv
<1>1. ASSUME NEW c \in Callers, ResolveMail(c) PROVE OwnerInv'
  <2>1. PICK e \in Emails : Begin(c, "mail", e, None, None, "byAddress")
    BY <1>1 DEF ResolveMail
  <2> QED
    BY <2>1, BeginOwner DEF Ops
<1>2. ASSUME NEW c \in Callers, ResolveAddress(c) PROVE OwnerInv'
  <2>1. PICK e \in Emails : Begin(c, "canonical", e, None, None, "findMapping")
    BY <1>2 DEF ResolveAddress
  <2> QED
    BY <2>1, BeginOwner DEF Ops
<1>3. ASSUME NEW c \in Callers, ResolveSlack(c) PROVE OwnerInv'
  <2>1. PICK s \in SlackIds : Begin(c, "slack", None, s, None, "cached")
    BY <1>3 DEF ResolveSlack
  <2> QED
    BY <2>1, BeginOwner DEF Ops
<1>4. ASSUME NEW c \in Callers, ResolveUuid(c) PROVE OwnerInv'
  <2>1. PICK u \in Users : Begin(c, "uuid", None, None, u, "byUuid")
    BY <1>4 DEF ResolveUuid
  <2> QED
    BY <2>1, BeginOwner DEF Ops
<1>5. ASSUME NEW c \in Callers, AskConversations(c) PROVE OwnerInv'
  <2>1. PICK e \in Emails : Begin(c, "canonical", e, None, None, "findMapping")
    BY <1>5 DEF AskConversations
  <2> QED
    BY <2>1, BeginOwner DEF Ops
<1>6. ASSUME NEW c \in Callers, LookupSlack(c) PROVE OwnerInv'
  <2>1. PICK e \in Emails : Begin(c, "lookup", e, None, None, "lookup")
    BY <1>6 DEF LookupSlack
  <2> QED
    BY <2>1, BeginOwner DEF Ops
<1>7. ASSUME NEW c \in Callers, NameUser(c) PROVE OwnerInv'
  <2>d. DataInv' /\ UNCHANGED <<users, primary, inserted>>
    BY <1>7, <1>0, DataSame DEF NameUser, Keep
  <2>e. inserted[c] = None
    BY <1>7, <1>c DEF NameUser, InsertedOK
  <2>u. pc[c] = "done" /\ job[c].user \in Users
    BY <1>7, <1>k DEF NameUser
  <2>g. ASSUME NEW j \in Job, NEW l \in {"findMapping", "byUuid"}, job' = [job EXCEPT ![c] = j],
             Goto(c, l), (AskedOK(c)') PROVE OwnerInv'
    <3>1. job'[c] = j /\ \A d \in Callers : d # c => job'[d] = job[d]
      BY <1>0, <2>g, JobSet
    <3>2. pc'[c] = l /\ \A d \in Callers : d # c => pc'[d] = pc[d]
      BY <1>0, <2>g DEF Goto, CallerTypes
    <3> QED
      BY <2>d, <2>e, <2>g, <3>1, <3>2, Keeps DEF FoundOK, InsertedOK, OthersStay
  <2> DEFINE u == job[c].user
             j1 == [NoJob EXCEPT !.op = "canonical", !.email = primary[u], !.asked = u]
             j2 == [NoJob EXCEPT !.op = "uuid", !.user = u, !.asked = u]
  <2>1. CASE primary[u] # None /\ job' = [job EXCEPT ![c] = j1] /\ Goto(c, "findMapping")
    <3>1. /\ j1 \in Job /\ j1.email = primary[u] /\ j1.email \in Emails
          /\ j1.op = "canonical" /\ j1.asked = u
      BY <2>u, <2>1, <1>0 DEF Job, NoJob, Ops, TableTypes
    <3>2. Owns(u, primary[u])
      BY <2>u, <2>1, <1>0 DEF DataInv, Owns
    <3> HIDE DEF j1
    <3>3. job'[c] = j1 /\ pc'[c] = "findMapping"
      BY <1>0, <2>1, <3>1, JobSet DEF Goto, CallerTypes
    <3>4. AskedOK(c)'
      BY <2>d, <3>1, <3>2, <3>3 DEF AskedOK, Owns, CanonicalLabels
    <3> QED
      BY <2>1, <2>g, <3>1, <3>4
  <2>2. CASE job' = [job EXCEPT ![c] = j2] /\ Goto(c, "byUuid")
    <3>1. j2 \in Job /\ j2.user = u /\ j2.op = "uuid" /\ j2.asked = u
      BY <2>u DEF Job, NoJob, Ops
    <3> HIDE DEF j2
    <3>2. job'[c] = j2 /\ pc'[c] = "byUuid"
      BY <1>0, <2>2, <3>1, JobSet DEF Goto, CallerTypes
    <3>3. AskedOK(c)'
      BY <3>1, <3>2 DEF AskedOK, UuidLabels
    <3> QED
      BY <2>2, <2>g, <3>1, <3>3
  <2> QED
    BY <1>7, <2>1, <2>2 DEF NameUser
<1>8. ASSUME NEW c \in Callers, Return(c) PROVE OwnerInv'
  <2>d. DataInv' /\ UNCHANGED <<users, primary, inserted>>
    BY <1>8, <1>0, DataSame DEF Return, Keep
  <2>e. inserted[c] = None
    BY <1>8, <1>c DEF Return, InsertedOK
  <2>1. NoJob \in Job /\ NoJob.asked = None
    BY DEF NoJob, Job, Ops
  <2>2. job'[c] = NoJob /\ \A d \in Callers : d # c => job'[d] = job[d]
    BY <1>8, <1>0, <2>1, JobSet DEF Return
  <2>3. pc'[c] = "idle" /\ \A d \in Callers : d # c => pc'[d] = pc[d]
    BY <1>8, <1>0 DEF Return, Goto, CallerTypes
  <2> QED
    BY <2>d, <2>e, <2>1, <2>2, <2>3, Keeps DEF FoundOK, InsertedOK, AskedOK, OthersStay
<1>9. ASSUME NEW c \in Callers, ReadCached(c) PROVE OwnerInv'
  <2>d. DataInv' /\ UNCHANGED <<users, primary, inserted>>
    BY <1>9, <1>0, DataSame DEF ReadCached, Keep
  <2>e. inserted[c] = None
    BY <1>9, <1>c DEF ReadCached, InsertedOK
  <2>1. CASE Goto(c, "profile") /\ UNCHANGED job
    <3>1. pc'[c] = "profile" /\ \A d \in Callers : d # c => pc'[d] = pc[d]
      BY <2>1, <1>0 DEF With, Goto, CallerTypes
    <3>2. job' = job
      BY <2>1
    <3>3. FoundOK(c)'
      BY <2>d, <2>e, <3>1, <3>2 DEF FoundOK, Owns
    <3>4. AskedOK(c)'
      BY <1>9, <1>c, <2>d, <3>1, <3>2, AskedKept DEF ReadCached, AskedOK, UuidLabels,
        CanonicalLabels
    <3>5. InsertedOK(c)' /\ OthersStay(c)
      BY <2>d, <2>e, <3>1, <3>2 DEF InsertedOK, OthersStay
    <3> QED
      BY <2>d, <2>e, <3>3, <3>4, <3>5, Keeps
  <2>2. CASE \E u \in SlackOf(job[c].id) :
              /\ job' = [job EXCEPT ![c].email = slack[u].email, ![c].user = u]
              /\ Goto(c, IF slack[u].fresh THEN "byAddress" ELSE "validate")
    <3>0. PICK u \in Users : /\ slack[u] # None
                             /\ job' = [job EXCEPT ![c].email = slack[u].email, ![c].user = u]
                             /\ Goto(c, IF slack[u].fresh THEN "byAddress" ELSE "validate")
      BY <2>2 DEF SlackOf
    <3>o. slack[u].email \in Emails /\ Owns(u, slack[u].email)
      BY <3>0, <1>0 DEF TableTypes, Row, DataInv
    <3>1. pc'[c] = (IF slack[u].fresh THEN "byAddress" ELSE "validate") /\ \A d \in Callers : d # c => pc'[d] = pc[d]
      BY <3>0, <1>0 DEF With, Goto, CallerTypes
    <3>2. /\ job'[c].user = u /\ job'[c].email = slack[u].email
          /\ job'[c].op = job[c].op /\ job'[c].asked = job[c].asked
          /\ \A d \in Callers : d # c => job'[d] = job[d]
      <4>1. SetsEmail(c, slack[u].email, u)
        BY <3>0, <3>o DEF SetsEmail, SetsId
      <4>2. slack[u].email \in Emails \union {None}
        BY <3>0, <3>o, <1>0 DEF CallerTypes, Job
      <4> QED
        BY <1>0, <4>1, <4>2, EmailUserChange
    <3>3. FoundOK(c)'
      BY <2>d, <2>e, <3>1, <3>2, <3>o DEF FoundOK, Owns
    <3>4. AskedOK(c)'
      BY <1>9, <1>c, <2>d, <3>1, <3>2, <3>o, AskedKept DEF ReadCached, AskedOK,
        UuidLabels, CanonicalLabels
    <3>5. InsertedOK(c)' /\ OthersStay(c)
      BY <2>d, <2>e, <3>1, <3>2 DEF InsertedOK, OthersStay
    <3> QED
      BY <2>d, <2>e, <3>3, <3>4, <3>5, Keeps
  <2> QED
    BY <1>9, <2>1, <2>2 DEF ReadCached
<1>10. ASSUME NEW c \in Callers, Validate(c) PROVE OwnerInv'
  <2>d. DataInv' /\ UNCHANGED <<users, primary, inserted>>
    BY <1>10, <1>0, DataFresh DEF Validate, Checked
  <2>e. inserted[c] = None
    BY <1>10, <1>c DEF Validate, InsertedOK
  <2>1. CASE Goto(c, "byAddress") /\ UNCHANGED job
    <3>1. pc'[c] = "byAddress" /\ \A d \in Callers : d # c => pc'[d] = pc[d]
      BY <2>1, <1>0 DEF With, Goto, CallerTypes
    <3>2. job' = job
      BY <2>1
    <3>3. FoundOK(c)'
      BY <2>d, <2>e, <3>1, <3>2 DEF FoundOK, Owns
    <3>4. AskedOK(c)'
      BY <1>10, <1>c, <2>d, <3>1, <3>2, AskedKept DEF Validate, AskedOK, UuidLabels,
        CanonicalLabels
    <3>5. InsertedOK(c)' /\ OthersStay(c)
      BY <2>d, <2>e, <3>1, <3>2 DEF InsertedOK, OthersStay
    <3> QED
      BY <2>d, <2>e, <3>3, <3>4, <3>5, Keeps
  <2>2. CASE job' = [job EXCEPT ![c].email = None, ![c].user = None] /\ Goto(c, "profile")
    <3>1. pc'[c] = "profile" /\ \A d \in Callers : d # c => pc'[d] = pc[d]
      BY <2>2, <1>0 DEF With, Goto, CallerTypes
    <3>2. /\ job'[c].user = None /\ job'[c].email = None
          /\ job'[c].op = job[c].op /\ job'[c].asked = job[c].asked
          /\ \A d \in Callers : d # c => job'[d] = job[d]
      <4>1. SetsEmail(c, None, None)
        BY <2>2 DEF SetsEmail, SetsId
      <4>2. None \in Emails \union {None}
        BY <2>2, <1>0 DEF CallerTypes, Job
      <4> QED
        BY <1>0, <4>1, <4>2, EmailUserChange
    <3>3. FoundOK(c)'
      BY <2>d, <2>e, <3>1, <3>2 DEF FoundOK, Owns
    <3>4. AskedOK(c)'
      BY <1>10, <1>c, <2>d, <3>1, <3>2, AskedKept DEF Validate, AskedOK, UuidLabels,
        CanonicalLabels
    <3>5. InsertedOK(c)' /\ OthersStay(c)
      BY <2>d, <2>e, <3>1, <3>2 DEF InsertedOK, OthersStay
    <3> QED
      BY <2>d, <2>e, <3>3, <3>4, <3>5, Keeps
  <2> QED
    BY <1>10, <2>1, <2>2 DEF Validate
<1>11. ASSUME NEW c \in Callers, ReadProfile(c) PROVE OwnerInv'
  <2>e. inserted[c] = None
    BY <1>11, <1>c DEF ReadProfile, InsertedOK
  <2>d. DataInv' /\ UNCHANGED <<users, primary, inserted>>
    <3>1. \A u \in Users : slack[u] # None => [slack[u] EXCEPT !.fresh = TRUE].email = slack[u].email
      BY <1>0 DEF TableTypes, Row
    <3>2. \A u \in Users : slack'[u] # None => slack[u] # None /\ slack'[u].email = slack[u].email
      BY <1>11, <3>1 DEF ReadProfile, SlackOf
    <3> QED
      BY <1>11, <1>0, <3>2 DEF ReadProfile, DataInv, Owns
  <2>1. PICK e \in Emails \union {None} :
          /\ job' = [job EXCEPT ![c].email = e, ![c].user = None]
          /\ Goto(c, IF e = None THEN "known" ELSE "byAddress")
    BY <1>11, <1>0, <1>k DEF ReadProfile, JobKnown, TableTypes
  <2>r1. pc'[c] = (IF e = None THEN "known" ELSE "byAddress") /\ \A d \in Callers : d # c => pc'[d] = pc[d]
    BY <2>1, <1>0 DEF With, Goto, CallerTypes
  <2>r2. /\ job'[c].user = None /\ job'[c].email = e
        /\ job'[c].op = job[c].op /\ job'[c].asked = job[c].asked
        /\ \A d \in Callers : d # c => job'[d] = job[d]
    <4>1. SetsEmail(c, e, None)
      BY <2>1 DEF SetsEmail, SetsId
    <4>2. e \in Emails \union {None}
      BY <2>1, <1>0 DEF CallerTypes, Job
    <4> QED
      BY <1>0, <4>1, <4>2, EmailUserChange
  <2>r3. FoundOK(c)'
    BY <2>d, <2>e, <2>r1, <2>r2 DEF FoundOK, Owns
  <2>r4. AskedOK(c)'
    BY <1>11, <1>c, <2>d, <2>r1, <2>r2, AskedKept DEF ReadProfile, AskedOK,
      UuidLabels, CanonicalLabels
  <2>r5. InsertedOK(c)' /\ OthersStay(c)
    BY <2>d, <2>e, <2>r1, <2>r2 DEF InsertedOK, OthersStay
  <2> QED
    BY <2>d, <2>e, <2>r3, <2>r4, <2>r5, Keeps
<1>12. ASSUME NEW c \in Callers, ReadKnown(c) PROVE OwnerInv'
  <2>d. DataInv' /\ UNCHANGED <<users, primary, inserted>>
    BY <1>12, <1>0, DataSame DEF ReadKnown, Keep
  <2>e. inserted[c] = None
    BY <1>12, <1>c DEF ReadKnown, InsertedOK
  <2>1. CASE With(c, None, "failed")
    <3>1. pc'[c] = "failed" /\ \A d \in Callers : d # c => pc'[d] = pc[d]
      BY <2>1, <1>0 DEF With, Goto, CallerTypes
    <3>2. /\ job'[c].user = None /\ job'[c].email = job[c].email
          /\ job'[c].op = job[c].op /\ job'[c].asked = job[c].asked
          /\ \A d \in Callers : d # c => job'[d] = job[d]
      BY <2>1, UserChange DEF With
    <3>3. FoundOK(c)'
      BY <2>d, <2>e, <3>1, <3>2 DEF FoundOK, Owns
    <3>4. AskedOK(c)'
      BY <1>12, <1>c, <2>d, <3>1, <3>2, AskedKept DEF ReadKnown, AskedOK, UuidLabels,
        CanonicalLabels
    <3>5. InsertedOK(c)' /\ OthersStay(c)
      BY <2>d, <2>e, <3>1, <3>2 DEF InsertedOK, OthersStay
    <3> QED
      BY <2>d, <2>e, <3>3, <3>4, <3>5, Keeps
  <2>2. CASE \E u \in SlackOf(job[c].id) : With(c, u, "done")
    <3>0. PICK u \in Users : With(c, u, "done")
      BY <2>2 DEF SlackOf
    <3>o. job[c].email = None
      BY <1>12, <1>k DEF ReadKnown, JobKnown
    <3>1. pc'[c] = "done" /\ \A d \in Callers : d # c => pc'[d] = pc[d]
      BY <3>0, <1>0 DEF With, Goto, CallerTypes
    <3>2. /\ job'[c].user = u /\ job'[c].email = job[c].email
          /\ job'[c].op = job[c].op /\ job'[c].asked = job[c].asked
          /\ \A d \in Callers : d # c => job'[d] = job[d]
      BY <3>0, UserChange DEF With
    <3>3. FoundOK(c)'
      BY <2>d, <2>e, <3>1, <3>2, <3>o DEF FoundOK, Owns
    <3>4. AskedOK(c)'
      BY <1>12, <1>c, <2>d, <3>1, <3>2, <3>o, AskedKept DEF ReadKnown, AskedOK,
        UuidLabels, CanonicalLabels
    <3>5. InsertedOK(c)' /\ OthersStay(c)
      BY <2>d, <2>e, <3>1, <3>2 DEF InsertedOK, OthersStay
    <3> QED
      BY <2>d, <2>e, <3>3, <3>4, <3>5, Keeps
  <2> QED
    BY <1>12, <2>1, <2>2 DEF ReadKnown
<1>13. ASSUME NEW c \in Callers, ReadByAddress(c) PROVE OwnerInv'
  <2>d. DataInv' /\ UNCHANGED <<users, primary, inserted>>
    BY <1>13, <1>0, DataSame DEF ReadByAddress, Keep
  <2>e. inserted[c] = None
    BY <1>13, <1>c DEF ReadByAddress, InsertedOK
  <2>1. CASE With(c, None, "anyAddress")
    <3>1. pc'[c] = "anyAddress" /\ \A d \in Callers : d # c => pc'[d] = pc[d]
      BY <2>1, <1>0 DEF With, Goto, CallerTypes
    <3>2. /\ job'[c].user = None /\ job'[c].email = job[c].email
          /\ job'[c].op = job[c].op /\ job'[c].asked = job[c].asked
          /\ \A d \in Callers : d # c => job'[d] = job[d]
      BY <2>1, UserChange DEF With
    <3>3. FoundOK(c)'
      BY <2>d, <2>e, <3>1, <3>2 DEF FoundOK, Owns
    <3>4. AskedOK(c)'
      BY <1>13, <1>c, <2>d, <3>1, <3>2, AskedKept DEF ReadByAddress, AskedOK,
        UuidLabels, CanonicalLabels
    <3>5. InsertedOK(c)' /\ OthersStay(c)
      BY <2>d, <2>e, <3>1, <3>2 DEF InsertedOK, OthersStay
    <3> QED
      BY <2>d, <2>e, <3>3, <3>4, <3>5, Keeps
  <2>2. CASE \E u \in RowsOfType(job[c]) : With(c, u, IF job[c].op = "slack" THEN "consistent" ELSE "done")
    <3>0. PICK u \in Users : u \in RowsOfType(job[c]) /\ With(c, u, (IF job[c].op = "slack" THEN "consistent" ELSE "done"))
      BY <2>2, <1>0 DEF RowsOfType, MailWith, SlackWith, TableTypes
    <3>o. Owns(u, job[c].email)
      BY <1>13, <3>0, <1>0, <1>k, RowsOwned DEF ReadByAddress, JobKnown, Addressed,
        RowsOfType
    <3>1. pc'[c] = (IF job[c].op = "slack" THEN "consistent" ELSE "done") /\ \A d \in Callers : d # c => pc'[d] = pc[d]
      BY <3>0, <1>0 DEF With, Goto, CallerTypes
    <3>2. /\ job'[c].user = u /\ job'[c].email = job[c].email
          /\ job'[c].op = job[c].op /\ job'[c].asked = job[c].asked
          /\ \A d \in Callers : d # c => job'[d] = job[d]
      BY <3>0, UserChange DEF With
    <3>3. FoundOK(c)'
      BY <2>d, <2>e, <3>1, <3>2, <3>o DEF FoundOK, Owns
    <3>4. AskedOK(c)'
      BY <1>13, <1>c, <2>d, <3>1, <3>2, <3>o, AskedKept DEF ReadByAddress, AskedOK,
        UuidLabels, CanonicalLabels
    <3>5. InsertedOK(c)' /\ OthersStay(c)
      BY <2>d, <2>e, <3>1, <3>2 DEF InsertedOK, OthersStay
    <3> QED
      BY <2>d, <2>e, <3>3, <3>4, <3>5, Keeps
  <2> QED
    BY <1>13, <2>1, <2>2 DEF ReadByAddress
<1>14. ASSUME NEW c \in Callers, ReadAnyAddress(c) PROVE OwnerInv'
  <2>d. DataInv' /\ UNCHANGED <<users, primary, inserted>>
    BY <1>14, <1>0, DataSame DEF ReadAnyAddress, Keep
  <2>e. inserted[c] = None
    BY <1>14, <1>c DEF ReadAnyAddress, InsertedOK
  <2>1. CASE With(c, None, "findMapping")
    <3>1. pc'[c] = "findMapping" /\ \A d \in Callers : d # c => pc'[d] = pc[d]
      BY <2>1, <1>0 DEF With, Goto, CallerTypes
    <3>2. /\ job'[c].user = None /\ job'[c].email = job[c].email
          /\ job'[c].op = job[c].op /\ job'[c].asked = job[c].asked
          /\ \A d \in Callers : d # c => job'[d] = job[d]
      BY <2>1, UserChange DEF With
    <3>3. FoundOK(c)'
      BY <2>d, <2>e, <3>1, <3>2 DEF FoundOK, Owns
    <3>4. AskedOK(c)'
      BY <1>14, <1>c, <2>d, <3>1, <3>2, AskedKept DEF ReadAnyAddress, AskedOK,
        UuidLabels, CanonicalLabels
    <3>5. InsertedOK(c)' /\ OthersStay(c)
      BY <2>d, <2>e, <3>1, <3>2 DEF InsertedOK, OthersStay
    <3> QED
      BY <2>d, <2>e, <3>3, <3>4, <3>5, Keeps
  <2>2. CASE \E u \in MappedTo(job[c].email) : With(c, u, "store")
    <3>0. PICK u \in Users : u \in MappedTo(job[c].email) /\ With(c, u, "store")
      BY <2>2, <1>0 DEF MappedTo, MailWith, SlackWith, TableTypes
    <3>o. Owns(u, job[c].email)
      BY <1>14, <3>0, <1>0, <1>k, RowsOwned DEF ReadAnyAddress, JobKnown, Addressed,
        RowsOfType
    <3>1. pc'[c] = "store" /\ \A d \in Callers : d # c => pc'[d] = pc[d]
      BY <3>0, <1>0 DEF With, Goto, CallerTypes
    <3>2. /\ job'[c].user = u /\ job'[c].email = job[c].email
          /\ job'[c].op = job[c].op /\ job'[c].asked = job[c].asked
          /\ \A d \in Callers : d # c => job'[d] = job[d]
      BY <3>0, UserChange DEF With
    <3>3. FoundOK(c)'
      BY <2>d, <2>e, <3>1, <3>2, <3>o DEF FoundOK, Owns
    <3>4. AskedOK(c)'
      BY <1>14, <1>c, <2>d, <3>1, <3>2, <3>o, AskedKept DEF ReadAnyAddress, AskedOK,
        UuidLabels, CanonicalLabels
    <3>5. InsertedOK(c)' /\ OthersStay(c)
      BY <2>d, <2>e, <3>1, <3>2 DEF InsertedOK, OthersStay
    <3> QED
      BY <2>d, <2>e, <3>3, <3>4, <3>5, Keeps
  <2> QED
    BY <1>14, <2>1, <2>2 DEF ReadAnyAddress
<1>15. ASSUME NEW c \in Callers, Store(c) PROVE OwnerInv'
  <2>e. inserted[c] = None
    BY <1>15, <1>c DEF Store, InsertedOK
  <2>1. CASE Raise(c) /\ UNCHANGED <<mail, slack>>
    <3>d. DataInv' /\ UNCHANGED <<users, primary, inserted>>
      BY <1>15, <1>0, <2>1, DataSame DEF Store
    <3>1. pc'[c] = (IF job[c].op = "lookup" THEN "done" ELSE "failed") /\ \A d \in Callers : d # c => pc'[d] = pc[d]
      BY <2>1, <1>0 DEF Raise, With, Goto, CallerTypes
    <3>2. /\ job'[c].user = None /\ job'[c].email = job[c].email
          /\ job'[c].op = job[c].op /\ job'[c].asked = job[c].asked
          /\ \A d \in Callers : d # c => job'[d] = job[d]
      BY <2>1, UserChange DEF Raise, With
    <3>3. FoundOK(c)'
      BY <3>d, <2>e, <3>1, <3>2 DEF FoundOK, Owns
    <3>4. AskedOK(c)'
      BY <1>15, <1>c, <3>d, <3>1, <3>2, AskedKept DEF Store, AskedOK, UuidLabels,
        CanonicalLabels
    <3>5. InsertedOK(c)' /\ OthersStay(c)
      BY <3>d, <2>e, <3>1, <3>2 DEF InsertedOK, OthersStay
    <3> QED
      BY <3>d, <2>e, <3>3, <3>4, <3>5, Keeps
  <2>2. CASE /\ Goto(c, AfterStore(c))
             /\ IF job[c].op = "mail"
                THEN mail' = [mail EXCEPT ![job[c].user] = job[c].email] /\ UNCHANGED slack
                ELSE /\ slack' = [slack EXCEPT ![job[c].user] =
                          [email |-> job[c].email, id |-> job[c].id, fresh |-> TRUE]]
                     /\ UNCHANGED mail
             /\ UNCHANGED job
    <3>o. job[c].email \in Emails /\ Owns(job[c].user, job[c].email)
      BY <1>15, <1>k, <1>c DEF Store, JobKnown, Addressed, FoundOK
    <3>q. job[c].user \in Users
      BY <1>0, <3>o DEF Owns, TableTypes
    <3>p. /\ \A v \in Users : mail'[v] = mail[v] \/ (v = job[c].user /\ mail'[v] = job[c].email)
          /\ \A v \in Users : slack'[v] = slack[v] \/ (v = job[c].user /\ slack'[v].email = job[c].email)
      BY <2>2, <1>0 DEF TableTypes
    <3>d. DataInv' /\ UNCHANGED <<users, primary, inserted>>
      <4>1. UNCHANGED <<users, primary, inserted>>
        BY <1>15 DEF Store
      <4> QED
        BY <1>0, <3>o, <3>p, <4>1, DataStored
    <3>1. pc'[c] = AfterStore(c) /\ \A d \in Callers : d # c => pc'[d] = pc[d]
      BY <2>2, <1>0 DEF With, Goto, CallerTypes, AfterStore
    <3>2. job' = job
      BY <2>2
    <3>3. FoundOK(c)'
      BY <3>d, <2>e, <3>1, <3>2, <3>o DEF FoundOK, Owns, AfterStore
    <3>4. AskedOK(c)'
      BY <1>15, <1>c, <3>d, <3>1, <3>2, <3>o, AskedKept DEF Store, AskedOK,
        UuidLabels, CanonicalLabels
    <3>5. InsertedOK(c)' /\ OthersStay(c)
      BY <3>d, <2>e, <3>1, <3>2 DEF InsertedOK, OthersStay
    <3> QED
      BY <3>d, <2>e, <3>3, <3>4, <3>5, Keeps
  <2> QED
    BY <1>15, <2>1, <2>2 DEF Store, RowOwner
<1>16. ASSUME NEW c \in Callers, Consistent(c) PROVE OwnerInv'
  <2>d. DataInv' /\ UNCHANGED <<users, primary, inserted>>
    BY <1>16, <1>0, DataSame DEF Consistent, Keep
  <2>e. inserted[c] = None
    BY <1>16, <1>c DEF Consistent, InsertedOK
  <2>1. CASE Goto(c, "done") /\ UNCHANGED job
    <3>1. pc'[c] = "done" /\ \A d \in Callers : d # c => pc'[d] = pc[d]
      BY <2>1, <1>0 DEF With, Goto, CallerTypes
    <3>2. job' = job
      BY <2>1
    <3>3. FoundOK(c)'
      BY <2>d, <2>e, <3>1, <3>2, <1>c, <1>16 DEF Consistent, FoundOK, Owns
    <3>4. AskedOK(c)'
      BY <1>16, <1>c, <2>d, <3>1, <3>2, <1>c, <1>16, AskedKept DEF Consistent,
        AskedOK, UuidLabels, CanonicalLabels
    <3>5. InsertedOK(c)' /\ OthersStay(c)
      BY <2>d, <2>e, <3>1, <3>2 DEF InsertedOK, OthersStay
    <3> QED
      BY <2>d, <2>e, <3>3, <3>4, <3>5, Keeps
  <2>2. CASE \E u \in MailWith(job[c].email) \ {job[c].user} : With(c, u, "store")
    <3>0. PICK u \in Users : u \in MailWith(job[c].email) /\ With(c, u, "store")
      BY <2>2, <1>0 DEF MailWith, TableTypes
    <3>o. Owns(u, job[c].email)
      BY <1>16, <3>0, <1>0, <1>k, RowsOwned DEF Consistent, JobKnown, Addressed,
        RowsOfType
    <3>1. pc'[c] = "store" /\ \A d \in Callers : d # c => pc'[d] = pc[d]
      BY <3>0, <1>0 DEF With, Goto, CallerTypes
    <3>2. /\ job'[c].user = u /\ job'[c].email = job[c].email
          /\ job'[c].op = job[c].op /\ job'[c].asked = job[c].asked
          /\ \A d \in Callers : d # c => job'[d] = job[d]
      BY <3>0, UserChange DEF With
    <3>3. FoundOK(c)'
      BY <2>d, <2>e, <3>1, <3>2, <3>o DEF FoundOK, Owns
    <3>4. AskedOK(c)'
      BY <1>16, <1>c, <2>d, <3>1, <3>2, <3>o, AskedKept DEF Consistent, AskedOK,
        UuidLabels, CanonicalLabels
    <3>5. InsertedOK(c)' /\ OthersStay(c)
      BY <2>d, <2>e, <3>1, <3>2 DEF InsertedOK, OthersStay
    <3> QED
      BY <2>d, <2>e, <3>3, <3>4, <3>5, Keeps
  <2> QED
    BY <1>16, <2>1, <2>2 DEF Consistent
<1>17. ASSUME NEW c \in Callers, FindMapping(c) PROVE OwnerInv'
  <2>d. DataInv' /\ UNCHANGED <<users, primary, inserted>>
    BY <1>17, <1>0, DataSame DEF FindMapping, Keep
  <2>e. inserted[c] = None
    BY <1>17, <1>c DEF FindMapping, InsertedOK
  <2>1. CASE Goto(c, "findUser") /\ UNCHANGED job
    <3>1. pc'[c] = "findUser" /\ \A d \in Callers : d # c => pc'[d] = pc[d]
      BY <2>1, <1>0 DEF With, Goto, CallerTypes
    <3>2. job' = job
      BY <2>1
    <3>3. FoundOK(c)'
      BY <2>d, <2>e, <3>1, <3>2 DEF FoundOK, Owns
    <3>4. AskedOK(c)'
      BY <1>17, <1>c, <2>d, <3>1, <3>2, AskedKept DEF FindMapping, AskedOK,
        UuidLabels, CanonicalLabels
    <3>5. InsertedOK(c)' /\ OthersStay(c)
      BY <2>d, <2>e, <3>1, <3>2 DEF InsertedOK, OthersStay
    <3> QED
      BY <2>d, <2>e, <3>3, <3>4, <3>5, Keeps
  <2>2. CASE \E u \in MappedTo(job[c].email) : With(c, u, "ensureRow")
    <3>0. PICK u \in Users : u \in MappedTo(job[c].email) /\ With(c, u, "ensureRow")
      BY <2>2, <1>0 DEF MappedTo, MailWith, SlackWith, TableTypes
    <3>o. Owns(u, job[c].email)
      BY <1>17, <3>0, <1>0, <1>k, RowsOwned DEF FindMapping, JobKnown, Addressed,
        RowsOfType
    <3>1. pc'[c] = "ensureRow" /\ \A d \in Callers : d # c => pc'[d] = pc[d]
      BY <3>0, <1>0 DEF With, Goto, CallerTypes
    <3>2. /\ job'[c].user = u /\ job'[c].email = job[c].email
          /\ job'[c].op = job[c].op /\ job'[c].asked = job[c].asked
          /\ \A d \in Callers : d # c => job'[d] = job[d]
      BY <3>0, UserChange DEF With
    <3>3. FoundOK(c)'
      BY <2>d, <2>e, <3>1, <3>2, <3>o DEF FoundOK, Owns
    <3>4. AskedOK(c)'
      BY <1>17, <1>c, <2>d, <3>1, <3>2, <3>o, AskedKept DEF FindMapping, AskedOK,
        UuidLabels, CanonicalLabels
    <3>5. InsertedOK(c)' /\ OthersStay(c)
      BY <2>d, <2>e, <3>1, <3>2 DEF InsertedOK, OthersStay
    <3> QED
      BY <2>d, <2>e, <3>3, <3>4, <3>5, Keeps
  <2> QED
    BY <1>17, <2>1, <2>2 DEF FindMapping
<1>18. ASSUME NEW c \in Callers, FindUser(c) PROVE OwnerInv'
  <2>d. DataInv' /\ UNCHANGED <<users, primary, inserted>>
    BY <1>18, <1>0, DataSame DEF FindUser, Keep
  <2>e. inserted[c] = None
    BY <1>18, <1>c DEF FindUser, InsertedOK
  <2>1. CASE Goto(c, "insertUser") /\ UNCHANGED job
    <3>1. pc'[c] = "insertUser" /\ \A d \in Callers : d # c => pc'[d] = pc[d]
      BY <2>1, <1>0 DEF With, Goto, CallerTypes
    <3>2. job' = job
      BY <2>1
    <3>3. FoundOK(c)'
      BY <2>d, <2>e, <3>1, <3>2 DEF FoundOK, Owns
    <3>4. AskedOK(c)'
      BY <1>18, <1>c, <2>d, <3>1, <3>2, AskedKept DEF FindUser, AskedOK, UuidLabels,
        CanonicalLabels
    <3>5. InsertedOK(c)' /\ OthersStay(c)
      BY <2>d, <2>e, <3>1, <3>2 DEF InsertedOK, OthersStay
    <3> QED
      BY <2>d, <2>e, <3>3, <3>4, <3>5, Keeps
  <2>2. CASE \E u \in Owner(job[c].email) : With(c, u, "ensureRow")
    <3>0. PICK u \in Users : u \in Owner(job[c].email) /\ With(c, u, "ensureRow")
      BY <2>2, <1>0 DEF Owner, TableTypes
    <3>o. Owns(u, job[c].email)
      BY <1>18, <3>0, <1>0, <1>k, RowsOwned DEF FindUser, JobKnown, Addressed,
        RowsOfType
    <3>1. pc'[c] = "ensureRow" /\ \A d \in Callers : d # c => pc'[d] = pc[d]
      BY <3>0, <1>0 DEF With, Goto, CallerTypes
    <3>2. /\ job'[c].user = u /\ job'[c].email = job[c].email
          /\ job'[c].op = job[c].op /\ job'[c].asked = job[c].asked
          /\ \A d \in Callers : d # c => job'[d] = job[d]
      BY <3>0, UserChange DEF With
    <3>3. FoundOK(c)'
      BY <2>d, <2>e, <3>1, <3>2, <3>o DEF FoundOK, Owns
    <3>4. AskedOK(c)'
      BY <1>18, <1>c, <2>d, <3>1, <3>2, <3>o, AskedKept DEF FindUser, AskedOK,
        UuidLabels, CanonicalLabels
    <3>5. InsertedOK(c)' /\ OthersStay(c)
      BY <2>d, <2>e, <3>1, <3>2 DEF InsertedOK, OthersStay
    <3> QED
      BY <2>d, <2>e, <3>3, <3>4, <3>5, Keeps
  <2>3. CASE Raise(c)
    <3>1. pc'[c] = (IF job[c].op = "lookup" THEN "done" ELSE "failed") /\ \A d \in Callers : d # c => pc'[d] = pc[d]
      BY <2>3, <1>0 DEF Raise, With, Goto, CallerTypes
    <3>2. /\ job'[c].user = None /\ job'[c].email = job[c].email
          /\ job'[c].op = job[c].op /\ job'[c].asked = job[c].asked
          /\ \A d \in Callers : d # c => job'[d] = job[d]
      BY <2>3, UserChange DEF Raise, With
    <3>3. FoundOK(c)'
      BY <2>d, <2>e, <3>1, <3>2 DEF FoundOK, Owns
    <3>4. AskedOK(c)'
      BY <1>18, <1>c, <2>d, <3>1, <3>2, AskedKept DEF FindUser, AskedOK, UuidLabels,
        CanonicalLabels
    <3>5. InsertedOK(c)' /\ OthersStay(c)
      BY <2>d, <2>e, <3>1, <3>2 DEF InsertedOK, OthersStay
    <3> QED
      BY <2>d, <2>e, <3>3, <3>4, <3>5, Keeps
  <2> QED
    BY <1>18, <2>1, <2>2, <2>3 DEF FindUser
<1>19. ASSUME NEW c \in Callers, InsertUser(c) PROVE OwnerInv'
  <2>d. DataInv' /\ UNCHANGED <<users, primary>>
    BY <1>19, <1>0, DataSame DEF InsertUser
  <2>e. inserted[c] = None
    BY <1>19, <1>c DEF InsertUser, InsertedOK
  <2>1. CASE Goto(c, "findAgain") /\ UNCHANGED <<job, inserted>>
    <3>1. pc'[c] = "findAgain" /\ \A d \in Callers : d # c => pc'[d] = pc[d]
      BY <2>1, <1>0 DEF With, Goto, CallerTypes
    <3>2. job' = job
      BY <2>1
    <3>3. FoundOK(c)'
      BY <2>1, <2>d, <2>e, <3>1, <3>2 DEF FoundOK, Owns
    <3>4. AskedOK(c)'
      BY <1>19, <1>c, <2>d, <3>1, <3>2, AskedKept DEF InsertUser, AskedOK,
        UuidLabels, CanonicalLabels
    <3>5. InsertedOK(c)' /\ OthersStay(c)
      BY <2>1, <2>d, <2>e, <3>1, <3>2 DEF InsertedOK, OthersStay
    <3> QED
      BY <2>1, <2>d, <2>e, <3>3, <3>4, <3>5, Keeps
  <2>2. CASE /\ Owner(job[c].email) = {}
             /\ \E u \in Unused : inserted' = [inserted EXCEPT ![c] = u] /\ With(c, u, "ensureRow")
    <3>0. PICK u \in Users : /\ u \notin users /\ \A d \in Callers : inserted[d] # u
                             /\ inserted' = [inserted EXCEPT ![c] = u]
                             /\ With(c, u, "ensureRow")
      BY <2>2 DEF Unused
    <3>o. /\ \A v \in users : primary[v] # job[c].email
          /\ \A d \in Callers : inserted[d] # None => job[d].email # job[c].email
      BY <1>19, <2>2 DEF InsertUser, AddressLocked, Owner
    <3>i. inserted'[c] = u /\ \A d \in Callers : d # c => inserted'[d] = inserted[d]
      BY <3>0, <1>0 DEF CallerTypes
    <3>1. pc'[c] = "ensureRow" /\ \A d \in Callers : d # c => pc'[d] = pc[d]
      BY <3>0, <1>0 DEF With, Goto, CallerTypes
    <3>2. /\ job'[c].user = u /\ job'[c].email = job[c].email
          /\ job'[c].op = job[c].op /\ job'[c].asked = job[c].asked
          /\ \A d \in Callers : d # c => job'[d] = job[d]
      BY <3>0, UserChange DEF With
    <3>3. FoundOK(c)' /\ InsertedOK(c)'
      BY <2>d, <3>0, <3>o, <3>i, <3>1, <3>2, NullsDiffer DEF FoundOK, InsertedOK
    <3>4. AskedOK(c)'
      BY <1>19, <1>c, <2>d, <3>1, <3>2, AskedKept DEF InsertUser, AskedOK,
        UuidLabels, CanonicalLabels
    <3>5. OthersStay(c)
      BY <3>1, <3>2 DEF OthersStay
    <3>6. \A d \in Callers : inserted[d] # None =>
            inserted[d] \notin users' /\ \A v \in users' : primary'[v] # job[d].email
      BY <1>c, <2>d DEF InsertedOK
    <3> QED
      BY <2>d, <3>0, <3>o, <3>i, <3>2, <3>3, <3>4, <3>5, <3>6, Grows
  <2> QED
    BY <1>19, <2>1, <2>2 DEF InsertUser
<1>20. ASSUME NEW c \in Callers, EnsureRow(c) PROVE OwnerInv'
  <2>d. DataInv' /\ UNCHANGED <<users, primary, inserted, job>>
    BY <1>20, <1>0, DataSame DEF EnsureRow
  <2>e. inserted[c] # None => mail[job[c].user] = None
    BY <1>20, <1>c, <1>k, <1>0 DEF EnsureRow, InsertedOK, JobKnown, DataInv, Owns
  <2>1. /\ pc'[c] = (IF mail[job[c].user] = None THEN "upsertRow" ELSE AfterCanonical(c))
        /\ \A d \in Callers : d # c => pc'[d] = pc[d]
    BY <1>20, <1>0 DEF EnsureRow, Goto, CallerTypes
  <2>2. FoundOK(c)'
    BY <1>20, <1>c, <2>d, <2>e, <2>1 DEF EnsureRow, FoundOK, AfterCanonical, Owns
  <2>3. AskedOK(c)'
    <3>1. job[c].op = "canonical" /\ job[c].asked # None /\ pc'[c] = "done"
            => Owns(job[c].user, job[c].email)
      BY <1>20, <1>c, <2>e, <2>1 DEF EnsureRow, FoundOK, AfterCanonical
    <3> QED
      BY <1>20, <1>c, <2>d, <2>1, <3>1, AskedKept
        DEF EnsureRow, AskedOK, UuidLabels, CanonicalLabels, AfterCanonical
  <2>4. InsertedOK(c)' /\ OthersStay(c)
    BY <1>20, <1>c, <2>d, <2>e, <2>1 DEF EnsureRow, InsertedOK, OthersStay
  <2> QED
    BY <2>d, <2>2, <2>3, <2>4, Keeps
<1>21. ASSUME NEW c \in Callers, UpsertRow(c) PROVE OwnerInv'
  <2>e. job[c].email \in Emails /\ job[c].user \in Users
    BY <1>21, <1>k DEF UpsertRow, JobKnown, Addressed
  <2>i. inserted'[c] = None /\ \A d \in Callers : d # c => inserted'[d] = inserted[d]
    BY <1>21, <1>0 DEF UpsertRow, CallerTypes
  <2>1. CASE /\ UNCHANGED tables
             /\ \/ Goto(c, "findAgain") /\ UNCHANGED job
                \/ Raise(c)
    <3>d. DataInv' /\ UNCHANGED <<users, primary>>
      BY <1>0, <2>1, DataSame
    <3>1. /\ pc'[c] \in {"findAgain", "failed", "done"}
          /\ pc'[c] = "done" => job[c].op = "lookup" /\ job'[c].user = None
          /\ job'[c].email = job[c].email
          /\ job'[c].op = job[c].op /\ job'[c].asked = job[c].asked
          /\ job'[c].user = job[c].user \/ pc'[c] # "findAgain"
          /\ OthersStay(c)
      <4>1. CASE Goto(c, "findAgain") /\ UNCHANGED job
        BY <1>0, <4>1 DEF Goto, OthersStay, CallerTypes
      <4>2. CASE Raise(c)
        BY <1>0, <4>2, UserChange DEF Raise, With, Goto, OthersStay, CallerTypes
      <4> QED
        BY <2>1, <4>1, <4>2
    <3>2. FoundOK(c)' /\ InsertedOK(c)'
      BY <2>i, <3>1 DEF FoundOK, InsertedOK
    <3>3. AskedOK(c)'
      BY <1>21, <1>c, <3>d, <3>1, AskedKept DEF UpsertRow, AskedOK, UuidLabels,
        CanonicalLabels
    <3> QED
      BY <2>i, <3>d, <3>1, <3>2, <3>3, Keeps
  <2>2. CASE /\ mail' = [mail EXCEPT ![job[c].user] = job[c].email]
             /\ IF inserted[c] = None THEN UNCHANGED <<users, primary>>
                ELSE /\ users' = users \union {job[c].user}
                     /\ primary' = [primary EXCEPT ![job[c].user] = job[c].email]
             /\ Goto(c, AfterCanonical(c))
             /\ UNCHANGED <<job, slack>>
    <3>1. /\ pc'[c] = AfterCanonical(c) /\ OthersStay(c) /\ job' = job
          /\ AfterCanonical(c) \in {"done", "store"}
      <4>1. AfterCanonical(c) \in {"done", "store"}
        BY DEF AfterCanonical
      <4>2. Goto(c, AfterCanonical(c)) /\ job' = job
        BY <2>2
      <4>3. pc'[c] = AfterCanonical(c) /\ \A d \in Callers : d # c => pc'[d] = pc[d]
        BY <4>2, <1>0 DEF Goto, CallerTypes
      <4> QED
        BY <4>1, <4>2, <4>3 DEF OthersStay
    <3>2. CASE inserted[c] = None
      <4>1. UNCHANGED <<users, primary>> /\ Owns(job[c].user, job[c].email)
        BY <1>21, <1>c, <2>2, <3>2 DEF UpsertRow, FoundOK
      <4>2. DataInv'
        <5>1. /\ \A v \in Users : mail'[v] = mail[v] \/ (v = job[c].user /\ mail'[v] = job[c].email)
              /\ slack' = slack
          BY <1>0, <2>2, <2>e DEF TableTypes
        <5> QED
          BY <1>0, <2>e, <4>1, <5>1, DataStored
      <4>3. FoundOK(c)' /\ InsertedOK(c)'
        BY <2>i, <3>1, <4>1 DEF FoundOK, InsertedOK, Owns
      <4>4. AskedOK(c)'
        BY <1>21, <1>c, <3>1, <4>1, AskedKept
          DEF UpsertRow, AskedOK, UuidLabels, CanonicalLabels, AfterCanonical
      <4> QED
        BY <2>i, <3>1, <4>1, <4>2, <4>3, <4>4, Keeps
    <3>3. CASE inserted[c] # None
      <4> DEFINE u == job[c].user
                 e == job[c].email
      <4>1. /\ u = inserted[c] /\ u \notin users /\ \A v \in users : primary[v] # e
            /\ users' = users \union {u} /\ primary' = [primary EXCEPT ![u] = e]
            /\ mail' = [mail EXCEPT ![u] = e] /\ slack' = slack
        BY <1>c, <2>2, <3>3 DEF InsertedOK
      <4>r. e \in Emails /\ u \in Users
        BY <2>e
      <4> HIDE DEF u, e
      <4>2. /\ primary'[u] = e /\ mail'[u] = e
            /\ \A v \in Users : v # u => primary'[v] = primary[v] /\ mail'[v] = mail[v]
            /\ primary[u] = None /\ mail[u] = None /\ slack[u] = None
        BY <4>1, <4>r, <1>0 DEF TableTypes, DataInv, Owns
      <4>3. \A v \in Users : v # u => primary[v] # e
        BY <4>1, <4>r, <1>0, NullsDiffer DEF DataInv
      <4>4. DataInv'
        BY <1>0, <4>1, <4>2, <4>3, <4>r, NullsDiffer DEF DataInv, Owns
      <4>5. /\ users \subseteq users' /\ \A v \in users : primary'[v] = primary[v]
            /\ u \in users' /\ primary'[u] = e
        BY <4>1, <4>2, <1>0 DEF TableTypes
      <4>6. FoundOK(c)' /\ InsertedOK(c)'
        BY <2>i, <3>1, <4>5 DEF FoundOK, InsertedOK, Owns, u, e
      <4>7. AskedOK(c)'
        <5>1. job[c].asked = None
          <6>1. (job[c].asked \in users /\ primary[job[c].asked] = e) \/ job[c].asked = None
            BY <1>21, <1>c DEF UpsertRow, AskedOK, Owns, UuidLabels, e
          <6> QED
            BY <4>1, <6>1
        <5> QED
          BY <3>1, <5>1 DEF AskedOK
      <4>8. \A d \in Callers : d # c /\ inserted[d] # None =>
              inserted[d] \notin users' /\ \A v \in users' : primary'[v] # job[d].email
        <5> SUFFICES ASSUME NEW d \in Callers, d # c, inserted[d] # None
                    PROVE  inserted[d] \notin users' /\ \A v \in users' : primary'[v] # job[d].email
          OBVIOUS
        <5>1. inserted[d] \notin users /\ \A v \in users : primary[v] # job[d].email
          BY <1>c DEF InsertedOK
        <5>2. inserted[d] # u /\ job[d].email # e
          BY <3>3, <4>1 DEF OwnerInv, CallersInv, Apart, e
        <5> QED
          BY <5>1, <5>2, <4>1, <4>2, <4>5
      <4> QED
        BY <2>i, <3>1, <4>4, <4>5, <4>6, <4>7, <4>8, Grows
    <3> QED
      BY <3>2, <3>3
  <2> QED
    BY <1>21, <2>1, <2>2 DEF UpsertRow
<1>22. ASSUME NEW c \in Callers, FindUuid(c) PROVE OwnerInv'
  <2>d. DataInv' /\ UNCHANGED <<users, primary, inserted>>
    BY <1>22, <1>0, DataSame DEF FindUuid, Keep
  <2>e. inserted[c] = None
    BY <1>22, <1>c DEF FindUuid, InsertedOK
  <2>1. pc'[c] \in {"done", "insertUuid"} /\ \A d \in Callers : d # c => pc'[d] = pc[d]
    BY <1>22, <1>0 DEF FindUuid, Goto, CallerTypes
  <2>2. job' = job
    BY <1>22 DEF FindUuid
  <2>3. FoundOK(c)'
    BY <1>22, <1>k, <2>1, <2>2 DEF FindUuid, JobKnown, FoundOK
  <2>4. AskedOK(c)'
    BY <1>22, <1>c, <2>d, <2>1, <2>2, AskedKept DEF FindUuid, AskedOK, UuidLabels,
      CanonicalLabels
  <2>5. InsertedOK(c)' /\ OthersStay(c)
    BY <2>d, <2>e, <2>1, <2>2 DEF InsertedOK, OthersStay
  <2> QED
    BY <2>d, <2>e, <2>3, <2>4, <2>5, Keeps
<1>23. ASSUME NEW c \in Callers, InsertUuid(c) PROVE OwnerInv'
  <2>e. /\ inserted[c] = None /\ job[c].user \in Users /\ job[c].email = None
        /\ \A d \in Callers : inserted[d] # job[c].user
    BY <1>23, <1>c, <1>k DEF InsertUuid, InsertedOK, JobKnown
  <2>1. /\ pc'[c] = "done" /\ users' = users \union {job[c].user}
        /\ UNCHANGED <<job, primary, mail, slack, inserted>> /\ OthersStay(c)
    BY <1>23, <1>0 DEF InsertUuid, Goto, OthersStay, CallerTypes
  <2>2. DataInv'
    BY <1>0, <2>1 DEF DataInv, Owns
  <2>3. FoundOK(c)' /\ InsertedOK(c)'
    BY <2>e, <2>1 DEF FoundOK, InsertedOK
  <2>4. AskedOK(c)'
    BY <1>23, <1>c, <2>1 DEF InsertUuid, AskedOK, UuidLabels, CanonicalLabels
  <2>5. \A d \in Callers : d # c /\ inserted[d] # None =>
          inserted[d] \notin users' /\ \A v \in users' : primary'[v] # job[d].email
    <3> SUFFICES ASSUME NEW d \in Callers, inserted[d] # None
                PROVE  inserted[d] \notin users' /\ \A v \in users' : primary'[v] # job[d].email
      OBVIOUS
    <3>1. inserted[d] \notin users /\ \A v \in users : primary[v] # job[d].email
      BY <1>c DEF InsertedOK
    <3>2. job[d].email \in Emails
      BY <1>c, <1>k DEF InsertedOK, JobKnown, Addressed
    <3>3. primary[job[c].user] # job[d].email
      BY <3>1, <3>2, <1>0, <2>e, NullsDiffer DEF DataInv
    <3> QED
      BY <2>1, <2>e, <3>1, <3>3
  <2> QED
    BY <2>e, <2>1, <2>2, <2>3, <2>4, <2>5, Grows
<1>24. ASSUME NEW c \in Callers, ReadLookup(c) PROVE OwnerInv'
  <2>e. inserted[c] = None
    BY <1>24, <1>c DEF ReadLookup, InsertedOK
  <2>d. DataInv' /\ UNCHANGED <<users, primary, inserted>>
    <3>1. \A v \in Users : slack'[v] = slack[v] \/ slack'[v] = None
      BY <1>24, <1>0 DEF ReadLookup, TableTypes
    <3> QED
      BY <1>24, <1>0, <3>1 DEF ReadLookup, DataInv, Owns
  <2>1. CASE Goto(c, "search") /\ UNCHANGED job
    <3>1. pc'[c] = "search" /\ \A d \in Callers : d # c => pc'[d] = pc[d]
      BY <2>1, <1>0 DEF With, Goto, CallerTypes
    <3>2. job' = job
      BY <2>1
    <3>3. FoundOK(c)'
      BY <2>d, <2>e, <3>1, <3>2 DEF FoundOK, Owns
    <3>4. AskedOK(c)'
      BY <1>24, <1>c, <2>d, <3>1, <3>2, AskedKept DEF ReadLookup, AskedOK,
        UuidLabels, CanonicalLabels
    <3>5. InsertedOK(c)' /\ OthersStay(c)
      BY <2>d, <2>e, <3>1, <3>2 DEF InsertedOK, OthersStay
    <3> QED
      BY <2>d, <2>e, <3>3, <3>4, <3>5, Keeps
  <2>2. CASE \E u \in SlackWith(job[c].email) :
               /\ job' = [job EXCEPT ![c].user = u, ![c].id = slack[u].id]
               /\ Goto(c, IF slack[u].fresh THEN "done"
                          ELSE IF slack[u].id = NotFound THEN "search" ELSE "revalidate")
    <3>0. PICK u \in SlackWith(job[c].email) :
             /\ job' = [job EXCEPT ![c].user = u, ![c].id = slack[u].id]
             /\ Goto(c, IF slack[u].fresh THEN "done"
                        ELSE IF slack[u].id = NotFound THEN "search" ELSE "revalidate")
      BY <2>2
    <3>o. u \in Users /\ Owns(u, job[c].email)
      BY <1>24, <1>0, <1>k, <3>0, RowsOwned DEF ReadLookup, JobKnown, Addressed
    <3>p. slack[u].id \in SlackIds \union {None, NotFound}
      BY <1>0, <3>0, <3>o DEF SlackWith, TableTypes, Row
    <3>q. job' = [job EXCEPT ![c].id = slack[u].id, ![c].user = u]
      BY <1>0, <3>0 DEF CallerTypes, Job
    <3>1. pc'[c] = (IF slack[u].fresh THEN "done"
                        ELSE IF slack[u].id = NotFound THEN "search" ELSE "revalidate") /\ \A d \in Callers : d # c => pc'[d] = pc[d]
      BY <3>0, <1>0 DEF With, Goto, CallerTypes
    <3>2. /\ job'[c].user = u /\ job'[c].email = job[c].email
          /\ job'[c].op = job[c].op /\ job'[c].asked = job[c].asked
          /\ \A d \in Callers : d # c => job'[d] = job[d]
      <4>1. SetsId(c, slack[u].id, u)
        BY <3>o, <3>p, <3>q DEF SetsEmail, SetsId
      <4> QED
        BY <3>o, <3>p, <4>1, IdUserChange
    <3>3. FoundOK(c)'
      BY <2>d, <2>e, <3>1, <3>2, <3>o DEF FoundOK, Owns
    <3>4. AskedOK(c)'
      BY <1>24, <1>c, <2>d, <3>1, <3>2, <3>o, AskedKept DEF ReadLookup, AskedOK,
        UuidLabels, CanonicalLabels
    <3>5. InsertedOK(c)' /\ OthersStay(c)
      BY <2>d, <2>e, <3>1, <3>2 DEF InsertedOK, OthersStay
    <3> QED
      BY <2>d, <2>e, <3>3, <3>4, <3>5, Keeps
  <2> QED
    BY <1>24, <2>1, <2>2 DEF ReadLookup
<1>25. ASSUME NEW c \in Callers, Revalidate(c) PROVE OwnerInv'
  <2>d. DataInv' /\ UNCHANGED <<users, primary, inserted>>
    BY <1>25, <1>0, DataFresh DEF Revalidate, Checked
  <2>e. inserted[c] = None
    BY <1>25, <1>c DEF Revalidate, InsertedOK
  <2>1. pc'[c] \in {"done", "search"} /\ job' = job /\ OthersStay(c)
    BY <1>25, <1>0 DEF Revalidate, Goto, OthersStay, CallerTypes
  <2>2. FoundOK(c)' /\ InsertedOK(c)'
    BY <1>25, <1>c, <2>d, <2>e, <2>1 DEF Revalidate, FoundOK, InsertedOK, Owns
  <2>3. AskedOK(c)'
    BY <1>25, <1>c, <2>1 DEF Revalidate, AskedOK, CanonicalLabels, UuidLabels
  <2> QED
    BY <2>d, <2>e, <2>1, <2>2, <2>3, Keeps
<1>26. ASSUME NEW c \in Callers, Search(c) PROVE OwnerInv'
  <2>d. DataInv' /\ UNCHANGED <<users, primary, inserted>>
    BY <1>26, <1>0, DataSame DEF Search, Keep
  <2>e. inserted[c] = None
    BY <1>26, <1>c DEF Search, InsertedOK
  <2>1. PICK s \in SlackIds \union {None, NotFound} :
          job' = [job EXCEPT ![c].id = s, ![c].user = None]
    BY <1>26 DEF Search
  <2>2. /\ job'[c].user = None /\ job'[c].email = job[c].email
        /\ job'[c].op = job[c].op /\ job'[c].asked = job[c].asked
        /\ \A d \in Callers : d # c => job'[d] = job[d]
    <3>1. SetsId(c, s, None)
      BY <2>1 DEF SetsId
    <3> QED
      BY <3>1, IdUserChange
  <2>3. pc'[c] = "findMapping" /\ OthersStay(c)
    BY <1>26, <1>0, <2>2 DEF Search, Goto, OthersStay, CallerTypes
  <2>4. FoundOK(c)' /\ InsertedOK(c)'
    BY <2>d, <2>e, <2>3 DEF FoundOK, InsertedOK
  <2>5. AskedOK(c)'
    BY <1>26, <1>c, <2>2, <2>3 DEF Search, AskedOK, CanonicalLabels, UuidLabels
  <2> QED
    BY <2>d, <2>e, <2>3, <2>4, <2>5, Keeps
<1>27. ASSUME NEW c \in Callers, CallFails(c) PROVE OwnerInv'
  <2>d. DataInv' /\ UNCHANGED <<users, primary>>
    BY <1>27, <1>0, DataSame DEF CallFails
  <2>i. inserted'[c] = None /\ \A d \in Callers : d # c => inserted'[d] = inserted[d]
    BY <1>27, <1>0 DEF CallFails, CallerTypes
  <2>p. Passed(c) \in {"profile", "known", "search", "done", "failed"}
    BY DEF Passed
  <2>q. /\ pc[c] = "validate" => Passed(c) = "profile"
        /\ pc[c] = "revalidate" => Passed(c) = "search"
        /\ (job[c].op # "lookup" /\ pc[c] \notin
               {"cached", "validate", "profile", "lookup", "revalidate"}) => Passed(c) = "failed"
    <3>1. pc[c] = "validate" => Passed(c) = "profile"
      BY DEF Passed
    <3>2. pc[c] = "revalidate" => Passed(c) = "search"
      BY DEF Passed
    <3>3. ASSUME job[c].op # "lookup",
                pc[c] \notin {"cached", "validate", "profile", "lookup", "revalidate"}
         PROVE  Passed(c) = "failed"
      BY <3>3 DEF Passed
    <3> QED
      BY <3>1, <3>2, <3>3
  <2>1. pc'[c] = Passed(c) /\ \A d \in Callers : d # c => pc'[d] = pc[d]
    BY <1>27, <1>0 DEF CallFails, Goto, CallerTypes
  <2>2. /\ job'[c].user = None /\ job'[c].email = (IF pc[c] = "validate" THEN None ELSE job[c].email)
        /\ job'[c].op = job[c].op /\ job'[c].asked = job[c].asked
        /\ \A d \in Callers : d # c => job'[d] = job[d]
    <3> DEFINE e == IF pc[c] = "validate" THEN None ELSE job[c].email
    <3>1. e \in Emails \union {None}
      BY <1>0 DEF CallerTypes, Job
    <3>2. job' = [job EXCEPT ![c].email = e, ![c].user = None]
      BY <1>27, <1>0 DEF CallFails, CallerTypes, Job
    <3> HIDE DEF e
    <3>3. /\ job'[c].user = None /\ job'[c].email = e
          /\ job'[c].op = job[c].op /\ job'[c].asked = job[c].asked
          /\ \A d \in Callers : d # c => job'[d] = job[d]
      <4>1. SetsEmail(c, e, None)
        BY <3>2 DEF SetsEmail
      <4> QED
        BY <1>k, <3>1, <4>1, EmailUserChange
    <3> QED
      BY <3>3 DEF e
  <2>3. FoundOK(c)' /\ InsertedOK(c)'
    BY <2>p, <2>1, <2>2, <2>i DEF FoundOK, InsertedOK
  <2>4. AskedOK(c)'
    <3>1. UNCHANGED <<users, primary>> /\ AskedOK(c)
      BY <1>27, <1>c, <2>d DEF CallFails
    <3>2. pc[c] \notin {"idle", "done", "failed"}
      BY <1>27 DEF CallFails
    <3>3. job[c].op = "canonical" /\ job[c].asked # None => pc'[c] = "failed" /\ job'[c].email = job[c].email
      BY <3>1, <3>2, <2>q, <2>1, <2>2 DEF AskedOK, CanonicalLabels
    <3>4. job[c].op = "uuid" /\ job[c].asked # None => pc'[c] = "failed"
      BY <3>1, <3>2, <2>q, <2>1, <2>2 DEF AskedOK, UuidLabels
    <3> QED
      BY <3>1, <3>3, <3>4, <2>2, AskedKept DEF CanonicalLabels, UuidLabels
  <2>5. OthersStay(c)
    BY <2>1, <2>2 DEF OthersStay
  <2> QED
    BY <2>d, <2>i, <2>3, <2>4, <2>5, Keeps
<1>28. ASSUME NEW c \in Callers, CheckFails(c) PROVE OwnerInv'
  <2>d. DataInv' /\ UNCHANGED <<users, primary>>
    BY <1>28, <1>0, DataFresh DEF CheckFails, Checked
  <2>i. inserted'[c] = None /\ \A d \in Callers : d # c => inserted'[d] = inserted[d]
    BY <1>28, <1>c DEF CheckFails, InsertedOK
  <2>p. Passed(c) \in {"profile", "known", "search", "done", "failed"}
    BY DEF Passed
  <2>q. /\ pc[c] = "validate" => Passed(c) = "profile"
        /\ pc[c] = "revalidate" => Passed(c) = "search"
        /\ (job[c].op # "lookup" /\ pc[c] \notin
               {"cached", "validate", "profile", "lookup", "revalidate"}) => Passed(c) = "failed"
    <3>1. pc[c] = "validate" => Passed(c) = "profile"
      BY DEF Passed
    <3>2. pc[c] = "revalidate" => Passed(c) = "search"
      BY DEF Passed
    <3>3. ASSUME job[c].op # "lookup",
                pc[c] \notin {"cached", "validate", "profile", "lookup", "revalidate"}
         PROVE  Passed(c) = "failed"
      BY <3>3 DEF Passed
    <3> QED
      BY <3>1, <3>2, <3>3
  <2>1. pc'[c] = Passed(c) /\ \A d \in Callers : d # c => pc'[d] = pc[d]
    BY <1>28, <1>0 DEF CheckFails, Goto, CallerTypes
  <2>2. /\ job'[c].user = job[c].user /\ job'[c].email = (IF pc[c] = "validate" THEN None ELSE job[c].email)
        /\ job'[c].op = job[c].op /\ job'[c].asked = job[c].asked
        /\ \A d \in Callers : d # c => job'[d] = job[d]
    <3> DEFINE e == IF pc[c] = "validate" THEN None ELSE job[c].email
    <3>1. e \in Emails \union {None}
      BY <1>0 DEF CallerTypes, Job
    <3>2. job' = [job EXCEPT ![c].email = e, ![c].user = job[c].user]
      BY <1>28, <1>0 DEF CheckFails, CallerTypes, Job
    <3> HIDE DEF e
    <3>3. /\ job'[c].user = job[c].user /\ job'[c].email = e
          /\ job'[c].op = job[c].op /\ job'[c].asked = job[c].asked
          /\ \A d \in Callers : d # c => job'[d] = job[d]
      <4>1. SetsEmail(c, e, job[c].user)
        BY <3>2 DEF SetsEmail
      <4> QED
        BY <1>k, <3>1, <4>1, EmailUserChange
    <3> QED
      BY <3>3 DEF e
  <2>3. FoundOK(c)' /\ InsertedOK(c)'
    BY <2>p, <1>28, <2>1, <2>2, <2>i, <2>q DEF CheckFails, FoundOK, InsertedOK
  <2>4. AskedOK(c)'
    <3>1. UNCHANGED <<users, primary>> /\ AskedOK(c)
      BY <1>28, <1>c, <2>d DEF CheckFails
    <3>2. pc[c] \notin {"idle", "done", "failed"}
      BY <1>28 DEF CheckFails
    <3>3. job[c].op = "canonical" /\ job[c].asked # None => pc'[c] = "failed" /\ job'[c].email = job[c].email
      BY <3>1, <3>2, <2>q, <2>1, <2>2 DEF AskedOK, CanonicalLabels
    <3>4. job[c].op = "uuid" /\ job[c].asked # None => pc'[c] = "failed"
      BY <3>1, <3>2, <2>q, <2>1, <2>2 DEF AskedOK, UuidLabels
    <3> QED
      BY <3>1, <3>3, <3>4, <2>2, AskedKept DEF CanonicalLabels, UuidLabels
  <2>5. OthersStay(c)
    BY <2>1, <2>2 DEF OthersStay
  <2> QED
    BY <2>d, <2>i, <2>3, <2>4, <2>5, Keeps
<1>29. ASSUME ProfileChanges PROVE OwnerInv'
  <2>1. DataInv' /\ UNCHANGED <<users, primary, pc, job, inserted>>
    BY <1>29, <1>0, DataSame DEF ProfileChanges
  <2> QED
    BY <2>1, OwnerSame
<1>30. ASSUME ValidationAges PROVE OwnerInv'
  <2>1. \A v \in Users : slack'[v] # None => slack[v] # None /\ slack'[v].email = slack[v].email
    <3>1. PICK u \in Users : slack[u] # None /\ slack' = [slack EXCEPT ![u].fresh = FALSE]
      BY <1>30 DEF ValidationAges
    <3>2. slack[u] \in Row
      BY <1>0, <3>1 DEF TableTypes
    <3>3. slack'[u] = [slack[u] EXCEPT !.fresh = FALSE] /\ \A v \in Users : v # u => slack'[v] = slack[v]
      BY <1>0, <3>1 DEF TableTypes
    <3> QED
      BY <3>1, <3>2, <3>3 DEF Row
  <2>2. DataInv' /\ UNCHANGED <<users, primary, pc, job, inserted>>
    BY <1>30, <1>0, <2>1 DEF ValidationAges, DataInv, Owns
  <2> QED
    BY <2>2, OwnerSame
<1>31. CASE UNCHANGED vars
  <2>1. DataInv' /\ UNCHANGED <<users, primary, pc, job, inserted>>
    BY <1>31, <1>0, DataSame DEF vars
  <2> QED
    BY <2>1, OwnerSame
<1> QED
  BY <1>1, <1>2, <1>3, <1>4, <1>5, <1>6, <1>7, <1>8, <1>9, <1>10, <1>11, <1>12,
    <1>13, <1>14, <1>15, <1>16, <1>17, <1>18, <1>19, <1>20, <1>21, <1>22, <1>23,
    <1>24, <1>25, <1>26, <1>27, <1>28, <1>29, <1>30, <1>31 DEF Next, CallerStep

\* All rows that carry an address belong to one user, for every number of callers,
\* users and faults and whatever the members do to their profiles.
THEOREM OneOwner == Spec => []OneUserPerAddress
<1>1. TypeInv /\ OwnerInv => OneUserPerAddress
  BY DEF TypeInv, TableTypes, OwnerInv, DataInv, OneUserPerAddress, Owns
<1>2. Init => TypeInv /\ OwnerInv
  BY TypeInit, OwnerInit
<1>3. (TypeInv /\ OwnerInv) /\ [Next]_vars => (TypeInv /\ OwnerInv)'
  BY TypeNext, OwnerNext
<1> QED
  BY <1>1, <1>2, <1>3, PTL DEF Spec

\* Whoever a caller ends with owns the address it has resolved, and the name the
\* request manager gives a user comes back as that user.
THEOREM OwnerFound == Spec => []ResolvedIsOwner
<1>1. TypeInv /\ OwnerInv => ResolvedIsOwner
  BY DEF OwnerInv, CallersInv, FoundOK, AskedOK, ResolvedIsOwner, Owns
<1>2. Init => TypeInv /\ OwnerInv
  BY TypeInit, OwnerInit
<1>3. (TypeInv /\ OwnerInv) /\ [Next]_vars => (TypeInv /\ OwnerInv)'
  BY TypeNext, OwnerNext
<1> QED
  BY <1>1, <1>2, <1>3, PTL DEF Spec


==============================================================================
