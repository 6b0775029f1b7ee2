---------------------------- MODULE Conversation ----------------------------
(***************************************************************************)
(* How the agent service answers the messages of one session: which agent  *)
(* has the conversation, how that agent's flow moves over a message, and   *)
(* when the conversation goes over to another agent or starts anew.        *)
(*                                                                         *)
(* Three stores have to agree: the session row (agent and thread), the     *)
(* checkpoint of the thread, written after every node of the flow, and the *)
(* conversation the pod has in memory for the length of one turn.  A crash *)
(* or a failing statement between two of them leaves them apart.           *)
(*                                                                         *)
(* The advisory lock of the session keeps its turns apart, so one turn is  *)
(* under way at a time.  A language model may answer anything.             *)
(*                                                                         *)
(* A checkpoint no row refers to any more is never read again, so it is    *)
(* taken as blank and its name may be used for the next new thread.        *)
(*                                                                         *)
(* Slips (see SessionSerialization): FinishedAlways, StoreForgotten,        *)
(* ResumeWhereStopped, NoLimit.                                            *)
(***************************************************************************)
EXTENDS Naturals, Sequences

CONSTANTS
  Agents, NoAgent,
  Router,         \* DEFAULT_AGENT_ID
  TicketEntry,    \* entry_agent_id of the per-ticket policy
  SessionKinds,   \* the sessions of an instance: "chat", "ticket"
  Flows,          \* the state machine of each agent
  Texts,          \* what a language model may answer
  Contains,       \* <<t, p>>: text t contains the phrase p
  Names,          \* the agent whose name a text contains, or NoAgent
  Bare,           \* texts that are a completion marker and nothing else
  Marked,         \* texts with a completion marker in them
  Inputs,         \* what a user may write: "ask", "reset", "quit"
  Threads, NoThread,
  MaxTurns, RecursionLimit, MaxFaults

\* A waiting node waits for the user; "next" is where his message leads.  An
\* "llm" or "intent" node asks the model, and the first branch that fires says
\* what follows.  A "validator" goes to "next" or, if invalid, to "otherwise".
Branches == [on: SUBSET STRING, not: SUBSET STRING, below: Nat, to: STRING,
             decide: Agents \union {NoAgent, "keep"}, back: BOOLEAN,
             tries: {"keep", "zero", "bump"}, says: Texts \union {"nothing", "asks"}]
Nodes == [type: {"waiting", "llm", "intent", "validator", "terminal"}, next: STRING,
          branches: Seq(Branches), otherwise: STRING, fails: STRING]

NoNode == "none"

Targets(n) == {n.next, n.otherwise, n.fails} \union {n.branches[i].to : i \in DOMAIN n.branches}

\* Every node leads to nodes of its flow, and only the end is a terminal one.
WellFormed(flow) ==
  /\ DOMAIN flow.nodes \subseteq STRING /\ NoNode \notin DOMAIN flow.nodes
  /\ {flow.initial, "end"} \subseteq DOMAIN flow.nodes
  /\ \A n \in DOMAIN flow.nodes :
       /\ flow.nodes[n] \in Nodes
       /\ Targets(flow.nodes[n]) \subseteq DOMAIN flow.nodes
       /\ flow.nodes[n].type = "terminal" <=> n = "end"
  /\ flow.resets \in BOOLEAN
  /\ flow.clears \subseteq {"decision", "back", "tries"}

ASSUME ConversationAssumption ==
  /\ {Router, TicketEntry} \subseteq Agents
  /\ NoAgent \notin Agents /\ "keep" \notin Agents
  /\ NoThread \notin Threads
  /\ \A t, u \in Threads \union {NoThread} : Threads \ {t, u} # {}
  /\ SessionKinds \subseteq {"chat", "ticket"}
  /\ Inputs \subseteq {"ask", "reset", "quit"}
  /\ "plain" \in Texts /\ "none" \notin Texts
  /\ Names \in [Texts -> Agents \union {NoAgent}] /\ Names["plain"] = NoAgent
  /\ Bare \subseteq Marked /\ Marked \subseteq Texts
  /\ RecursionLimit \in Nat \ {0}
  /\ DOMAIN Flows = Agents
  /\ \A a \in Agents : WellFormed(Flows[a])

VARIABLES
  session,  \* the kind of the session
  row,      \* request_sessions: agent, thread, status
  threads,  \* the checkpoint of each thread
  conv,     \* the conversation in the pod's memory: agent, thread
  pc,       \* where the turn is; "idle" between two turns
  turn,     \* input, text ("input" or "hi"), and what its next steps depend on
  node,     \* the node of the flow that runs next
  steps,    \* supersteps of the run
  reply,    \* what the flow has answered
  spoke,    \* has the model answered since the message was added?
  decided,  \* history: has a classification of the conversation chosen an agent
            \* since the routing last looked?
  skipped,  \* history: has a message of this turn led straight to the end?
  answer,   \* history: how the last turn ended
  turns, faults

progress == <<node, steps>>
history  == <<decided, skipped, answer>>
vars == <<session, row, threads, conv, pc, turn, progress, reply, spoke, history,
          turns, faults>>

Blank == [at |-> NoNode, waiting |-> NoNode, human |-> 0, consumed |-> 0,
          decision |-> NoAgent, back |-> FALSE, tries |-> 0, last |-> "none"]
NoConversation == [agent |-> NoAgent, thread |-> NoThread]
NoTurn == [input |-> "ask", text |-> "input", routed |-> FALSE, target |-> NoAgent,
           by |-> "nobody", after |-> "create", retried |-> FALSE]
NoReply == [text |-> "none", ended |-> FALSE, error |-> FALSE]
NoAnswer == [kind |-> "none", agent |-> NoAgent, thread |-> NoThread,
             new |-> TRUE, skipped |-> FALSE]

-----------------------------------------------------------------------------
(***************************************************************************)
(* The policy of the session.                                              *)
(***************************************************************************)
EntryAgent == IF session = "ticket" THEN TicketEntry ELSE Router
EntryTier == {EntryAgent, Router}
ReturnAllowed == session # "ticket"
IsSpecialist(a) == a \notin EntryTier

\* create_session and get_or_create_ticket_session name the entry agent.
Init ==
  /\ session \in SessionKinds
  /\ row = [agent |-> EntryAgent, thread |-> NoThread, status |-> "ACTIVE"]
  /\ threads = [t \in Threads |-> Blank]
  /\ conv = NoConversation
  /\ pc = "idle" /\ turn = NoTurn
  /\ node = NoNode /\ steps = 0
  /\ reply = NoReply
  /\ spoke = FALSE /\ decided = FALSE /\ skipped = FALSE
  /\ answer = NoAnswer
  /\ turns = 0 /\ faults = 0

Fault == faults < MaxFaults /\ faults' = faults + 1

Current == threads[conv.thread]
Flow == Flows[conv.agent]
Node == Flow.nodes[node]
SetCurrent(c) == threads' = [threads EXCEPT ![conv.thread] = c]

\* A new conversation with the agent, on a thread of its own.
NewConversation(a) ==
  LET free == CHOOSE t \in Threads : t \notin {row.thread, conv.thread}
  IN  /\ conv' = [agent |-> a, thread |-> free]
      /\ threads' = [threads EXCEPT ![free] = Blank]
      /\ decided' = FALSE

End(kind) ==
  /\ pc' = "idle"
  /\ conv' = NoConversation
  /\ turn' = NoTurn /\ node' = NoNode /\ steps' = 0 /\ reply' = NoReply
  /\ spoke' = FALSE /\ decided' = decided
  /\ answer' = [kind |-> kind, agent |-> conv.agent, thread |-> conv.thread,
                new |-> spoke, skipped |-> skipped]
  /\ skipped' = FALSE

-----------------------------------------------------------------------------
(***************************************************************************)
(* The start of a turn.                                                    *)
(***************************************************************************)
\* The request manager finds the session again: the row of a ticket comes back
\* as it was, a chat that is no longer active gets a new row.
RowOfNextTurn ==
  IF session = "ticket" THEN [row EXCEPT !.status = "ACTIVE"]
  ELSE IF row.status = "ACTIVE" THEN row
  ELSE [agent |-> EntryAgent, thread |-> NoThread, status |-> "ACTIVE"]

\* A checkpoint the row does not refer to is never read again.
Begin(input) ==
  /\ pc = "idle"
  /\ turns < MaxTurns
  /\ turns' = turns + 1
  /\ row' = RowOfNextTurn
  /\ threads' = [t \in Threads |-> IF t = row'.thread THEN threads[t] ELSE Blank]
  /\ answer' = NoAnswer
  /\ turn' = [NoTurn EXCEPT !.input = input]
  /\ pc' = IF input = "reset" THEN "clear" ELSE "resume"
  /\ UNCHANGED <<session, conv, progress, reply, spoke, decided, skipped, faults>>

\* update_session takes None for "leave it alone", so agent and thread stay.
Clear ==
  /\ pc = "clear"
  /\ row' = [row EXCEPT !.status = "INACTIVE"]
  /\ End("cleared")
  /\ UNCHANGED <<session, threads, turns, faults>>

ClearFails ==
  /\ pc = "clear"
  /\ Fault
  /\ End("error")
  /\ UNCHANGED <<session, row, threads, turns>>

OfRow == [agent |-> row.agent, thread |-> row.thread]

\* A specialist's conversation that has ended goes back to the router.
FinishedAlways(c) == IsSpecialist(c.agent) /\ threads[c.thread].at = "end"
Finished(c) ==
  ReturnAllowed /\ IsSpecialist(c.agent) /\ threads[c.thread].at = "end"

Resume ==
  /\ pc = "resume"
  /\ IF row.thread = NoThread \/ row.agent = NoAgent
     THEN pc' = "create" /\ UNCHANGED <<conv, turn>>
     ELSE /\ conv' = OfRow
          /\ IF Finished(OfRow)
             THEN pc' = "reset" /\ turn' = [turn EXCEPT !.after = "create"]
             ELSE pc' = "flag" /\ UNCHANGED turn
  /\ UNCHANGED <<session, row, threads, progress, reply, spoke, history, turns, faults>>

\* Any exception on the way makes a new conversation with the row's agent.
ResumeFails ==
  /\ pc = "resume" /\ row.thread # NoThread
  /\ Fault
  /\ pc' = "create"
  /\ UNCHANGED <<session, row, threads, conv, turn, progress, reply, spoke, history,
                 turns>>

AgentOfRow == IF row.agent = NoAgent THEN Router ELSE row.agent

Create ==
  /\ pc = "create"
  /\ NewConversation(AgentOfRow)
  /\ pc' = "store"
  /\ UNCHANGED <<session, row, turn, progress, reply, spoke, skipped, answer, turns,
                 faults>>

\* The service tries once more when a turn has ended without an agent.
CreateFails ==
  /\ pc = "create"
  /\ Fault
  /\ IF turn.retried
     THEN End("error")
     ELSE /\ turn' = [NoTurn EXCEPT !.input = turn.input, !.retried = TRUE]
          /\ pc' = "resume"
          /\ UNCHANGED <<conv, progress, reply, spoke, history>>
  /\ UNCHANGED <<session, row, threads, turns>>

\* What becomes of the row when the conversation is new.
StoreForgotten == IF turn.routed THEN row
                  ELSE [row EXCEPT !.agent = conv.agent, !.thread = conv.thread]
Stored == [row EXCEPT !.agent = conv.agent, !.thread = conv.thread]
AfterStore == IF turn.routed THEN "send" ELSE "flag"

Store ==
  /\ pc = "store"
  /\ row' = Stored
  /\ pc' = AfterStore
  /\ UNCHANGED <<session, threads, conv, turn, progress, reply, spoke, history, turns,
                 faults>>

\* The error is logged and the turn goes on.
StoreFails ==
  /\ pc = "store"
  /\ Fault
  /\ pc' = AfterStore
  /\ UNCHANGED <<session, row, threads, conv, turn, progress, reply, spoke, history,
                 turns>>

\* An earlier turn has left the flag that the user is to go back.
BackWanted == Current.back /\ (ReturnAllowed \/ ~IsSpecialist(conv.agent))

Flag ==
  /\ pc = "flag"
  /\ IF BackWanted
     THEN pc' = "reset" /\ turn' = [turn EXCEPT !.after = "resume"]
     ELSE pc' = "shield" /\ UNCHANGED turn
  /\ UNCHANGED <<session, row, threads, conv, progress, reply, spoke, history, turns,
                 faults>>

\* The conversation in memory is given up before the row is.
Reset ==
  /\ pc = "reset"
  /\ row' = IF row.status = "ACTIVE"
            THEN [row EXCEPT !.agent = NoAgent, !.thread = NoThread] ELSE row
  /\ conv' = NoConversation
  /\ pc' = turn.after
  /\ UNCHANGED <<session, threads, turn, progress, reply, spoke, history, turns, faults>>

ResetFails ==
  /\ pc = "reset"
  /\ Fault
  /\ conv' = NoConversation
  /\ pc' = turn.after
  /\ UNCHANGED <<session, row, threads, turn, progress, reply, spoke, history, turns>>

-----------------------------------------------------------------------------
(***************************************************************************)
(* One message goes through the flow.                                      *)
(***************************************************************************)
\* The guardrail, when there is one, may block a text or be down.
Blocked == End("refused") \/ End("error")

Shield ==
  /\ pc = "shield"
  /\ \/ pc' = "send" /\ UNCHANGED <<conv, turn, progress, reply, spoke, history>>
     \/ Blocked
  /\ UNCHANGED <<session, row, threads, turns, faults>>

\* A flow may bring its own first message, which the user's gives way to.  A
\* message that is read by the first node need not be read by a waiting one.
Added(c) ==
  IF c.human > 0 THEN [c EXCEPT !.human = @ + 1]
  ELSE [c EXCEPT !.human = 1, !.at = Flow.initial,
                 !.consumed = IF Flow.nodes[Flow.initial].type = "waiting" THEN 0 ELSE 1]

\* The waiting node the last turn has stopped at, or else the first node.
ResumeWhereStopped(c) == IF c.at = NoNode THEN Flow.initial ELSE c.at
FirstNode(c) == IF c.waiting = NoNode THEN Flow.initial ELSE c.waiting

Send ==
  /\ pc = "send"
  /\ turn.input # "quit" \/ turn.text # "input"
  /\ SetCurrent(Added(Current))
  /\ node' = FirstNode(Current)
  /\ steps' = 1
  /\ spoke' = FALSE
  /\ pc' = "node"
  /\ UNCHANGED <<session, row, conv, turn, reply, history, turns, faults>>

\* "quit", "exit" and "q" are answered without the flow.
Quit ==
  /\ pc = "send"
  /\ turn.input = "quit" /\ turn.text = "input"
  /\ reply' = [NoReply EXCEPT !.text = "plain"]
  /\ pc' = IF turn.routed THEN "answer" ELSE "route"
  /\ UNCHANGED <<session, row, threads, conv, turn, progress, spoke, history, turns,
                 faults>>

\* The checkpoints cannot be read or written, or the flow runs out of supersteps.
Interrupted ==
  /\ reply' = [text |-> "plain", ended |-> FALSE, error |-> TRUE]
  /\ pc' = IF turn.routed THEN "answer" ELSE "route"
  /\ UNCHANGED <<session, row, threads, conv, turn, progress, spoke, history, turns>>

CheckpointFails ==
  /\ pc \in {"send", "node", "reply"}
  /\ Fault
  /\ Interrupted

NoLimit == RecursionLimit + 1
Limit == RecursionLimit
OutOfSteps ==
  /\ pc = "node"
  /\ steps = Limit
  /\ Interrupted
  /\ UNCHANGED faults

MayRun == pc = "node" /\ steps < Limit
\* Counted round, as a run without a limit would be.
Superstep == steps' = (steps % RecursionLimit) + 1

GoTo(n, c) ==
  /\ SetCurrent([c EXCEPT !.at = node])
  /\ node' = n
  /\ Superstep
  /\ UNCHANGED <<session, row, conv, pc, turn, reply, answer, turns, faults>>

\* Stop here; a waiting node is where the next message goes on.
Stop(c) ==
  /\ SetCurrent([c EXCEPT !.at = node])
  /\ pc' = "reply"
  /\ UNCHANGED <<session, row, conv, turn, progress, reply, spoke, history, turns,
                 faults>>

\* The first waiting node of a run takes the message.
Unread(c) == c.human > c.consumed

TakeMessage ==
  /\ MayRun /\ Node.type = "waiting" /\ Unread(Current)
  /\ GoTo(Node.next, [Current EXCEPT !.consumed = Current.human, !.waiting = NoNode])
  /\ skipped' = (skipped \/ Node.next = "end")
  /\ UNCHANGED <<spoke, decided>>

Wait ==
  /\ MayRun /\ Node.type = "waiting" /\ ~Unread(Current)
  /\ Stop([Current EXCEPT !.waiting = node])

Terminal ==
  /\ MayRun /\ Node.type = "terminal"
  /\ Stop(Current)

\* A branch fires on a phrase of its list, unless an excluded phrase is there
\* too or its counter has reached the bound.
Has(t, phrases) == \E p \in phrases : <<t, p>> \in Contains
Fires(b, t, c) == /\ Has(t, b.on) /\ ~Has(t, b.not)
                  /\ b.below > 0 => c.tries < b.below
FirstFiring(t, c) ==
  CHOOSE i \in DOMAIN Node.branches :
    /\ Fires(Node.branches[i], t, c)
    /\ \A j \in 1 .. i - 1 : ~Fires(Node.branches[j], t, c)
SomeFires(t, c) == \E i \in DOMAIN Node.branches : Fires(Node.branches[i], t, c)

\* The actions of a branch after the model has said t.
Acted(b, t, c) ==
  [c EXCEPT !.decision = IF b.decide = "keep" THEN @ ELSE b.decide,
            !.back = @ \/ b.back,
            !.tries = CASE b.tries = "zero" -> 0
                        [] b.tries = "bump" -> @ + 1
                        [] OTHER -> @,
            !.last = IF b.says \in Texts THEN b.says ELSE t]

Take(b, t) ==
  /\ GoTo(b.to, Acted(b, t, Current))
  /\ decided' = (decided \/ b.decide \in Agents)
  /\ UNCHANGED skipped

Say(n, t) ==
  /\ GoTo(n, [Current EXCEPT !.last = t])
  /\ spoke' = TRUE
  /\ UNCHANGED <<decided, skipped>>

\* A refusal of a moderation shield is an answer like any other, and so is the
\* text of an error while the answer is read.
Refusal == "plain"
ErrorText == "plain"
Responses == Texts \union {Refusal, ErrorText}

\* Empty answers, errors and exceptions are retried; then an apology is the
\* answer, and the flow goes where the node says.
NoResponse ==
  /\ MayRun /\ Node.type \in {"llm", "intent", "validator"}
  /\ Node.type # "llm" => ~spoke
  /\ Say(Node.fails, "plain")

Process ==
  /\ MayRun /\ Node.type = "llm"
  /\ \E t \in Responses :
       IF SomeFires(t, Current)
       THEN Take(Node.branches[FirstFiring(t, Current)], t) /\ spoke' = TRUE
       ELSE Say(Node.otherwise, t)

\* An intent is only classified when the last message is the user's, and what
\* the model has said does not become a message.
Classify ==
  /\ MayRun /\ Node.type = "intent" /\ ~spoke
  /\ \E t \in Responses :
       IF SomeFires(t, Current)
       THEN LET b == Node.branches[FirstFiring(t, Current)]
            IN  IF b.says = "asks"
                THEN \E u \in Responses : Take(b, u) /\ spoke' = TRUE
                ELSE Take(b, Current.last) /\ spoke' = (b.says \in Texts)
       ELSE /\ GoTo("end", Current)
            /\ skipped' = TRUE
            /\ UNCHANGED <<spoke, decided>>

NothingToClassify ==
  /\ MayRun /\ Node.type = "intent" /\ spoke
  /\ GoTo("end", Current)
  /\ UNCHANGED <<spoke, decided, skipped>>

\* The message is answered first, and a second answer says whether it was valid,
\* is invalid or fails.
Validate ==
  /\ MayRun /\ Node.type = "validator" /\ ~spoke
  /\ \E t \in Responses, n \in {Node.next, Node.otherwise, Node.fails} : Say(n, t)

\* Without a message of the user there is no node to go to, which is an error.
NothingToValidate ==
  /\ MayRun /\ Node.type = "validator" /\ spoke
  /\ Interrupted
  /\ UNCHANGED faults

\* After the end the fields the flow names get their defaults.  Its messages are
\* to be cleared too, but an empty list adds nothing to those that are there.
Cleared(c) ==
  [c EXCEPT !.decision = IF "decision" \in Flow.clears THEN NoAgent ELSE @,
            !.back = @ /\ "back" \notin Flow.clears,
            !.tries = IF "tries" \in Flow.clears THEN 0 ELSE @]

\* The answer is the last message of the model, whenever it was said.
Finish ==
  /\ pc = "reply"
  /\ LET over == Current.at = "end" /\ Flow.resets
     IN  /\ SetCurrent(IF over THEN Cleared(Current) ELSE Current)
         /\ reply' = [text |-> Current.last, ended |-> over, error |-> FALSE]
  /\ pc' = IF turn.routed THEN "answer" ELSE "route"
  /\ UNCHANGED <<session, row, conv, turn, progress, spoke, history, turns, faults>>

-----------------------------------------------------------------------------
(***************************************************************************)
(* Where the conversation goes from here.                                  *)
(***************************************************************************)
\* The decision of the flow, or else an agent that is named in the answer.
Named == IF reply.text \in Texts THEN Names[reply.text] ELSE NoAgent
Chosen == IF Current.decision \in Agents THEN Current.decision ELSE Named

\* A specialist cannot hand over to another one.
Routed ==
  IF /\ IsSpecialist(conv.agent)
     /\ Chosen # conv.agent
     /\ ~(Chosen = Router /\ ReturnAllowed)
  THEN NoAgent ELSE Chosen

GoesBack == Routed = Router /\ IsSpecialist(conv.agent) /\ ReturnAllowed
GoesOn == Routed \notin {NoAgent, Router} /\ ~IsSpecialist(conv.agent)

\* A specialist has completed; nothing is left of the answer without the marker.
Completed ==
  /\ IsSpecialist(conv.agent)
  /\ reply.ended \/ reply.text \in Marked
  /\ reply.text \in Bare \union {"none"}

\* The reset is followed by a "hi" to whoever has the conversation then.
StartOver(after) ==
  /\ turn' = [turn EXCEPT !.text = "hi", !.after = after]
  /\ pc' = "reset"
  /\ UNCHANGED <<session, row, threads, conv, progress, reply, spoke, history, turns,
                 faults>>

RouteBack == pc = "route" /\ GoesBack /\ StartOver("create")
RouteCompleted ==
  /\ pc = "route"
  /\ ~GoesBack /\ ~GoesOn
  /\ Completed /\ ReturnAllowed
  /\ StartOver("resume")

RouteOn ==
  /\ pc = "route"
  /\ GoesOn
  /\ turn' = [turn EXCEPT !.target = Routed,
                          !.by = IF Current.decision \in Agents THEN "decision" ELSE "name"]
  /\ pc' = "handover"
  /\ UNCHANGED <<session, row, threads, conv, progress, reply, spoke, history, turns,
                 faults>>

RouteAnswer ==
  /\ pc = "route"
  /\ ~GoesBack /\ ~GoesOn /\ ~(Completed /\ ReturnAllowed)
  /\ pc' = "answer"
  /\ decided' = FALSE
  /\ UNCHANGED <<session, row, threads, conv, turn, progress, reply, spoke, skipped,
                 answer, turns, faults>>

\* The message goes on to the specialist, in a conversation of its own.
HandOver ==
  /\ pc = "handover"
  /\ NewConversation(turn.target)
  /\ turn' = [turn EXCEPT !.routed = TRUE]
  /\ pc' = "store"
  /\ UNCHANGED <<session, row, progress, reply, spoke, skipped, answer, turns, faults>>

HandOverFails ==
  /\ pc = "handover"
  /\ Fault
  /\ reply' = [text |-> "plain", ended |-> FALSE, error |-> TRUE]
  /\ pc' = "answer"
  /\ UNCHANGED <<session, row, threads, conv, turn, progress, spoke, history, turns>>

AnswerKind == IF reply.error THEN "error"
              ELSE IF turn.input = "quit" /\ turn.text = "input" THEN "quit" ELSE "flow"

\* The guardrail looks at the answer as well.
Answer ==
  /\ pc = "answer"
  /\ End(AnswerKind) \/ Blocked
  /\ UNCHANGED <<session, row, threads, turns, faults>>

\* The pod dies; the request is not finished by anyone.
Crash ==
  /\ pc # "idle"
  /\ Fault
  /\ End("none")
  /\ UNCHANGED <<session, row, threads, turns>>

FlowStep == \/ OutOfSteps \/ TakeMessage \/ Wait \/ Terminal
            \/ NoResponse \/ Process \/ Classify \/ NothingToClassify
            \/ Validate \/ NothingToValidate
TurnStep == \/ Clear \/ Resume \/ Create \/ Store \/ Flag \/ Reset \/ Shield
            \/ Send \/ Quit \/ FlowStep \/ Finish
            \/ RouteBack \/ RouteCompleted \/ RouteOn \/ RouteAnswer
            \/ HandOver \/ Answer
Faults == \/ ClearFails \/ ResumeFails \/ CreateFails \/ StoreFails \/ ResetFails
          \/ CheckpointFails \/ HandOverFails \/ Crash

Next == (\E input \in Inputs : Begin(input)) \/ TurnStep \/ Faults

\* A turn that is under way goes on: a request has a pod of its own.
Spec == Init /\ [][Next]_vars /\ WF_vars(TurnStep)

-----------------------------------------------------------------------------
(***************************************************************************)
(* Properties.                                                             *)
(***************************************************************************)
Checkpoints ==
  [at: STRING \union {NoNode}, waiting: STRING \union {NoNode}, human: Nat, consumed: Nat,
   decision: Agents \union {NoAgent}, back: BOOLEAN, tries: Nat,
   last: Texts \union {"none"}]
ConversationRefs == [agent: Agents \union {NoAgent}, thread: Threads \union {NoThread}]

\* The variables have their types, what is in memory names an agent and a thread
\* or neither, and a flow that runs is at one of the nodes of its agent.
TypeOK ==
  /\ session \in SessionKinds
  /\ row \in [agent: Agents \union {NoAgent}, thread: Threads \union {NoThread},
              status: {"ACTIVE", "INACTIVE"}]
  /\ threads \in [Threads -> Checkpoints]
  /\ conv \in ConversationRefs
  /\ conv.agent = NoAgent <=> conv.thread = NoThread
  /\ pc \in {"idle", "clear", "resume", "create", "store", "flag", "reset", "shield",
             "send", "node", "reply", "route", "handover", "answer"}
  /\ turn \in [input: {"ask", "reset", "quit"}, text: {"input", "hi"}, routed: BOOLEAN,
               target: Agents \union {NoAgent}, by: {"nobody", "name", "decision"},
               after: {"create", "resume"}, retried: BOOLEAN]
  /\ pc = "node" => node \in DOMAIN Flow.nodes
  /\ steps \in Nat
  /\ reply \in [text: Texts \union {"none"}, ended: BOOLEAN, error: BOOLEAN]
  /\ {spoke, decided, skipped} \subseteq BOOLEAN
  /\ answer.kind \in {"none", "flow", "quit", "error", "refused", "cleared"}
  /\ turns \in Nat /\ faults \in Nat

\* Once a ticket is with a specialist it stays with him: no completion, flag,
\* restart, failing statement or crash, and nothing the model says, makes the row
\* name somebody else (session_manager.py: allow_return_to_router is False).
StaysWithSpecialist ==
  [][~ReturnAllowed /\ row.agent \in Agents \ EntryTier => row'.agent = row.agent]_vars

\* The user is handed over for what he wants now: unless something has failed, a
\* decision that moves the conversation was taken since the routing last looked for
\* one, and never carried out before (routing_decision is never cleared, and
\* _handle_routing reads it every time).
RoutedByFreshDecision ==
  pc = "handover" /\ turn.by = "decision" /\ faults = 0 => decided

\* Without a fault the next turn goes on where this one has ended: the row names
\* the agent and the thread that have answered, over every reset and handover
\* (_update_database_session_state, _reset_conversation_state).
NextTurnContinues ==
  pc = "idle" /\ faults = 0 /\ answer.kind \in {"flow", "quit", "error", "refused"} =>
    row.agent = answer.agent /\ row.thread = answer.thread

\* A flow that has something new to say to every message: a waiting node does not lead
\* to another one, and where the classification itself says nothing a node that asks
\* the model is next.
Responsive(flow) ==
  /\ flow.initial # "end"
  /\ \A n \in DOMAIN flow.nodes :
       LET m == flow.nodes[n] IN
       /\ m.type = "waiting" /\ m.next # "end" => flow.nodes[m.next].type # "waiting"
       /\ m.type = "intent" =>
            \A i \in DOMAIN m.branches :
              m.branches[i].says = "nothing" =>
                flow.nodes[m.branches[i].to].type \notin {"waiting", "terminal"}

\* The answer of the flow is not an old one: the model has said it after it got
\* the message, on a new thread, an old one and one that has been to its end
\* before (send_message).  The exceptions are a waiting node that leads to the end
\* and an intent that no branch knows.
AnswerIsNew == pc = "idle" /\ answer.kind = "flow" => answer.new \/ answer.skipped

\* Every turn comes to its end, whatever the model says and however often it
\* fails: failure transitions that lead back and resets that start over with a
\* "hi" are bounded (handle_responses_message, _create_graph).
EveryTurnEnds == pc # "idle" ~> pc = "idle"

\* What the service says after "reset": "Session cleared. Starting fresh!".
ResetStartsFresh ==
  [][answer.kind = "cleared" /\ pc = "idle" /\ pc' # "idle" => row'.thread = NoThread]_vars
=============================================================================
