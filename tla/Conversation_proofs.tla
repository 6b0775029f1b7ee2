-------------------------- MODULE Conversation_proofs --------------------------
(***************************************************************************)
(* Proofs about Conversation, for every set of agents and every state      *)
(* machine of theirs, whatever the model answers, and for every bound on   *)
(* turns, supersteps and faults.                                           *)
(***************************************************************************)
EXTENDS Conversation, FiniteSetTheorems, WellFoundedInduction, TLAPS

USE DEF progress, history

(***************************************************************************)
(* The flows.                                                              *)
(***************************************************************************)
\* Of some numbers one is the least: of the intervals up to them one has no other
\* inside.
LEMMA LeastIsOne ==
  ASSUME NEW T \in SUBSET Nat, T # {}
  PROVE  \E i \in T : \A j \in T : i <= j
<1> DEFINE All == {1 .. i : i \in T}
<1>1. All \subseteq FiniteSubsetsOf(Nat) /\ All # {}
  <2>1. ASSUME NEW i \in T PROVE 1 .. i \in SUBSET Nat /\ IsFiniteSet(1 .. i)
    BY FS_Interval
  <2> QED
    BY <2>1 DEF FiniteSubsetsOf
<1>2. PICK F \in All : \A G \in All : <<G, F>> \notin StrictSubsetOrdering(Nat)
  <2>1. IsWellFoundedOn(StrictSubsetOrdering(Nat), FiniteSubsetsOf(Nat))
    BY FS_StrictSubsetOrderingWellFounded
  <2> HIDE DEF All
  <2> QED
    BY <2>1, <1>1, WFMin
<1>3. PICK i \in T : F = 1 .. i
  OBVIOUS
<1>4. ASSUME NEW j \in T PROVE i <= j
  <2> SUFFICES ASSUME j < i PROVE FALSE
    OBVIOUS
  <2>1. 1 .. j \subseteq 1 .. i /\ i \in 1 .. i /\ i \notin 1 .. j
    OBVIOUS
  <2>2. 1 .. j \in SUBSET Nat /\ 1 .. i \in SUBSET Nat
    OBVIOUS
  <2>3. <<1 .. j, 1 .. i>> \in StrictSubsetOrdering(Nat)
    BY <2>1, <2>2 DEF StrictSubsetOrdering
  <2> QED
    BY <1>2, <1>3, <2>3
<1> QED
  BY <1>4

\* Every node leads to nodes of its flow.
LEMMA FlowKnown ==
  ASSUME NEW a \in Agents
  PROVE  /\ Flows[a].initial \in DOMAIN Flows[a].nodes
         /\ DOMAIN Flows[a].nodes \subseteq STRING
         /\ "end" \in DOMAIN Flows[a].nodes /\ NoNode \notin DOMAIN Flows[a].nodes
         /\ \A n \in DOMAIN Flows[a].nodes :
              LET m == Flows[a].nodes[n] IN
              /\ m \in Nodes
              /\ {m.next, m.otherwise, m.fails} \subseteq DOMAIN Flows[a].nodes
              /\ \A i \in DOMAIN m.branches : m.branches[i].to \in DOMAIN Flows[a].nodes
<1> DEFINE flow == Flows[a]
<1>1. WellFormed(flow)
  BY ConversationAssumption
<1> HIDE DEF flow
<1>2. /\ DOMAIN flow.nodes \subseteq STRING /\ NoNode \notin DOMAIN flow.nodes
      /\ {flow.initial, "end"} \subseteq DOMAIN flow.nodes
  BY <1>1 DEF WellFormed
<1>3. \A n \in DOMAIN flow.nodes :
         flow.nodes[n] \in Nodes /\ Targets(flow.nodes[n]) \subseteq DOMAIN flow.nodes
  BY <1>1 DEF WellFormed
<1>4. ASSUME NEW m, NEW D, Targets(m) \subseteq D
      PROVE  /\ {m.next, m.otherwise, m.fails} \subseteq D
             /\ \A i \in DOMAIN m.branches : m.branches[i].to \in D
  BY <1>4 DEF Targets
<1>5. \A n \in DOMAIN flow.nodes :
         LET m == flow.nodes[n] IN
         /\ m \in Nodes
         /\ {m.next, m.otherwise, m.fails} \subseteq DOMAIN flow.nodes
         /\ \A i \in DOMAIN m.branches : m.branches[i].to \in DOMAIN flow.nodes
  BY <1>3, <1>4
<1> QED
  BY <1>2, <1>5 DEF flow

LEMMA NodeKnown ==
  ASSUME conv.agent \in Agents, node \in DOMAIN Flow.nodes
  PROVE  /\ {Node.next, Node.otherwise, Node.fails, "end"} \subseteq DOMAIN Flow.nodes
         /\ node \in STRING /\ Node.branches \in Seq(Branches)
         /\ \A i \in DOMAIN Node.branches :
              Node.branches[i] \in Branches /\ Node.branches[i].to \in DOMAIN Flow.nodes
<1>1. /\ DOMAIN Flow.nodes \subseteq STRING /\ "end" \in DOMAIN Flow.nodes
      /\ Node \in Nodes
      /\ {Node.next, Node.otherwise, Node.fails} \subseteq DOMAIN Flow.nodes
      /\ \A i \in DOMAIN Node.branches : Node.branches[i].to \in DOMAIN Flow.nodes
  BY FlowKnown DEF Flow, Node
<1>2. Node.branches \in Seq(Branches)
  BY <1>1 DEF Nodes
<1> QED
  BY <1>1, <1>2

\* The first branch that fires is one of the node's.
LEMMA FirstIsBranch ==
  ASSUME conv.agent \in Agents, node \in DOMAIN Flow.nodes, NEW t, NEW c, SomeFires(t, c)
  PROVE  LET b == Node.branches[FirstFiring(t, c)] IN
         /\ b \in Branches /\ b.to \in DOMAIN Flow.nodes
         /\ FirstFiring(t, c) \in DOMAIN Node.branches
<1> DEFINE T == {i \in DOMAIN Node.branches : Fires(Node.branches[i], t, c)}
<1>1. T \in SUBSET Nat /\ T # {} /\ DOMAIN Node.branches = 1 .. Len(Node.branches)
  BY NodeKnown DEF SomeFires
<1>2. PICK i \in T : \A j \in T : i <= j
  BY <1>1, LeastIsOne
<1>3. ASSUME NEW j \in 1 .. i - 1 PROVE ~Fires(Node.branches[j], t, c)
  <2>1. j \in DOMAIN Node.branches /\ ~(i <= j)
    BY <1>1
  <2>2. j \notin T
    BY <1>2, <2>1
  <2> QED
    BY <2>1, <2>2
<1>4. \E k \in DOMAIN Node.branches :
         /\ Fires(Node.branches[k], t, c)
         /\ \A j \in 1 .. k - 1 : ~Fires(Node.branches[j], t, c)
  BY <1>2, <1>3
<1>5. FirstFiring(t, c) \in DOMAIN Node.branches
  BY <1>4 DEF FirstFiring
<1> QED
  BY <1>5, NodeKnown

(***************************************************************************)
(* The inductive invariant: who has the conversation, and where.           *)
(***************************************************************************)
\* The conversation is in memory while a turn works on it, and then only.
Held == conv.thread = NoThread <=> pc \in {"idle", "clear", "resume", "create"}

\* A row or a conversation with a thread has an agent, and the checkpoint waits at a
\* node of his flow or nowhere.
PlacedAt(r) ==
  r.thread \in Threads =>
    /\ r.agent \in Agents
    /\ threads[r.thread].waiting \in DOMAIN Flows[r.agent].nodes \union {NoNode}
Placed == PlacedAt(row) /\ PlacedAt(conv)

\* A thread has one agent.
OneAgent == row.thread = conv.thread /\ conv.thread # NoThread => row.agent = conv.agent

\* A turn works on an active row, and hands over to an agent there is.
Active == pc # "idle" => row.status = "ACTIVE"
Addressed == pc = "handover" => turn.target \in Agents

\* A ticket with a specialist is in nobody else's hands, whatever has failed.
Stays ==
  ~ReturnAllowed /\ row.agent \in Agents \ EntryTier =>
    conv.agent \in {NoAgent, row.agent} /\ pc \notin {"reset", "handover"}

\* Without a fault the row names the conversation the turn works on, and after the
\* turn the one that has answered.
Agree ==
  faults = 0 =>
    /\ pc \in {"flag", "shield", "send", "node", "reply", "route", "handover", "answer"} =>
         row.agent = conv.agent /\ row.thread = conv.thread
    /\ pc = "idle" /\ answer.kind \in {"flow", "quit", "error", "refused"} =>
         row.agent = answer.agent /\ row.thread = answer.thread

\* Without a fault a decision for a specialist that an entry agent's checkpoint has
\* is one the routing has not looked at.
Pending(r) ==
  r.thread \in Threads /\ ~IsSpecialist(r.agent)
    /\ threads[r.thread].decision \in Agents \ {Router} => decided
Fresh ==
  faults = 0 =>
    /\ pc \in {"store", "flag", "shield", "send", "node", "reply", "route", "answer"} =>
         Pending(conv)
    /\ pc \in {"idle", "clear", "resume"} => Pending(row)
    /\ pc = "handover" /\ turn.by = "decision" => decided

ConversationInv ==
  /\ TypeOK /\ Held /\ Placed /\ OneAgent /\ Active /\ Addressed
  /\ Stays /\ Agree /\ Fresh

-----------------------------------------------------------------------------
(***************************************************************************)
(* The steps of a flow.                                                    *)
(***************************************************************************)
\* What every step of a flow comes to, if it is not cut off: the conversation's
\* checkpoint is replaced by one that waits at a node of the flow or nowhere, and a
\* decision in it is the old one or is noted in the history.
Moves ==
  /\ \E c \in Checkpoints :
       /\ SetCurrent(c)
       /\ c.waiting \in DOMAIN Flow.nodes \union {NoNode}
       /\ \/ c.decision = Current.decision /\ (decided => decided')
          \/ c.decision \in Agents => decided'
  /\ pc' \in {"node", "reply"}
  /\ pc' = "node" => node' \in DOMAIN Flow.nodes
  /\ steps' \in Nat
  /\ {spoke', decided', skipped'} \subseteq BOOLEAN
  /\ UNCHANGED <<session, row, conv, turn, reply, answer, turns, faults>>

\* What a step comes to that is cut off.
CutOff ==
  /\ pc' \in {"answer", "route"}
  /\ reply' = [text |-> "plain", ended |-> FALSE, error |-> TRUE]
  /\ UNCHANGED <<session, row, threads, conv, turn, progress, spoke, history, turns, faults>>

LEMMA InMemory ==
  ASSUME TypeOK, Held, Placed, pc \in {"send", "node", "reply", "route"}
  PROVE  /\ conv.thread \in Threads /\ conv.agent \in Agents
         /\ Current \in Checkpoints
         /\ Current.waiting \in DOMAIN Flow.nodes \union {NoNode}
<1>1. conv.thread \in Threads /\ conv.agent \in Agents
  BY DEF TypeOK, Held, ConversationRefs
<1>2. Current \in Checkpoints
  BY <1>1 DEF TypeOK, Current
<1> QED
  BY <1>1, <1>2 DEF Placed, PlacedAt, Current, Flow

LEMMA GoesOnMoves ==
  ASSUME TypeOK, Held, Placed, pc = "node",
         NEW n \in DOMAIN Flow.nodes, NEW c \in Checkpoints,
         c.waiting \in DOMAIN Flow.nodes \union {NoNode},
         \/ c.decision = Current.decision /\ (decided => decided')
         \/ c.decision \in Agents => decided',
         {spoke', decided', skipped'} \subseteq BOOLEAN,
         GoTo(n, c)
  PROVE  Moves
<1> DEFINE d == [c EXCEPT !.at = node]
<1>1. node \in STRING
  BY InMemory, NodeKnown DEF TypeOK
<1>2. d \in Checkpoints /\ d.waiting = c.waiting /\ d.decision = c.decision
  BY <1>1 DEF Checkpoints
<1>3. SetCurrent(d)
  BY DEF GoTo
<1>4. steps' \in Nat
  <2>1. RecursionLimit \in Nat \ {0} /\ steps \in Nat
    BY ConversationAssumption DEF TypeOK
  <2>2. steps' = (steps % RecursionLimit) + 1
    BY DEF GoTo, Superstep
  <2> QED
    BY <2>1, <2>2
<1> HIDE DEF d
<1>5. \E e \in Checkpoints :
        /\ SetCurrent(e)
        /\ e.waiting \in DOMAIN Flow.nodes \union {NoNode}
        /\ \/ e.decision = Current.decision /\ (decided => decided')
           \/ e.decision \in Agents => decided'
  BY <1>2, <1>3
<1> QED
  BY <1>4, <1>5 DEF GoTo, Moves

LEMMA StopMoves ==
  ASSUME TypeOK, Held, Placed, pc = "node",
         NEW c \in Checkpoints, c.waiting \in DOMAIN Flow.nodes \union {NoNode},
         c.decision = Current.decision,
         Stop(c)
  PROVE  Moves
<1> DEFINE d == [c EXCEPT !.at = node]
<1>1. node \in STRING
  BY InMemory, NodeKnown DEF TypeOK
<1>2. d \in Checkpoints /\ d.waiting = c.waiting /\ d.decision = c.decision
  BY <1>1 DEF Checkpoints
<1>3. SetCurrent(d)
  BY DEF Stop
<1> HIDE DEF d
<1>4. /\ \E e \in Checkpoints :
            /\ SetCurrent(e)
            /\ e.waiting \in DOMAIN Flow.nodes \union {NoNode}
            /\ e.decision = Current.decision /\ (decided => decided')
  BY <1>2, <1>3 DEF Stop
<1> QED
  BY <1>4 DEF Stop, Moves, TypeOK

\* The actions of a branch leave a checkpoint whose decision is the branch's, or the
\* old one.
LEMMA ActedKnown ==
  ASSUME NEW b \in Branches, NEW t \in Texts \union {"none"}, NEW c \in Checkpoints
  PROVE  /\ Acted(b, t, c) \in Checkpoints
         /\ Acted(b, t, c).waiting = c.waiting
         /\ \/ Acted(b, t, c).decision = c.decision
            \/ Acted(b, t, c).decision \in Agents => b.decide \in Agents
<1> DEFINE d == IF b.decide = "keep" THEN c.decision ELSE b.decide
           k == c.back \/ b.back
           n == CASE b.tries = "zero" -> 0
                  [] b.tries = "bump" -> c.tries + 1
                  [] OTHER -> c.tries
           l == IF b.says \in Texts THEN b.says ELSE t
<1>1. Acted(b, t, c) = [c EXCEPT !.decision = d, !.back = k, !.tries = n, !.last = l]
  BY DEF Acted, Checkpoints
<1>2. d \in Agents \union {NoAgent} /\ k \in BOOLEAN /\ l \in Texts \union {"none"}
  BY DEF Branches, Checkpoints
<1>3. n \in Nat
  BY DEF Branches, Checkpoints
<1>4. d = c.decision \/ (d \in Agents => b.decide \in Agents)
  OBVIOUS
<1> HIDE DEF d, k, n, l
<1> QED
  BY <1>1, <1>2, <1>3, <1>4 DEF Checkpoints

LEMMA TakeMoves ==
  ASSUME TypeOK, Held, Placed, pc = "node",
         NEW b \in Branches, b.to \in DOMAIN Flow.nodes, NEW t \in Texts \union {"none"},
         spoke' \in BOOLEAN, Take(b, t)
  PROVE  Moves
<1>1. Current \in Checkpoints /\ Current.waiting \in DOMAIN Flow.nodes \union {NoNode}
  BY InMemory
<1> DEFINE c == Acted(b, t, Current)
<1>2. /\ c \in Checkpoints /\ c.waiting \in DOMAIN Flow.nodes \union {NoNode}
      /\ \/ c.decision = Current.decision
         \/ c.decision \in Agents => b.decide \in Agents
  BY <1>1, ActedKnown
<1>3. GoTo(b.to, c) /\ decided' = (decided \/ b.decide \in Agents) /\ skipped' = skipped
  BY DEF Take
<1> HIDE DEF c
<1>4. {spoke', decided', skipped'} \subseteq BOOLEAN /\ (decided => decided')
  BY <1>3 DEF TypeOK
<1>5. \/ c.decision = Current.decision /\ (decided => decided')
      \/ c.decision \in Agents => decided'
  BY <1>2, <1>3, <1>4
<1> QED
  BY <1>2, <1>3, <1>4, <1>5, GoesOnMoves

LEMMA SayMoves ==
  ASSUME TypeOK, Held, Placed, pc = "node",
         NEW n \in DOMAIN Flow.nodes, NEW t \in Texts, Say(n, t)
  PROVE  Moves
<1> DEFINE c == [Current EXCEPT !.last = t]
<1>1. /\ c \in Checkpoints /\ c.waiting \in DOMAIN Flow.nodes \union {NoNode}
      /\ c.decision = Current.decision
  BY InMemory DEF Checkpoints
<1>2. GoTo(n, c) /\ {spoke', decided', skipped'} \subseteq BOOLEAN /\ decided' = decided
  BY DEF Say, TypeOK
<1> HIDE DEF c
<1> QED
  BY <1>1, <1>2, GoesOnMoves

\* A step of the flow goes on, stops, or is cut off.
LEMMA FlowMoves ==
  ASSUME TypeOK, Held, Placed, FlowStep
  PROVE  pc = "node" /\ (Moves \/ CutOff)
<1>1. pc = "node"
  BY DEF FlowStep, OutOfSteps, TakeMessage, Wait, Terminal, NoResponse, Process,
         Classify, NothingToClassify, Validate, NothingToValidate, MayRun
<1> USE <1>1
<1>2. /\ conv.agent \in Agents /\ node \in DOMAIN Flow.nodes
      /\ Current \in Checkpoints /\ Current.waiting \in DOMAIN Flow.nodes \union {NoNode}
  BY InMemory DEF TypeOK
<1>3. {Node.next, Node.otherwise, Node.fails, "end"} \subseteq DOMAIN Flow.nodes
  BY <1>2, NodeKnown
<1>4. Responses = Texts /\ "plain" \in Texts
  BY ConversationAssumption DEF Responses, Refusal, ErrorText
<1>5. CASE OutOfSteps \/ NothingToValidate
  BY <1>5 DEF OutOfSteps, NothingToValidate, Interrupted, CutOff, TypeOK
<1>6. CASE TakeMessage
  <2> DEFINE c == [Current EXCEPT !.consumed = Current.human, !.waiting = NoNode]
  <2>1. Current.human \in Nat
    BY <1>2 DEF Checkpoints
  <2>2. /\ c \in Checkpoints /\ c.waiting = NoNode /\ c.decision = Current.decision
    BY <1>2, <2>1 DEF Checkpoints
  <2>3. /\ GoTo(Node.next, c) /\ decided' = decided /\ spoke' = spoke
        /\ skipped' = (skipped \/ Node.next = "end")
    BY <1>6 DEF TakeMessage
  <2>4. {spoke', decided', skipped'} \subseteq BOOLEAN
    BY <2>3 DEF TypeOK
  <2> HIDE DEF c
  <2> QED
    BY <2>2, <2>3, <2>4, <1>3, GoesOnMoves
<1>7. CASE Wait
  <2> DEFINE c == [Current EXCEPT !.waiting = node]
  <2>1. node \in STRING
    BY <1>2, NodeKnown
  <2>2. /\ c \in Checkpoints /\ c.waiting = node /\ c.decision = Current.decision
    BY <1>2, <2>1 DEF Checkpoints
  <2>3. Stop(c)
    BY <1>7 DEF Wait
  <2> HIDE DEF c
  <2> QED
    BY <2>2, <2>3, <1>2, StopMoves
<1>8. CASE Terminal
  BY <1>8, <1>2, StopMoves DEF Terminal
<1>9. CASE NoResponse
  BY <1>9, <1>3, <1>4, SayMoves DEF NoResponse
<1>10. CASE Process
  <2>1. PICK t \in Texts :
          IF SomeFires(t, Current)
          THEN Take(Node.branches[FirstFiring(t, Current)], t) /\ spoke' = TRUE
          ELSE Say(Node.otherwise, t)
    BY <1>10, <1>4 DEF Process
  <2>2. CASE SomeFires(t, Current)
    <3>1. LET b == Node.branches[FirstFiring(t, Current)] IN
          b \in Branches /\ b.to \in DOMAIN Flow.nodes
      BY <1>2, <2>2, FirstIsBranch
    <3> QED
      BY <2>1, <2>2, <3>1, TakeMoves
  <2>3. CASE ~SomeFires(t, Current)
    BY <2>1, <2>3, <1>3, SayMoves
  <2> QED
    BY <2>2, <2>3
<1>11. CASE Classify
  <2>1. PICK t \in Texts :
          IF SomeFires(t, Current)
          THEN LET b == Node.branches[FirstFiring(t, Current)]
               IN  IF b.says = "asks"
                   THEN \E u \in Responses : Take(b, u) /\ spoke' = TRUE
                   ELSE Take(b, Current.last) /\ spoke' = (b.says \in Texts)
          ELSE /\ GoTo("end", Current)
               /\ skipped' = TRUE
               /\ UNCHANGED <<spoke, decided>>
    BY <1>11, <1>4 DEF Classify
  <2>2. CASE SomeFires(t, Current)
    <3> DEFINE b == Node.branches[FirstFiring(t, Current)]
    <3>1. b \in Branches /\ b.to \in DOMAIN Flow.nodes
      BY <1>2, <2>2, FirstIsBranch
    <3>2. Current.last \in Texts \union {"none"}
      BY <1>2 DEF Checkpoints
    <3>3. \/ \E u \in Texts : Take(b, u) /\ spoke' = TRUE
          \/ Take(b, Current.last) /\ spoke' = (b.says \in Texts)
      BY <2>1, <2>2, <1>4
    <3> HIDE DEF b
    <3>4. CASE \E u \in Texts : Take(b, u) /\ spoke' = TRUE
      BY <3>1, <3>4, TakeMoves
    <3>5. CASE Take(b, Current.last) /\ spoke' = (b.says \in Texts)
      <4>1. spoke' \in BOOLEAN
        BY <3>5
      <4> QED
        BY <3>1, <3>2, <3>5, <4>1, TakeMoves
    <3> QED
      BY <3>3, <3>4, <3>5
  <2>3. CASE ~SomeFires(t, Current)
    <3>1. /\ GoTo("end", Current) /\ decided' = decided
          /\ {spoke', decided', skipped'} \subseteq BOOLEAN
      BY <2>1, <2>3 DEF TypeOK
    <3> QED
      BY <3>1, <1>2, <1>3, GoesOnMoves
  <2> QED
    BY <2>2, <2>3
<1>12. CASE NothingToClassify
  <2>1. /\ GoTo("end", Current) /\ decided' = decided
        /\ {spoke', decided', skipped'} \subseteq BOOLEAN
    BY <1>12 DEF NothingToClassify, TypeOK
  <2> QED
    BY <2>1, <1>2, <1>3, GoesOnMoves
<1>13. CASE Validate
  BY <1>13, <1>3, <1>4, SayMoves DEF Validate
<1> QED
  BY <1>5, <1>6, <1>7, <1>8, <1>9, <1>10, <1>11, <1>12, <1>13 DEF FlowStep

-----------------------------------------------------------------------------
(***************************************************************************)
(* The steps of a turn, by what they do to the row, the checkpoints and    *)
(* the conversation in memory.                                             *)
(***************************************************************************)
Free == {"idle", "clear", "resume", "create"}

Starts == pc = "idle" /\ (\E input \in Inputs : Begin(input))
\* None of the three changes.
Quiet ==
  /\ UNCHANGED <<session, row, threads, conv>>
  /\ pc # "idle" /\ pc' \notin {"idle", "node"}
  /\ pc \in Free <=> pc' \in Free
  /\ pc' = "handover" => turn'.target \in Agents
\* The turn ends.
Ends ==
  /\ UNCHANGED <<session, threads>>
  /\ conv' = NoConversation
  /\ pc' = "idle"
  /\ row' = row \/ row' = [row EXCEPT !.status = "INACTIVE"]
\* The turn takes up the conversation of the row.
Takes ==
  /\ UNCHANGED <<session, row, threads>>
  /\ row.thread # NoThread /\ row.agent # NoAgent
  /\ conv' = OfRow
  /\ pc = "resume" /\ pc' \in {"reset", "flag"}
\* It gives up its conversation, and the row's with it unless that fails.
GivesUp ==
  /\ UNCHANGED <<session, threads>>
  /\ conv' = NoConversation
  /\ pc = "reset" /\ pc' \in {"create", "resume"}
  /\ row' = row \/ row' = [row EXCEPT !.agent = NoAgent, !.thread = NoThread]
\* It makes a new one.
Renews ==
  /\ UNCHANGED <<session, row>>
  /\ \E a \in Agents, free \in Threads \ {row.thread, conv.thread} :
       /\ conv' = [agent |-> a, thread |-> free]
       /\ threads' = [threads EXCEPT ![free] = Blank]
  /\ pc \in {"create", "handover"} /\ pc' = "store"
\* It stores the new one in the row.
Stores ==
  /\ UNCHANGED <<session, threads, conv>>
  /\ row' = Stored
  /\ pc = "store" /\ pc' \in {"send", "flag"}
\* It writes its checkpoint.
Writes ==
  /\ UNCHANGED <<session, row, conv>>
  /\ \E c \in Checkpoints :
       SetCurrent(c) /\ c.waiting \in DOMAIN Flow.nodes \union {NoNode}
  /\ pc \in {"send", "node", "reply"} /\ pc' \in {"node", "reply", "answer", "route"}
  /\ pc' = "node" => node' \in DOMAIN Flow.nodes

\* There is always a thread that neither the row nor the turn has.
LEMMA NewIsFree ==
  ASSUME TypeOK, NEW a \in Agents, NewConversation(a)
  PROVE  \E free \in Threads \ {row.thread, conv.thread} :
           /\ conv' = [agent |-> a, thread |-> free]
           /\ threads' = [threads EXCEPT ![free] = Blank]
<1>1. row.thread \in Threads \union {NoThread} /\ conv.thread \in Threads \union {NoThread}
  BY DEF TypeOK, ConversationRefs
<1>2. Threads \ {row.thread, conv.thread} # {}
  BY <1>1, ConversationAssumption
<1> DEFINE free == CHOOSE t \in Threads : t \notin {row.thread, conv.thread}
<1>3. free \in Threads \ {row.thread, conv.thread}
  BY <1>2
<1>4. /\ conv' = [agent |-> a, thread |-> free]
      /\ threads' = [threads EXCEPT ![free] = Blank]
  BY DEF NewConversation
<1> HIDE DEF free
<1> QED
  BY <1>3, <1>4

LEMMA BlankKnown == Blank \in Checkpoints /\ Blank.waiting = NoNode /\ Blank.decision = NoAgent
  BY DEF Blank, Checkpoints

LEMMA AgentsKnown ==
  /\ EntryAgent \in Agents /\ Router \in Agents /\ NoAgent \notin Agents
  /\ NoThread \notin Threads
  BY ConversationAssumption DEF EntryAgent

\* What is written before the flow runs and after it is a checkpoint as well.
LEMMA AddedKnown ==
  ASSUME TypeOK, Held, Placed, pc = "send"
  PROVE  /\ Added(Current) \in Checkpoints
         /\ Added(Current).waiting = Current.waiting
         /\ Added(Current).decision = Current.decision
         /\ FirstNode(Current) \in DOMAIN Flow.nodes
<1>1. /\ conv.agent \in Agents /\ Current \in Checkpoints
      /\ Current.waiting \in DOMAIN Flow.nodes \union {NoNode}
  BY InMemory
<1>2. Flow.initial \in STRING /\ Flow.initial \in DOMAIN Flow.nodes
  BY <1>1, FlowKnown DEF Flow
<1> DEFINE k == IF Flow.nodes[Flow.initial].type = "waiting" THEN 0 ELSE 1
<1>3. k \in Nat
  OBVIOUS
<1>4. FirstNode(Current) \in DOMAIN Flow.nodes
  BY <1>1, <1>2 DEF FirstNode
<1>5. CASE Current.human > 0
  <2>1. Added(Current) = [Current EXCEPT !.human = Current.human + 1]
    BY <1>5, <1>1 DEF Added, Checkpoints
  <2> QED
    BY <2>1, <1>1, <1>4 DEF Checkpoints
<1>6. CASE ~(Current.human > 0)
  <2> DEFINE d == [Current EXCEPT !.human = 1]
             e == [d EXCEPT !.at = Flow.initial]
             g == [e EXCEPT !.consumed = k]
  <2>1. Added(Current) = g
    BY <1>6, <1>1 DEF Added, Checkpoints
  <2> HIDE DEF k
  <2>2. d \in Checkpoints /\ d.waiting = Current.waiting /\ d.decision = Current.decision
    BY <1>1 DEF Checkpoints
  <2> HIDE DEF d
  <2>3. e \in Checkpoints /\ e.waiting = d.waiting /\ e.decision = d.decision
    BY <2>2, <1>2 DEF Checkpoints
  <2> HIDE DEF e
  <2>4. g \in Checkpoints /\ g.waiting = e.waiting /\ g.decision = e.decision
    BY <2>3, <1>3 DEF Checkpoints
  <2> HIDE DEF g
  <2> QED
    BY <2>1, <2>2, <2>3, <2>4, <1>4
<1> QED
  BY <1>5, <1>6

LEMMA ClearedKnown ==
  ASSUME NEW c \in Checkpoints
  PROVE  /\ Cleared(c) \in Checkpoints
         /\ Cleared(c).waiting = c.waiting
         /\ Cleared(c).decision \in {c.decision, NoAgent}
<1> DEFINE d == IF "decision" \in Flow.clears THEN NoAgent ELSE c.decision
           k == c.back /\ "back" \notin Flow.clears
           n == IF "tries" \in Flow.clears THEN 0 ELSE c.tries
<1>1. Cleared(c) = [c EXCEPT !.decision = d, !.back = k, !.tries = n]
  BY DEF Cleared, Checkpoints
<1>2. d \in Agents \union {NoAgent} /\ d \in {c.decision, NoAgent} /\ k \in BOOLEAN /\ n \in Nat
  BY DEF Checkpoints
<1> HIDE DEF d, k, n
<1> QED
  BY <1>1, <1>2 DEF Checkpoints

LEMMA FinishedKnown ==
  ASSUME TypeOK, Held, Placed, Finish
  PROVE  \E c \in Checkpoints :
           /\ SetCurrent(c) /\ c.waiting \in DOMAIN Flow.nodes \union {NoNode}
           /\ c.decision \in {Current.decision, NoAgent}
<1> DEFINE c == IF Current.at = "end" /\ Flow.resets THEN Cleared(Current) ELSE Current
<1>1. Current \in Checkpoints /\ Current.waiting \in DOMAIN Flow.nodes \union {NoNode}
  BY InMemory DEF Finish
<1>2. /\ c \in Checkpoints /\ c.waiting \in DOMAIN Flow.nodes \union {NoNode}
      /\ c.decision \in {Current.decision, NoAgent}
  BY <1>1, ClearedKnown
<1>3. SetCurrent(c)
  BY DEF Finish
<1> HIDE DEF c
<1> QED
  BY <1>2, <1>3

\* Every step is one of these.
LEMMA Shapes ==
  ASSUME TypeOK, Held, Placed, Addressed, Next
  PROVE  Starts \/ Quiet \/ Ends \/ Takes \/ GivesUp \/ Renews \/ Stores \/ Writes
<1> USE DEF Free
<1>1. ASSUME NEW input \in Inputs, Begin(input) PROVE Starts
  BY <1>1 DEF Begin, Starts
<1>2. CASE Clear \/ ClearFails \/ Answer \/ Crash
  BY <1>2 DEF Clear, ClearFails, Answer, Crash, Blocked, End, Ends
<1>3. CASE Resume \/ ResumeFails
  BY <1>3 DEF Resume, ResumeFails, Takes, Quiet, TypeOK
<1>4. CASE Create \/ HandOver
  <2>1. \E a \in Agents : NewConversation(a)
    BY <1>4, AgentsKnown DEF Create, HandOver, AgentOfRow, Addressed, TypeOK
  <2>2. \E a \in Agents, free \in Threads \ {row.thread, conv.thread} :
          /\ conv' = [agent |-> a, thread |-> free]
          /\ threads' = [threads EXCEPT ![free] = Blank]
    BY <2>1, NewIsFree
  <2> QED
    BY <1>4, <2>2 DEF Create, HandOver, Renews
<1>5. CASE CreateFails
  <2>1. CASE turn.retried
    BY <1>5, <2>1 DEF CreateFails, End, Ends
  <2>2. CASE ~turn.retried
    BY <1>5, <2>2 DEF CreateFails, Quiet
  <2> QED
    BY <2>1, <2>2
<1>6. CASE Store
  BY <1>6 DEF Store, Stores, AfterStore
<1>7. CASE StoreFails
  BY <1>7 DEF StoreFails, Quiet, AfterStore
<1>8. CASE Flag
  BY <1>8 DEF Flag, Quiet
<1>9. CASE Reset \/ ResetFails
  BY <1>9 DEF Reset, ResetFails, GivesUp, TypeOK
<1>10. CASE Shield
  BY <1>10 DEF Shield, Blocked, End, Ends, Quiet
<1>11. CASE Send
  <2>1. Added(Current) \in Checkpoints /\ FirstNode(Current) \in DOMAIN Flow.nodes
        /\ Added(Current).waiting \in DOMAIN Flow.nodes \union {NoNode}
    BY <1>11, AddedKnown, InMemory DEF Send
  <2>2. \E c \in Checkpoints :
          SetCurrent(c) /\ c.waiting \in DOMAIN Flow.nodes \union {NoNode}
    BY <1>11, <2>1 DEF Send
  <2> QED
    BY <1>11, <2>1, <2>2 DEF Send, Writes
<1>12. CASE Quit \/ CheckpointFails \/ RouteBack \/ RouteCompleted \/ RouteAnswer \/ HandOverFails
  BY <1>12 DEF Quit, CheckpointFails, Interrupted, RouteBack, RouteCompleted, StartOver, RouteAnswer,
               HandOverFails, Quiet
<1>13. CASE FlowStep
  <2>1. pc = "node" /\ (Moves \/ CutOff)
    BY <1>13, FlowMoves
  <2>2. ASSUME Moves PROVE Writes
    <3>1. \E c \in Checkpoints :
            SetCurrent(c) /\ c.waiting \in DOMAIN Flow.nodes \union {NoNode}
      BY <2>2 DEF Moves
    <3> QED
      BY <2>1, <2>2, <3>1 DEF Moves, Writes
  <2>3. ASSUME CutOff PROVE Quiet
    BY <2>1, <2>3 DEF CutOff, Quiet
  <2> QED
    BY <2>1, <2>2, <2>3
<1>14. CASE Finish
  <2>1. \E c \in Checkpoints :
          SetCurrent(c) /\ c.waiting \in DOMAIN Flow.nodes \union {NoNode}
    BY <1>14, FinishedKnown
  <2> QED
    BY <1>14, <2>1 DEF Finish, Writes
<1>15. CASE RouteOn
  <2>1. Routed \in Agents
    BY <1>15, InMemory, ConversationAssumption
    DEF RouteOn, GoesOn, Routed, Chosen, Named, TypeOK
  <2>2. turn'.target = Routed
    BY <1>15 DEF RouteOn, TypeOK
  <2> QED
    BY <1>15, <2>1, <2>2 DEF RouteOn, Quiet
<1> QED
  BY <1>1, <1>2, <1>3, <1>4, <1>5, <1>6, <1>7, <1>8, <1>9, <1>10, <1>11, <1>12, <1>13,
     <1>14, <1>15
  DEF Next, TurnStep, Faults

-----------------------------------------------------------------------------
(***************************************************************************)
(* The types, and the parts of the invariant that say where a conversation *)
(* is.                                                                     *)
(***************************************************************************)
Turns == [input: {"ask", "reset", "quit"}, text: {"input", "hi"}, routed: BOOLEAN,
          target: Agents \union {NoAgent}, by: {"nobody", "name", "decision"},
          after: {"create", "resume"}, retried: BOOLEAN]
Replies == [text: Texts \union {"none"}, ended: BOOLEAN, error: BOOLEAN]
Rows == [agent: Agents \union {NoAgent}, thread: Threads \union {NoThread},
         status: {"ACTIVE", "INACTIVE"}]

\* What a turn keeps for itself has its type.
TurnTypes ==
  /\ pc \in {"idle", "clear", "resume", "create", "store", "flag", "reset", "shield",
            "send", "node", "reply", "route", "handover", "answer"}
  /\ turn \in Turns
  /\ steps \in Nat
  /\ reply \in Replies
  /\ {spoke, decided, skipped} \subseteq BOOLEAN
  /\ answer.kind \in {"none", "flow", "quit", "error", "refused", "cleared"}
  /\ turns \in Nat /\ faults \in Nat

LEMMA TypeParts ==
  TypeOK <=> /\ session \in SessionKinds
             /\ row \in Rows
             /\ threads \in [Threads -> Checkpoints]
             /\ conv \in ConversationRefs /\ (conv.agent = NoAgent <=> conv.thread = NoThread)
             /\ pc = "node" => node \in DOMAIN Flow.nodes
             /\ TurnTypes
  BY DEF TypeOK, TurnTypes, Turns, Replies, Rows

LEMMA EndTyped ==
  ASSUME TypeOK, NEW kind \in {"none", "flow", "quit", "error", "refused", "cleared"},
         End(kind), turns' = turns, faults' \in Nat
  PROVE  TurnTypes'
<1>1. NoTurn \in Turns /\ NoReply \in Replies
  BY DEF NoTurn, Turns, NoReply, Replies
<1>2. TurnTypes
  BY TypeParts
<1> QED
  BY <1>1, <1>2 DEF TurnTypes, End

LEMMA TurnTyped ==
  ASSUME TypeOK, Held, Placed, Addressed, Next
  PROVE  TurnTypes'
<1>0. TurnTypes
  BY TypeParts
<1>f. ASSUME Fault PROVE faults' \in Nat
  BY <1>f, <1>0 DEF Fault, TurnTypes
<1>t. "plain" \in Texts
  BY ConversationAssumption
<1> USE <1>0
<1>1. ASSUME NEW input \in Inputs, Begin(input) PROVE TurnTypes'
  <2>1. input \in {"ask", "reset", "quit"}
    BY ConversationAssumption
  <2>2. turn' = [NoTurn EXCEPT !.input = input]
    BY <1>1 DEF Begin
  <2>3. turn' \in Turns
    BY <2>1, <2>2 DEF NoTurn, Turns
  <2>4. answer'.kind = "none"
    BY <1>1 DEF Begin, NoAnswer
  <2> QED
    BY <1>1, <2>3, <2>4 DEF Begin, TurnTypes
<1>2. CASE Clear \/ ClearFails \/ Answer \/ Crash
  BY <1>2, <1>f, EndTyped
  DEF Clear, ClearFails, Answer, Crash, Blocked, AnswerKind, TurnTypes
<1>3. CASE Resume
  BY <1>3 DEF Resume, TurnTypes, Turns
<1>4. CASE Create
  BY <1>4 DEF Create, NewConversation, TurnTypes
<1>5. CASE HandOver
  BY <1>5 DEF HandOver, NewConversation, TurnTypes, Turns
<1>6. CASE CreateFails
  <2>1. ASSUME turn.retried PROVE TurnTypes'
    BY <1>6, <2>1, <1>f, EndTyped DEF CreateFails
  <2>2. ASSUME ~turn.retried PROVE TurnTypes'
    <3>1. turn' = [NoTurn EXCEPT !.input = turn.input, !.retried = TRUE]
      BY <1>6, <2>2 DEF CreateFails
    <3>2. turn' \in Turns
      BY <3>1 DEF NoTurn, Turns, TurnTypes
    <3> QED
      BY <1>6, <2>2, <3>2, <1>f DEF CreateFails, TurnTypes
  <2> QED
    BY <2>1, <2>2
<1>7. CASE Store \/ Reset
  BY <1>7 DEF Store, Reset, AfterStore, TurnTypes, Turns
<1>8. CASE ResumeFails \/ StoreFails \/ ResetFails
  BY <1>8, <1>f DEF ResumeFails, StoreFails, AfterStore, ResetFails, TurnTypes, Turns
<1>9. CASE Flag \/ RouteBack \/ RouteCompleted
  <2>1. ASSUME NEW after \in {"create", "resume"}
        PROVE  [turn EXCEPT !.after = after] \in Turns
                 /\ [turn EXCEPT !.text = "hi", !.after = after] \in Turns
    BY DEF TurnTypes, Turns
  <2>2. CASE Flag
    BY <2>1, <2>2 DEF Flag, TurnTypes
  <2>3. CASE RouteBack \/ RouteCompleted
    BY <2>1, <2>3 DEF RouteBack, RouteCompleted, StartOver, TurnTypes
  <2> QED
    BY <1>9, <2>2, <2>3
<1>10. CASE Shield
  <2>1. ASSUME Blocked PROVE TurnTypes'
    BY <2>1, <1>10, EndTyped DEF Blocked, Shield, TurnTypes
  <2>2. ASSUME ~Blocked PROVE TurnTypes'
    BY <2>2, <1>10 DEF Shield, TurnTypes
  <2> QED
    BY <2>1, <2>2
<1>11. CASE Send
  BY <1>11 DEF Send, TurnTypes
<1>12. CASE Quit
  BY <1>12, <1>t DEF Quit, NoReply, TurnTypes, Replies
<1>13. CASE CheckpointFails \/ HandOverFails
  <2> DEFINE apology == [text |-> "plain", ended |-> FALSE, error |-> TRUE]
  <2>0. apology \in Replies
    BY <1>t DEF Replies
  <2>1. reply' = apology
    BY <1>13 DEF CheckpointFails, HandOverFails, Interrupted
  <2> HIDE DEF apology
  <2>2. faults' \in Nat
    BY <1>13, <1>f DEF CheckpointFails, HandOverFails
  <2> QED
    BY <1>13, <2>0, <2>1, <2>2 DEF CheckpointFails, HandOverFails, Interrupted, TurnTypes
<1>14. CASE FlowStep
  <2>1. Moves \/ CutOff
    BY <1>14, FlowMoves
  <2>2. ASSUME Moves PROVE TurnTypes'
    BY <2>2 DEF Moves, TurnTypes
  <2>3. ASSUME CutOff PROVE TurnTypes'
    BY <2>3, <1>t DEF CutOff, TurnTypes, Replies
  <2> QED
    BY <2>1, <2>2, <2>3
<1>15. CASE Finish
  <2>1. Current \in Checkpoints
    BY <1>15, InMemory DEF Finish
  <2>2. Current.last \in Texts \union {"none"}
    BY <2>1 DEF Checkpoints
  <2> DEFINE over == Current.at = "end" /\ Flow.resets
  <2>3. reply' = [text |-> Current.last, ended |-> over, error |-> FALSE]
    BY <1>15 DEF Finish
  <2>4. over \in BOOLEAN
    OBVIOUS
  <2> HIDE DEF over
  <2>5. reply' \in Replies
    BY <2>2, <2>3, <2>4 DEF Replies
  <2> QED
    BY <1>15, <2>5 DEF Finish, TurnTypes
<1>16. CASE RouteOn
  <2>1. Routed \in Agents
    BY <1>16, InMemory, ConversationAssumption
    DEF RouteOn, GoesOn, Routed, Chosen, Named, TurnTypes, Replies
  <2>2. turn' = [[turn EXCEPT !.target = Routed]
                   EXCEPT !.by = IF Current.decision \in Agents THEN "decision" ELSE "name"]
    BY <1>16 DEF RouteOn, TurnTypes, Turns
  <2>3. turn' \in Turns
    BY <2>1, <2>2 DEF TurnTypes, Turns
  <2> QED
    BY <1>16, <2>3 DEF RouteOn, TurnTypes
<1>17. CASE RouteAnswer
  BY <1>17 DEF RouteAnswer, TurnTypes
<1> QED
  BY <1>1, <1>2, <1>3, <1>4, <1>5, <1>6, <1>7, <1>8, <1>9, <1>10, <1>11, <1>12, <1>13,
     <1>14, <1>15, <1>16, <1>17
  DEF Next, TurnStep, Faults

\* The row, the checkpoints and the conversation have their types, and the flow is
\* at a node of its own.
LEMMA StoresTyped ==
  ASSUME TypeOK, Held, Placed, Addressed, Next
  PROVE  /\ session' \in SessionKinds
         /\ row' \in Rows
         /\ threads' \in [Threads -> Checkpoints]
         /\ conv' \in ConversationRefs /\ (conv'.agent = NoAgent <=> conv'.thread = NoThread)
         /\ pc' = "node" => node' \in DOMAIN Flow'.nodes
<1>0. /\ session \in SessionKinds
      /\ row \in Rows
      /\ threads \in [Threads -> Checkpoints]
      /\ conv \in ConversationRefs /\ (conv.agent = NoAgent <=> conv.thread = NoThread)
      /\ pc = "node" => node \in DOMAIN Flow.nodes
  BY TypeParts
<1>n. NoConversation \in ConversationRefs /\ NoConversation.agent = NoAgent /\ NoConversation.thread = NoThread
  BY DEF NoConversation, ConversationRefs
<1> USE <1>0
<1>1. CASE Starts
  <2>1. PICK input \in Inputs : Begin(input)
    BY <1>1 DEF Starts
  <2>2. row' \in Rows
    BY <2>1, AgentsKnown DEF Begin, RowOfNextTurn, Rows
  <2>3. threads' = [t \in Threads |-> IF t = row'.thread THEN threads[t] ELSE Blank]
    BY <2>1 DEF Begin
  <2>4. threads' \in [Threads -> Checkpoints]
    BY <2>3, BlankKnown
  <2> QED
    BY <2>1, <2>2, <2>4 DEF Begin
<1>2. CASE Quiet
  BY <1>2 DEF Quiet
<1>3. CASE Ends
  BY <1>3, <1>n DEF Ends, Rows
<1>4. CASE Takes
  BY <1>4 DEF Takes, OfRow, Rows, ConversationRefs
<1>5. CASE GivesUp
  BY <1>5, <1>n DEF GivesUp, Rows
<1>6. CASE Renews
  BY <1>6, BlankKnown, AgentsKnown DEF Renews, ConversationRefs
<1>7. CASE Stores
  BY <1>7 DEF Stores, Stored, Rows, ConversationRefs
<1>8. CASE Writes
  <2>1. threads' \in [Threads -> Checkpoints]
    BY <1>8 DEF Writes, SetCurrent
  <2> QED
    BY <1>8, <2>1 DEF Writes, Flow
<1> QED
  BY <1>1, <1>2, <1>3, <1>4, <1>5, <1>6, <1>7, <1>8, Shapes

\* Where the turn is says whether it has a conversation.
LEMMA HeldKept ==
  ASSUME TypeOK, Held, Placed, Addressed, Next
  PROVE  Held'
<1> USE DEF Held, Free
<1>0. conv.agent = NoAgent <=> conv.thread = NoThread
  BY TypeParts
<1>1. CASE Starts
  BY <1>1 DEF Starts, Begin
<1>2. CASE Quiet
  BY <1>2 DEF Quiet
<1>3. CASE Ends \/ GivesUp
  BY <1>3 DEF Ends, GivesUp, NoConversation
<1>4. CASE Takes
  BY <1>4 DEF Takes, OfRow
<1>5. CASE Renews
  BY <1>5, AgentsKnown DEF Renews
<1>6. CASE Stores \/ Writes
  BY <1>6 DEF Stores, Writes
<1> QED
  BY <1>1, <1>2, <1>3, <1>4, <1>5, <1>6, Shapes

\* The checkpoint of a thread waits in the flow of the agent that has the thread.
LEMMA PlacedKept ==
  ASSUME TypeOK, Held, Placed, OneAgent, Addressed, Next
  PROVE  Placed' /\ OneAgent'
<1>0. /\ row \in Rows /\ threads \in [Threads -> Checkpoints] /\ conv \in ConversationRefs
      /\ conv.agent = NoAgent <=> conv.thread = NoThread
  BY TypeParts
<1>n. NoThread \notin Threads /\ NoConversation.thread = NoThread
  BY AgentsKnown DEF NoConversation
<1> USE <1>0, <1>n DEF Placed, PlacedAt, OneAgent
<1>1. CASE Starts
  <2>1. PICK input \in Inputs : Begin(input)
    BY <1>1 DEF Starts
  <2>2. /\ threads' = [t \in Threads |-> IF t = row'.thread THEN threads[t] ELSE Blank]
        /\ conv' = conv /\ conv.thread = NoThread
    BY <2>1 DEF Begin, Held
  <2>3. row'.thread \in Threads => row'.thread = row.thread /\ row'.agent = row.agent
    BY <2>1 DEF Begin, RowOfNextTurn, Rows
  <2> QED
    BY <2>2, <2>3
<1>2. CASE Quiet
  BY <1>2 DEF Quiet
<1>3. CASE Ends
  BY <1>3 DEF Ends, Rows
<1>4. CASE Takes
  BY <1>4 DEF Takes, OfRow
<1>5. CASE GivesUp
  BY <1>5 DEF GivesUp, Rows
<1>6. CASE Renews
  <2>1. PICK a \in Agents, free \in Threads \ {row.thread, conv.thread} :
          /\ conv' = [agent |-> a, thread |-> free]
          /\ threads' = [threads EXCEPT ![free] = Blank]
    BY <1>6 DEF Renews
  <2>2. row' = row
    BY <1>6 DEF Renews
  <2> QED
    BY <2>1, <2>2, BlankKnown
<1>7. CASE Stores
  <2>1. row'.agent = conv.agent /\ row'.thread = conv.thread /\ conv' = conv /\ threads' = threads
    BY <1>7 DEF Stores, Stored, Rows
  <2> QED
    BY <2>1
<1>8. CASE Writes
  <2>1. PICK c \in Checkpoints :
          SetCurrent(c) /\ c.waiting \in DOMAIN Flow.nodes \union {NoNode}
    BY <1>8 DEF Writes
  <2>2. row' = row /\ conv' = conv /\ conv.thread \in Threads
    BY <1>8, InMemory DEF Writes
  <2>3. threads' = [threads EXCEPT ![conv.thread] = c]
    BY <2>1 DEF SetCurrent
  <2>4. PlacedAt(conv)'
    BY <2>1, <2>2, <2>3 DEF Flow
  <2>5. PlacedAt(row)'
    <3>1. CASE row.thread = conv.thread
      BY <3>1, <2>2, <2>4
    <3>2. CASE row.thread # conv.thread
      BY <3>2, <2>2, <2>3
    <3> QED
      BY <3>1, <3>2
  <2> QED
    BY <2>2, <2>4, <2>5
<1> QED
  BY <1>1, <1>2, <1>3, <1>4, <1>5, <1>6, <1>7, <1>8, Shapes

LEMMA ActiveKept ==
  ASSUME TypeOK, Held, Placed, Active, Addressed, Next
  PROVE  Active' /\ Addressed'
<1>0. row \in Rows
  BY TypeParts
<1> USE <1>0 DEF Active, Addressed
<1>1. CASE Starts
  BY <1>1 DEF Starts, Begin, RowOfNextTurn, Rows
<1>2. CASE Quiet
  BY <1>2 DEF Quiet
<1>3. CASE Ends \/ GivesUp
  BY <1>3 DEF Ends, GivesUp, Rows
<1>4. CASE Takes \/ Renews \/ Writes
  BY <1>4 DEF Takes, Renews, Writes
<1>5. CASE Stores
  BY <1>5 DEF Stores, Stored, Rows
<1> QED
  BY <1>1, <1>2, <1>3, <1>4, <1>5, Shapes

-----------------------------------------------------------------------------
(***************************************************************************)
(* A ticket stays with its specialist.                                     *)
(***************************************************************************)
\* The session is of one kind for good.
LEMMA SameSession ==
  ASSUME TypeOK, Held, Placed, Addressed, Next
  PROVE  /\ session' = session
         /\ EntryTier' = EntryTier /\ ReturnAllowed' = ReturnAllowed
         /\ \A a : IsSpecialist(a)' <=> IsSpecialist(a)
<1>1. session' = session
  BY Shapes DEF Starts, Begin, Quiet, Ends, Takes, GivesUp, Renews, Stores, Writes
<1> QED
  BY <1>1 DEF EntryTier, EntryAgent, ReturnAllowed, IsSpecialist

\* Which step may follow where.
LEMMA WhoMoves ==
  ASSUME Next
  PROVE  /\ pc = "idle" => Starts
         /\ pc = "clear" => Clear \/ ClearFails \/ Crash
         /\ pc = "resume" => Resume \/ ResumeFails \/ Crash
         /\ pc = "create" => Create \/ CreateFails \/ Crash
         /\ pc = "store" => Store \/ StoreFails \/ Crash
         /\ pc = "flag" => Flag \/ Crash
         /\ pc = "reset" => Reset \/ ResetFails \/ Crash
         /\ pc = "shield" => Shield \/ Crash
         /\ pc = "send" => Send \/ Quit \/ CheckpointFails \/ Crash
         /\ pc = "node" => FlowStep \/ CheckpointFails \/ Crash
         /\ pc = "reply" => Finish \/ CheckpointFails \/ Crash
         /\ pc = "route" => RouteBack \/ RouteCompleted \/ RouteOn \/ RouteAnswer \/ Crash
         /\ pc = "handover" => HandOver \/ HandOverFails \/ Crash
         /\ pc = "answer" => Answer \/ Crash
<1>1. FlowStep => pc = "node"
  BY DEF FlowStep, OutOfSteps, TakeMessage, Wait, Terminal, NoResponse, Process,
         Classify, NothingToClassify, Validate, NothingToValidate, MayRun
<1>2. ASSUME NEW input \in Inputs, Begin(input) PROVE Starts
  BY <1>2 DEF Begin, Starts
<1>3. /\ Clear \/ ClearFails => pc = "clear"
      /\ Resume \/ ResumeFails => pc = "resume"
      /\ Create \/ CreateFails => pc = "create"
      /\ Store \/ StoreFails => pc = "store"
      /\ Flag => pc = "flag"
      /\ Reset \/ ResetFails => pc = "reset"
  BY DEF Clear, Resume, Create, Store, Flag, Reset, ClearFails, ResumeFails, CreateFails,
         StoreFails, ResetFails
<1>4. /\ Shield => pc = "shield"
      /\ Send \/ Quit => pc = "send"
      /\ CheckpointFails => pc \in {"send", "node", "reply"}
      /\ Finish => pc = "reply"
      /\ RouteBack \/ RouteCompleted \/ RouteOn \/ RouteAnswer => pc = "route"
      /\ HandOver \/ HandOverFails => pc = "handover"
      /\ Answer => pc = "answer"
      /\ Crash => pc # "idle"
  BY DEF Shield, Send, Quit, CheckpointFails, Finish, RouteBack, RouteCompleted, RouteOn,
         RouteAnswer, HandOver, HandOverFails, Answer, Crash
<1>5. Starts => pc = "idle"
  BY DEF Starts
<1>6. \/ Starts \/ Clear \/ Resume \/ Create \/ Store \/ Flag \/ Reset \/ Shield \/ Send \/ Quit
      \/ FlowStep \/ Finish \/ RouteBack \/ RouteCompleted \/ RouteOn \/ RouteAnswer
      \/ HandOver \/ Answer \/ ClearFails \/ ResumeFails \/ CreateFails \/ StoreFails
      \/ ResetFails \/ CheckpointFails \/ HandOverFails \/ Crash
  <2>1. (\E input \in Inputs : Begin(input)) \/ TurnStep \/ Faults
    BY DEF Next
  <2>2. CASE \E input \in Inputs : Begin(input)
    BY <1>2, <2>2
  <2>3. CASE TurnStep
    BY <2>3 DEF TurnStep
  <2>4. CASE Faults
    BY <2>4 DEF Faults
  <2> QED
    BY <2>1, <2>2, <2>3, <2>4
<1> QED
  BY <1>1, <1>3, <1>4, <1>5, <1>6, SMT

\* As long as a specialist has the ticket no step turns to a reset or a handover,
\* and a new conversation is the specialist's.
LEMMA NobodyElse ==
  ASSUME TypeOK, Held, Placed, Stays, Next,
         ~ReturnAllowed, row.agent \in Agents \ EntryTier
  PROVE  /\ pc' \notin {"reset", "handover"}
         /\ conv'.agent \in {NoAgent, row.agent}
         /\ row'.agent = row.agent
<1>0. /\ row \in Rows /\ conv.agent \in {NoAgent, row.agent} /\ pc \notin {"reset", "handover"}
      /\ conv.agent = NoAgent <=> conv.thread = NoThread
      /\ TurnTypes
  BY TypeParts DEF Stays
<1>s. IsSpecialist(row.agent) /\ row.agent # NoAgent /\ session = "ticket"
  BY AgentsKnown DEF IsSpecialist, ReturnAllowed
<1>c. pc \in {"flag", "route", "store"} => conv.agent = row.agent
  BY <1>0 DEF Held
<1>e. ASSUME NEW kind, End(kind) PROVE pc' = "idle" /\ conv'.agent = NoAgent
  BY <1>e DEF End, NoConversation
<1> USE <1>0
<1>1. ASSUME Crash PROVE pc' = "idle" /\ conv'.agent = NoAgent /\ row' = row
  BY <1>1, <1>e DEF Crash
<1>2. CASE pc = "idle"
  BY <1>2, <1>s, WhoMoves DEF Starts, Begin, RowOfNextTurn, Rows
<1>3. CASE pc = "clear"
  BY <1>1, <1>3, <1>e, WhoMoves DEF Clear, ClearFails, Rows
<1>4. CASE pc = "resume"
  BY <1>1, <1>4, WhoMoves DEF Resume, Finished, OfRow, ResumeFails
<1>5. CASE pc = "create"
  <2>1. ASSUME Create PROVE conv'.agent = row.agent /\ pc' = "store" /\ row' = row
    BY <2>1, <1>s DEF Create, NewConversation, AgentOfRow
  <2>2. ASSUME CreateFails
        PROVE  conv'.agent \in {NoAgent, row.agent} /\ pc' \in {"idle", "resume"} /\ row' = row
    BY <2>2, <1>e DEF CreateFails
  <2> QED
    BY <1>1, <1>5, <2>1, <2>2, WhoMoves
<1>6. CASE pc = "store"
  BY <1>1, <1>6, <1>c, WhoMoves DEF Store, Stored, AfterStore, StoreFails, Rows
<1>7. CASE pc = "flag"
  BY <1>1, <1>7, <1>s, <1>c, WhoMoves DEF Flag, BackWanted
<1>8. CASE pc = "shield"
  BY <1>1, <1>8, <1>e, WhoMoves DEF Shield, Blocked
<1>9. CASE pc \in {"send", "reply"}
  BY <1>1, <1>9, WhoMoves DEF Send, Quit, Finish, CheckpointFails, Interrupted
<1>10. CASE pc = "node"
  <2>1. ASSUME FlowStep
        PROVE  pc' \in {"node", "reply", "answer", "route"} /\ conv' = conv /\ row' = row
    BY <2>1, FlowMoves DEF Moves, CutOff
  <2> QED
    BY <1>1, <1>10, <2>1, WhoMoves DEF CheckpointFails, Interrupted
<1>11. CASE pc = "route"
  BY <1>1, <1>11, <1>s, <1>c, WhoMoves
  DEF RouteBack, GoesBack, RouteCompleted, RouteOn, GoesOn, RouteAnswer
<1>12. CASE pc = "answer"
  BY <1>1, <1>12, <1>e, WhoMoves DEF Answer, Blocked
<1> QED
  BY <1>2, <1>3, <1>4, <1>5, <1>6, <1>7, <1>8, <1>9, <1>10, <1>11, <1>12 DEF TurnTypes

\* When a row comes to name a specialist it is the conversation the turn has.
LEMMA StaysKept ==
  ASSUME TypeOK, Held, Placed, Addressed, Stays, Next
  PROVE  Stays'
<1> SUFFICES ASSUME ~ReturnAllowed, row'.agent \in Agents \ EntryTier
    PROVE  conv'.agent \in {NoAgent, row'.agent} /\ pc' \notin {"reset", "handover"}
  BY SameSession DEF Stays
<1>1. CASE row.agent \in Agents \ EntryTier
  BY <1>1, NobodyElse
<1>2. CASE row.agent \notin Agents \ EntryTier
  <2>0. /\ row \in Rows /\ conv.agent \in Agents \union {NoAgent}
        /\ EntryAgent \in EntryTier
    BY TypeParts DEF ConversationRefs, EntryTier
  <2>1. CASE Starts
    BY <2>0, <2>1, <1>2 DEF Starts, Begin, RowOfNextTurn, Rows
  <2>2. CASE GivesUp
    BY <2>0, <2>2, <1>2, AgentsKnown DEF GivesUp, Rows
  <2>3. CASE Stores
    BY <2>0, <2>3, <1>2 DEF Stores, Stored, Rows
  <2>4. CASE Ends
    BY <2>0, <2>4, <1>2 DEF Ends, Rows
  <2> QED
    BY <1>2, <2>1, <2>2, <2>3, <2>4, Shapes DEF Quiet, Takes, Renews, Writes
<1> QED
  BY <1>1, <1>2

-----------------------------------------------------------------------------
(***************************************************************************)
(* Without a fault.                                                        *)
(***************************************************************************)
\* As long as nothing has failed, nothing fails.
LEMMA FaultsAreCounted ==
  ASSUME TypeOK, Held, Placed, Next, faults' = 0
  PROVE  /\ faults = 0
         /\ ~ClearFails /\ ~ResumeFails /\ ~CreateFails /\ ~StoreFails /\ ~ResetFails
         /\ ~CheckpointFails /\ ~HandOverFails /\ ~Crash
<1>1. faults \in Nat
  BY TypeParts DEF TurnTypes
<1>2. ~Fault
  BY <1>1 DEF Fault
<1>3. /\ ~ClearFails /\ ~ResumeFails /\ ~CreateFails /\ ~StoreFails /\ ~ResetFails
      /\ ~CheckpointFails /\ ~HandOverFails /\ ~Crash
  BY <1>2 DEF ClearFails, ResumeFails, CreateFails, StoreFails, ResetFails,
              CheckpointFails, HandOverFails, Crash
<1>4. CASE Faults
  BY <1>3, <1>4 DEF Faults
<1>5. CASE FlowStep
  <2>1. faults' = faults
    BY <1>5, FlowMoves DEF Moves, CutOff
  <2> QED
    BY <2>1, <1>3
<1>6. CASE ~Faults /\ ~FlowStep
  <2>1. faults' = faults
    BY <1>6
    DEF Next, TurnStep, Begin, Clear, Resume, Create, Store, Flag, Reset, Shield, Send, Quit,
        Finish, RouteBack, RouteCompleted, StartOver, RouteOn, RouteAnswer, HandOver, Answer
  <2> QED
    BY <2>1, <1>3
<1> QED
  BY <1>3, <1>4, <1>5, <1>6

\* The flow and what reads it leave row and conversation alone.
LEMMA LeftAlone ==
  ASSUME TypeOK, Held, Placed, Send \/ Quit \/ FlowStep \/ Finish
  PROVE  /\ row' = row /\ conv' = conv /\ session' = session
         /\ pc' \in {"node", "reply", "route", "answer"}
<1>1. CASE FlowStep
  BY <1>1, FlowMoves DEF Moves, CutOff
<1>2. CASE Send \/ Quit \/ Finish
  BY <1>2 DEF Send, Quit, Finish
<1> QED
  BY <1>1, <1>2

LEMMA AgreeKept ==
  ASSUME TypeOK, Held, Placed, Agree, Next
  PROVE  Agree'
<1> DEFINE Together == row.agent = conv.agent /\ row.thread = conv.thread
           Last == row.agent = answer.agent /\ row.thread = answer.thread
           Working == pc \in {"flag", "shield", "send", "node", "reply", "route", "handover", "answer"}
           Answered == pc = "idle" /\ answer.kind \in {"flow", "quit", "error", "refused"}
<1>0. SUFFICES ASSUME faults' = 0
      PROVE  (Working => Together)' /\ (Answered => Last)'
  BY DEF Agree
<1>1. /\ faults = 0
      /\ ~ClearFails /\ ~ResumeFails /\ ~CreateFails /\ ~StoreFails /\ ~ResetFails
      /\ ~CheckpointFails /\ ~HandOverFails /\ ~Crash
  BY <1>0, FaultsAreCounted
<1>2. Working => Together
  BY <1>1 DEF Agree
<1>3. row \in Rows /\ TurnTypes
  BY TypeParts
<1>e. ASSUME NEW kind, End(kind), row' = row, Working
      PROVE  (Working => Together)' /\ (Answered => Last)'
  BY <1>e, <1>2 DEF End
<1>4. CASE pc = "idle"
  BY <1>4, WhoMoves DEF Starts, Begin
<1>5. CASE pc = "clear"
  <2>1. End("cleared")
    BY <1>5, <1>1, WhoMoves DEF Clear
  <2>2. pc' = "idle" /\ answer'.kind = "cleared"
    BY <2>1 DEF End
  <2> QED
    BY <2>2
<1>6. CASE pc = "resume"
  BY <1>6, <1>1, WhoMoves DEF Resume, OfRow
<1>7. CASE pc \in {"create", "handover"}
  BY <1>7, <1>1, WhoMoves DEF Create, HandOver
<1>8. CASE pc = "store"
  BY <1>8, <1>1, <1>3, WhoMoves DEF Store, Stored, AfterStore, Rows
<1>9. CASE pc = "flag"
  BY <1>9, <1>1, <1>2, WhoMoves DEF Flag
<1>10. CASE pc = "reset"
  BY <1>10, <1>1, <1>3, WhoMoves DEF Reset, TurnTypes, Turns
<1>11. CASE pc = "shield"
  <2>1. Shield
    BY <1>1, <1>11, WhoMoves
  <2>2. ASSUME Blocked PROVE (Working => Together)' /\ (Answered => Last)'
    BY <2>1, <2>2, <1>e, <1>11 DEF Shield, Blocked
  <2>3. ASSUME ~Blocked PROVE (Working => Together)' /\ (Answered => Last)'
    BY <2>1, <2>3, <1>2 DEF Shield
  <2> QED
    BY <2>2, <2>3
<1>12. CASE pc \in {"send", "node", "reply"}
  BY <1>12, <1>1, <1>2, WhoMoves, LeftAlone
<1>13. CASE pc = "route"
  BY <1>13, <1>1, <1>2, WhoMoves DEF RouteBack, RouteCompleted, StartOver, RouteOn, RouteAnswer
<1>14. CASE pc = "answer"
  BY <1>14, <1>1, <1>e, WhoMoves DEF Answer, Blocked
<1> QED
  BY <1>3, <1>4, <1>5, <1>6, <1>7, <1>8, <1>9, <1>10, <1>11, <1>12, <1>13, <1>14 DEF TurnTypes

\* A decision of the flow is noted, and the routing looks at every one of them.
LEMMA FreshKept ==
  ASSUME TypeOK, Held, Placed, Addressed, Agree, Active, Fresh, Next
  PROVE  Fresh'
<1> DEFINE Working == pc \in {"store", "flag", "shield", "send", "node", "reply", "route", "answer"}
           Goal == /\ Working => Pending(conv)
                   /\ pc \in {"idle", "clear", "resume"} => Pending(row)
                   /\ pc = "handover" /\ turn.by = "decision" => decided
<1>0. SUFFICES ASSUME faults' = 0
      PROVE  Goal'
  BY DEF Fresh
<1>1. /\ faults = 0
      /\ ~ClearFails /\ ~ResumeFails /\ ~CreateFails /\ ~StoreFails /\ ~ResetFails
      /\ ~CheckpointFails /\ ~HandOverFails /\ ~Crash
  BY <1>0, FaultsAreCounted
<1>2. Goal
  BY <1>1 DEF Fresh
<1>3. /\ row \in Rows /\ threads \in [Threads -> Checkpoints] /\ conv \in ConversationRefs
      /\ conv.agent = NoAgent <=> conv.thread = NoThread
      /\ TurnTypes
  BY TypeParts
<1>s. session' = session /\ \A a : IsSpecialist(a)' <=> IsSpecialist(a)
  BY SameSession
\* The same conversation or row, the same checkpoints.
<1>k. ASSUME NEW r, Pending(r), threads' = threads, decided' = decided
      PROVE  r.thread \in Threads /\ ~IsSpecialist(r.agent)'
               /\ threads'[r.thread].decision \in Agents \ {Router} => decided'
  BY <1>k, <1>s DEF Pending
<1>e. ASSUME NEW kind, End(kind), UNCHANGED <<row, threads>>, Pending(row)
      PROVE  Goal'
  <2>1. pc' = "idle" /\ decided' = decided
    BY <1>e DEF End
  <2> QED
    BY <2>1, <1>e, <1>s DEF Pending
<1>4. CASE pc = "idle"
  <2>1. PICK input \in Inputs : Begin(input)
    BY <1>4, WhoMoves DEF Starts
  <2>2. /\ threads' = [t \in Threads |-> IF t = row'.thread THEN threads[t] ELSE Blank]
        /\ pc' \in {"clear", "resume"} /\ decided' = decided
    BY <2>1 DEF Begin
  <2>3. row'.thread \in Threads => row'.thread = row.thread /\ row'.agent = row.agent
    BY <2>1, <1>3, AgentsKnown DEF Begin, RowOfNextTurn, Rows
  <2> QED
    BY <1>2, <1>4, <1>s, <2>2, <2>3 DEF Pending
<1>5. CASE pc = "clear"
  <2>1. row'.thread = row.thread /\ row'.agent = row.agent /\ threads' = threads
    BY <1>5, <1>1, <1>3, WhoMoves DEF Clear, Rows
  <2>2. pc' = "idle" /\ decided' = decided
    BY <1>5, <1>1, WhoMoves DEF Clear, End
  <2> QED
    BY <1>2, <1>5, <1>s, <2>1, <2>2 DEF Pending
<1>6. CASE pc = "resume"
  <2>1. Resume
    BY <1>6, <1>1, WhoMoves
  <2>2. /\ UNCHANGED <<row, threads, decided>>
        /\ pc' \in {"create", "reset"} \/ (pc' = "flag" /\ conv' = OfRow)
    BY <2>1 DEF Resume
  <2> QED
    BY <1>2, <1>6, <1>s, <2>2 DEF Pending, OfRow
<1>7. CASE pc \in {"create", "handover"}
  <2>1. \E a \in Agents : NewConversation(a) /\ pc' = "store"
    BY <1>7, <1>1, AgentsKnown, WhoMoves DEF Create, HandOver, AgentOfRow, Addressed, TypeOK
  <2>2. PICK a \in Agents : NewConversation(a) /\ pc' = "store"
    BY <2>1
  <2>3. PICK free \in Threads \ {row.thread, conv.thread} :
           /\ conv' = [agent |-> a, thread |-> free]
           /\ threads' = [threads EXCEPT ![free] = Blank]
    BY <2>2, NewIsFree
  <2>4. threads'[conv'.thread].decision = NoAgent
    BY <2>3, <1>3, BlankKnown
  <2> QED
    BY <2>2, <2>4, AgentsKnown DEF Pending
<1>8. CASE pc = "store"
  BY <1>8, <1>1, <1>2, <1>s, WhoMoves DEF Store, AfterStore, Pending
<1>9. CASE pc = "flag"
  BY <1>9, <1>1, <1>2, <1>s, WhoMoves DEF Flag, Pending
<1>10. CASE pc = "reset"
  <2>1. Reset /\ row.status = "ACTIVE"
    BY <1>10, <1>1, WhoMoves DEF Active
  <2>2. row'.thread = NoThread /\ pc' \in {"create", "resume"}
    BY <2>1, <1>3 DEF Reset, Rows, TurnTypes, Turns
  <2> QED
    BY <2>2, AgentsKnown DEF Pending
<1>11. CASE pc = "shield"
  <2>1. Shield /\ Pending(row)
    BY <1>1, <1>2, <1>11, WhoMoves DEF Agree, Pending
  <2>2. ASSUME Blocked PROVE Goal'
    BY <2>1, <2>2, <1>e DEF Shield, Blocked
  <2>3. ASSUME ~Blocked PROVE Goal'
    BY <2>1, <2>3, <1>2, <1>11, <1>s DEF Shield, Pending
  <2> QED
    BY <2>2, <2>3
<1>12. CASE pc = "send"
  <2>1. /\ row' = row /\ conv' = conv /\ pc' \in {"node", "route", "answer"} /\ decided' = decided
        /\ SetCurrent(Added(Current)) \/ threads' = threads
    BY <1>1, <1>12, WhoMoves DEF Send, Quit
  <2>2. conv.thread \in Threads /\ Added(Current).decision = Current.decision
    BY <1>12, AddedKnown, InMemory
  <2>3. threads'[conv.thread].decision = threads[conv.thread].decision
    BY <2>1, <2>2, <1>3 DEF SetCurrent, Current
  <2> QED
    BY <1>2, <1>12, <1>s, <2>1, <2>3 DEF Pending
<1>13. CASE pc = "node"
  <2>1. Moves \/ CutOff
    BY <1>1, <1>13, WhoMoves, FlowMoves
  <2>2. conv.thread \in Threads
    BY <1>13, InMemory
  <2>3. ASSUME Moves PROVE Goal'
    <3>1. PICK c \in Checkpoints :
            /\ SetCurrent(c)
            /\ \/ c.decision = Current.decision /\ (decided => decided')
               \/ c.decision \in Agents => decided'
      BY <2>3 DEF Moves
    <3>2. threads'[conv.thread] = c
      BY <3>1, <2>2, <1>3 DEF SetCurrent
    <3>3. conv' = conv /\ pc' \in {"node", "reply"}
      BY <2>3 DEF Moves
    <3>4. Pending(conv)'
      BY <1>2, <1>13, <1>s, <3>1, <3>2, <3>3 DEF Pending, Current
    <3> QED
      BY <3>3, <3>4
  <2>4. ASSUME CutOff PROVE Goal'
    BY <2>4, <1>2, <1>13, <1>s DEF CutOff, Pending
  <2> QED
    BY <2>1, <2>3, <2>4
<1>14. CASE pc = "reply"
  <2>1. /\ Finish /\ conv' = conv /\ pc' \in {"route", "answer"} /\ decided' = decided
    BY <1>1, <1>14, WhoMoves DEF Finish
  <2>2. PICK c \in Checkpoints : SetCurrent(c) /\ c.decision \in {Current.decision, NoAgent}
    BY <2>1, FinishedKnown
  <2>3. threads'[conv.thread] = c
    BY <2>2, <1>14, <1>3, InMemory DEF SetCurrent
  <2> QED
    BY <1>2, <1>14, <1>s, <2>1, <2>2, <2>3, AgentsKnown DEF Pending, Current
<1>15. CASE pc = "route"
  <2>1. RouteBack \/ RouteCompleted \/ RouteOn \/ RouteAnswer
    BY <1>1, <1>15, WhoMoves
  <2>2. CASE RouteBack \/ RouteCompleted
    BY <2>2 DEF RouteBack, RouteCompleted, StartOver
  <2>3. CASE RouteOn
    <3>1. ASSUME turn'.by = "decision"
          PROVE  Current.decision \in Agents \ {Router} /\ ~IsSpecialist(conv.agent)
      <4>1. Current.decision \in Agents
        BY <2>3, <3>1, <1>3 DEF RouteOn, TurnTypes, Turns
      <4>2. Routed # Router /\ ~IsSpecialist(conv.agent)
        BY <2>3 DEF RouteOn, GoesOn
      <4> QED
        BY <4>1, <4>2 DEF Routed, Chosen
    <3>2. conv.thread \in Threads
      BY <1>15, InMemory
    <3>3. turn'.by = "decision" => decided
      BY <3>1, <3>2, <1>2, <1>15 DEF Pending, Current
    <3> QED
      BY <2>3, <3>3 DEF RouteOn
  <2>4. CASE RouteAnswer
    <3>1. ASSUME ~IsSpecialist(conv.agent) PROVE Current.decision \notin Agents \ {Router}
      <4>1. Routed \in {NoAgent, Router}
        BY <2>4, <3>1 DEF RouteAnswer, GoesOn
      <4> QED
        BY <4>1, <3>1, AgentsKnown DEF Routed, Chosen
    <3> QED
      BY <2>4, <3>1, <1>s DEF RouteAnswer, Pending, Current
  <2> QED
    BY <2>1, <2>2, <2>3, <2>4
<1>16. CASE pc = "answer"
  <2>1. Answer /\ Pending(row)
    BY <1>1, <1>2, <1>16, WhoMoves DEF Agree, Pending
  <2> QED
    BY <2>1, <1>e DEF Answer, Blocked
<1> QED
  BY <1>3, <1>4, <1>5, <1>6, <1>7, <1>8, <1>9, <1>10, <1>11, <1>12, <1>13, <1>14, <1>15,
     <1>16
  DEF TurnTypes

-----------------------------------------------------------------------------
(***************************************************************************)
(* The theorems.                                                           *)
(***************************************************************************)
LEMMA ConversationInit ==
  ASSUME Init
  PROVE  ConversationInv
<1> USE DEF Init
<1>1. TypeOK
  <2>1. row \in Rows
    BY AgentsKnown DEF Rows
  <2>2. threads \in [Threads -> Checkpoints]
    BY BlankKnown
  <2>3. conv \in ConversationRefs /\ (conv.agent = NoAgent <=> conv.thread = NoThread)
    BY DEF NoConversation, ConversationRefs
  <2>4. TurnTypes
    BY DEF TurnTypes, NoTurn, Turns, NoReply, Replies, NoAnswer
  <2> QED
    BY <2>1, <2>2, <2>3, <2>4, TypeParts
<1>2. Held /\ Placed /\ OneAgent /\ Active /\ Addressed
  BY AgentsKnown DEF NoConversation, Held, Placed, PlacedAt, OneAgent, Active, Addressed
<1>3. Stays /\ Agree /\ Fresh
  BY AgentsKnown DEF NoConversation, NoAnswer, Stays, Agree, Fresh, Pending
<1> QED
  BY <1>1, <1>2, <1>3 DEF ConversationInv

LEMMA ConversationStep ==
  ASSUME ConversationInv, [Next]_vars
  PROVE  ConversationInv'
<1> USE DEF ConversationInv
<1>1. CASE Next
  <2>1. TypeOK'
    <3>1. TurnTypes'
      BY <1>1, TurnTyped
    <3> QED
      BY <1>1, <3>1, StoresTyped DEF TypeOK, TurnTypes, Turns, Replies, Rows
  <2>2. Held' /\ Placed' /\ OneAgent' /\ Active' /\ Addressed'
    BY <1>1, HeldKept, PlacedKept, ActiveKept
  <2>3. Stays' /\ Agree' /\ Fresh'
    BY <1>1, StaysKept, AgreeKept, FreshKept
  <2> QED
    BY <2>1, <2>2, <2>3
<1>2. CASE UNCHANGED vars
  BY <1>2
  DEF vars, TypeOK, Flow, Held, Placed, PlacedAt, OneAgent, Active, Addressed, Stays, Agree,
      Fresh, Pending, IsSpecialist, EntryTier, EntryAgent, ReturnAllowed
<1> QED
  BY <1>1, <1>2

\* The invariant holds always.
THEOREM ConversationInvariance == Spec => []ConversationInv
<1>1. Init => ConversationInv
  BY ConversationInit
<1>2. ConversationInv /\ [Next]_vars => ConversationInv'
  BY ConversationStep
<1> QED
  BY <1>1, <1>2, PTL DEF Spec

\* The types: what is in memory names an agent and a thread of his, and a flow that
\* runs is at one of the nodes of the agent that has the conversation, over every
\* reset, handover, fault and crash.
THEOREM ConversationTypes == Spec => []TypeOK
<1>1. ConversationInv => TypeOK
  BY DEF ConversationInv
<1> QED
  BY <1>1, ConversationInvariance, PTL

\* A ticket that is with a specialist stays with him, whatever fails and whatever the
\* model says (allow_return_to_router is False for the sessions of tickets).
THEOREM TicketsStay == Spec => StaysWithSpecialist
<1>1. ConversationInv /\ [Next]_vars =>
        [~ReturnAllowed /\ row.agent \in Agents \ EntryTier => row'.agent = row.agent]_vars
  BY NobodyElse DEF ConversationInv
<1> QED
  BY <1>1, ConversationInvariance, PTL DEF Spec, StaysWithSpecialist

\* Without a fault the row names the agent and the thread that have answered.
THEOREM NextTurnContinuesAlways == Spec => []NextTurnContinues
<1>1. ConversationInv => NextTurnContinues
  BY DEF ConversationInv, Agree, NextTurnContinues
<1> QED
  BY <1>1, ConversationInvariance, PTL

\* Without a fault a decision of the flow hands the user over once: it is noted
\* when it is taken, and the routing looks at it before the next one can be.
THEOREM DecisionsAreFresh == Spec => []RoutedByFreshDecision
<1>1. ConversationInv => RoutedByFreshDecision
  BY DEF ConversationInv, Fresh, RoutedByFreshDecision
<1> QED
  BY <1>1, ConversationInvariance, PTL

-----------------------------------------------------------------------------
(***************************************************************************)
(* Flows that answer every message.                                        *)
(***************************************************************************)
\* A thread's checkpoint has consumed no message it has not got, and waits, if it has
\* one, at a waiting node.
Ready(a, c) ==
  /\ c.consumed <= c.human
  /\ c.human = 0 => c.waiting = NoNode
  /\ c.waiting # NoNode => Flows[a].nodes[c.waiting].type = "waiting"
ReadyAt(r) == r.thread \in Threads => Ready(r.agent, threads[r.thread])

Answered == spoke \/ skipped
Quitting == turn.input = "quit" /\ turn.text = "input"

\* Until the model has said something the flow is on its way to a node that asks it,
\* and waits for nobody: the only waiting node it meets finds the message unread.
OnItsWay ==
  pc = "node" =>
    /\ Current.human > 0
    /\ ~Answered => /\ Node.type # "terminal"
                    /\ Node.type = "waiting" => Unread(Current)

\* So what the flow ends with is new.
New ==
  /\ pc = "reply" => Answered
  /\ pc \in {"route", "answer"} /\ ~reply.error /\ ~Quitting => Answered
  /\ AnswerIsNew

Responding == \A a \in Agents : Responsive(Flows[a])

AnswerInv == ReadyAt(row) /\ ReadyAt(conv) /\ OnItsWay /\ New


\* The end is the only terminal node.
LEMMA EndKnown ==
  ASSUME NEW a \in Agents, NEW n \in DOMAIN Flows[a].nodes
  PROVE  Flows[a].nodes[n].type = "terminal" <=> n = "end"
<1>1. WellFormed(Flows[a])
  BY ConversationAssumption
<1> QED
  BY <1>1 DEF WellFormed

\* What a step of the flow leaves: a checkpoint that is ready for the next message,
\* and an answer or a node that works on the message.
Speaks ==
  /\ \E c \in Checkpoints :
       SetCurrent(c) /\ Ready(conv.agent, c) /\ c.human = Current.human
  /\ \/ pc' \in {"node", "reply"} /\ Answered'
     \/ pc' = "node" /\ Flow.nodes[node'].type \notin {"waiting", "terminal"}

\* Where a checkpoint was written does not make it less ready.
LEMMA ReadyAnywhere ==
  ASSUME NEW a, NEW c \in Checkpoints, Ready(a, c), NEW n \in STRING
  PROVE  LET d == [c EXCEPT !.at = n] IN
         d \in Checkpoints /\ Ready(a, d) /\ d.human = c.human
BY DEF Checkpoints, Ready

LEMMA GoesOnSpeaks ==
  ASSUME TypeOK, Held, Placed, pc = "node",
         NEW n \in DOMAIN Flow.nodes, NEW c \in Checkpoints,
         Ready(conv.agent, c), c.human = Current.human, GoTo(n, c),
         Answered' \/ Flow.nodes[n].type \notin {"waiting", "terminal"}
  PROVE  Speaks
<1> DEFINE d == [c EXCEPT !.at = node]
<1>1. node \in STRING
  BY InMemory, NodeKnown DEF TypeOK
<1>2. d \in Checkpoints /\ Ready(conv.agent, d) /\ d.human = Current.human
  BY <1>1, ReadyAnywhere
<1>3. SetCurrent(d) /\ pc' = "node" /\ node' = n
  BY DEF GoTo
<1> HIDE DEF d
<1> QED
  BY <1>2, <1>3 DEF Speaks

LEMMA StopSpeaks ==
  ASSUME TypeOK, Held, Placed, pc = "node", NEW c \in Checkpoints,
         Ready(conv.agent, c), c.human = Current.human, Stop(c), Answered
  PROVE  Speaks
<1> DEFINE d == [c EXCEPT !.at = node]
<1>1. node \in STRING
  BY InMemory, NodeKnown DEF TypeOK
<1>2. d \in Checkpoints /\ Ready(conv.agent, d) /\ d.human = Current.human
  BY <1>1, ReadyAnywhere
<1>3. SetCurrent(d) /\ pc' = "reply" /\ Answered'
  BY DEF Stop, Answered
<1> HIDE DEF d
<1> QED
  BY <1>2, <1>3 DEF Speaks

\* What a branch does leaves the messages as they are.
LEMMA ActedReady ==
  ASSUME NEW a, NEW b \in Branches, NEW t \in Texts \union {"none"}, NEW c \in Checkpoints,
         Ready(a, c)
  PROVE  Ready(a, Acted(b, t, c)) /\ Acted(b, t, c).human = c.human
<1>1. /\ Acted(b, t, c).human = c.human /\ Acted(b, t, c).consumed = c.consumed
      /\ Acted(b, t, c).waiting = c.waiting
  BY DEF Acted, Checkpoints
<1> QED
  BY <1>1 DEF Ready

LEMMA TakeSpeaks ==
  ASSUME TypeOK, Held, Placed, pc = "node", Ready(conv.agent, Current),
         NEW b \in Branches, b.to \in DOMAIN Flow.nodes, NEW t \in Texts \union {"none"},
         Take(b, t),
         Answered' \/ Flow.nodes[b.to].type \notin {"waiting", "terminal"}
  PROVE  Speaks
<1> DEFINE c == Acted(b, t, Current)
<1>1. c \in Checkpoints /\ Ready(conv.agent, c) /\ c.human = Current.human
  BY InMemory, ActedKnown, ActedReady
<1>2. GoTo(b.to, c)
  BY DEF Take
<1> HIDE DEF c
<1> QED
  BY <1>1, <1>2, GoesOnSpeaks

LEMMA SaySpeaks ==
  ASSUME TypeOK, Held, Placed, pc = "node", Ready(conv.agent, Current),
         NEW n \in DOMAIN Flow.nodes, NEW t \in Texts, Say(n, t)
  PROVE  Speaks
<1> DEFINE c == [Current EXCEPT !.last = t]
<1>1. c \in Checkpoints /\ Ready(conv.agent, c) /\ c.human = Current.human
  BY InMemory DEF Checkpoints, Ready
<1>2. GoTo(n, c) /\ Answered'
  BY DEF Say, Answered
<1> HIDE DEF c
<1> QED
  BY <1>1, <1>2, GoesOnSpeaks

\* A step of a flow that is on its way leaves it on its way or answered, or is cut
\* off.
LEMMA FlowSpeaks ==
  ASSUME TypeOK, Held, Placed, Responding, ReadyAt(conv), OnItsWay, FlowStep
  PROVE  Speaks \/ CutOff
<1>1. pc = "node"
  BY FlowMoves
<1> USE <1>1
<1>2. /\ conv.agent \in Agents /\ conv.thread \in Threads /\ node \in DOMAIN Flow.nodes
      /\ Current \in Checkpoints /\ Ready(conv.agent, Current)
  BY InMemory DEF TypeOK, ReadyAt, Current
<1>3. {Node.next, Node.otherwise, Node.fails, "end"} \subseteq DOMAIN Flow.nodes
  BY <1>2, NodeKnown
<1>4. Responses = Texts /\ "plain" \in Texts
  BY ConversationAssumption DEF Responses, Refusal, ErrorText
<1>5. /\ Node.type = "waiting" /\ Node.next # "end" =>
           Flow.nodes[Node.next].type \notin {"waiting", "terminal"}
      /\ Node.type = "intent" =>
           \A i \in DOMAIN Node.branches :
             Node.branches[i].says = "nothing" =>
               Flow.nodes[Node.branches[i].to].type \notin {"waiting", "terminal"}
  BY <1>2, <1>3, EndKnown DEF Responding, Responsive, Flow, Node
<1>6. CASE OutOfSteps \/ NothingToValidate
  BY <1>6 DEF OutOfSteps, NothingToValidate, Interrupted, CutOff, TypeOK
<1>7. CASE TakeMessage
  <2> DEFINE c == [Current EXCEPT !.consumed = Current.human, !.waiting = NoNode]
  <2>0. Current.human \in Nat
    BY <1>2 DEF Checkpoints
  <2>1. /\ c \in Checkpoints
        /\ c.human = Current.human /\ c.consumed = Current.human /\ c.waiting = NoNode
    BY <1>2, <2>0 DEF Checkpoints
  <2>2. /\ GoTo(Node.next, c) /\ Node.type = "waiting"
        /\ Node.next = "end" => Answered'
    BY <1>7 DEF TakeMessage, Answered
  <2> HIDE DEF c
  <2>3. Ready(conv.agent, c)
    BY <2>0, <2>1 DEF Ready
  <2> QED
    BY <2>1, <2>2, <2>3, <1>3, <1>5, GoesOnSpeaks
<1>8. CASE Wait
  <2> DEFINE c == [Current EXCEPT !.waiting = node]
  <2>1. node \in STRING
    BY <1>2, NodeKnown
  <2>2. Node.type = "waiting" /\ Answered /\ Stop(c) /\ Current.human > 0
    BY <1>8 DEF Wait, OnItsWay
  <2>3. c \in Checkpoints /\ Ready(conv.agent, c) /\ c.human = Current.human
    BY <1>2, <2>1, <2>2 DEF Checkpoints, Ready, Node, Flow
  <2> HIDE DEF c
  <2> QED
    BY <2>2, <2>3, StopSpeaks
<1>9. CASE Terminal
  <2>1. Answered /\ Stop(Current)
    BY <1>9 DEF Terminal, OnItsWay
  <2> QED
    BY <2>1, <1>2, StopSpeaks
<1>10. CASE NoResponse \/ Validate
  BY <1>10, <1>2, <1>3, <1>4, SaySpeaks DEF NoResponse, Validate
<1>11. CASE Process
  <2>1. PICK t \in Texts :
          IF SomeFires(t, Current)
          THEN Take(Node.branches[FirstFiring(t, Current)], t) /\ spoke' = TRUE
          ELSE Say(Node.otherwise, t)
    BY <1>11, <1>4 DEF Process
  <2>2. CASE SomeFires(t, Current)
    <3> DEFINE b == Node.branches[FirstFiring(t, Current)]
    <3>1. b \in Branches /\ b.to \in DOMAIN Flow.nodes
      BY <1>2, <2>2, FirstIsBranch
    <3>2. Take(b, t) /\ Answered'
      BY <2>1, <2>2 DEF Answered
    <3> HIDE DEF b
    <3> QED
      BY <1>2, <3>1, <3>2, TakeSpeaks
  <2>3. CASE ~SomeFires(t, Current)
    BY <2>1, <2>3, <1>2, <1>3, SaySpeaks
  <2> QED
    BY <2>2, <2>3
<1>12. CASE Classify
  <2>0. Node.type = "intent"
    BY <1>12 DEF Classify
  <2>1. PICK t \in Texts :
          IF SomeFires(t, Current)
          THEN LET b == Node.branches[FirstFiring(t, Current)]
               IN  IF b.says = "asks"
                   THEN \E u \in Responses : Take(b, u) /\ spoke' = TRUE
                   ELSE Take(b, Current.last) /\ spoke' = (b.says \in Texts)
          ELSE /\ GoTo("end", Current)
               /\ skipped' = TRUE
               /\ UNCHANGED <<spoke, decided>>
    BY <1>12, <1>4 DEF Classify
  <2>2. CASE SomeFires(t, Current)
    <3> DEFINE b == Node.branches[FirstFiring(t, Current)]
    <3>1. /\ b \in Branches /\ b.to \in DOMAIN Flow.nodes
          /\ b.says = "nothing" => Flow.nodes[b.to].type \notin {"waiting", "terminal"}
      BY <1>2, <1>5, <2>0, <2>2, FirstIsBranch
    <3>2. Current.last \in Texts \union {"none"}
      BY <1>2 DEF Checkpoints
    <3>3. \/ b.says = "asks" /\ \E u \in Texts : Take(b, u) /\ spoke' = TRUE
          \/ b.says # "asks" /\ Take(b, Current.last) /\ spoke' = (b.says \in Texts)
      BY <2>1, <2>2, <1>4
    <3> HIDE DEF b
    <3>4. ASSUME NEW u \in Texts, Take(b, u), spoke' = TRUE PROVE Speaks
      BY <1>2, <3>1, <3>4, TakeSpeaks DEF Answered
    <3>5. ASSUME b.says # "asks", Take(b, Current.last), spoke' = (b.says \in Texts)
          PROVE  Speaks
      <4>1. b.says \in Texts \/ b.says = "nothing"
        BY <3>1, <3>5 DEF Branches
      <4>2. Answered' \/ Flow.nodes[b.to].type \notin {"waiting", "terminal"}
        BY <3>1, <3>5, <4>1 DEF Answered
      <4> QED
        BY <1>2, <3>1, <3>2, <3>5, <4>2, TakeSpeaks
    <3> QED
      BY <3>3, <3>4, <3>5
  <2>3. CASE ~SomeFires(t, Current)
    <3>1. GoTo("end", Current) /\ Answered'
      BY <2>1, <2>3 DEF Answered
    <3> QED
      BY <3>1, <1>2, <1>3, GoesOnSpeaks
  <2> QED
    BY <2>2, <2>3
<1>13. CASE NothingToClassify
  <2>1. GoTo("end", Current) /\ Answered'
    BY <1>13 DEF NothingToClassify, Answered
  <2> QED
    BY <2>1, <1>2, <1>3, GoesOnSpeaks
<1> QED
  BY <1>6, <1>7, <1>8, <1>9, <1>10, <1>11, <1>12, <1>13 DEF FlowStep


\* The message a turn adds is unread, at the first node if that waits or at the node
\* the last turn has stopped at.
LEMMA SendSpeaks ==
  ASSUME TypeOK, Held, Placed, Responding, ReadyAt(conv), Send
  PROVE  /\ \E c \in Checkpoints :
              SetCurrent(c) /\ Ready(conv.agent, c) /\ c.human > 0
                /\ (Flow.nodes[node'].type = "waiting" => Unread(c))
         /\ pc' = "node" /\ node' \in DOMAIN Flow.nodes
         /\ Flow.nodes[node'].type # "terminal"
<1>1. /\ conv.agent \in Agents /\ conv.thread \in Threads /\ Current \in Checkpoints
      /\ Ready(conv.agent, Current)
      /\ Current.waiting \in DOMAIN Flow.nodes \union {NoNode}
  BY InMemory DEF Send, ReadyAt, Current
<1>2. /\ SetCurrent(Added(Current)) /\ node' = FirstNode(Current) /\ pc' = "node"
      /\ Added(Current) \in Checkpoints /\ Added(Current).waiting = Current.waiting
      /\ node' \in DOMAIN Flow.nodes
  BY AddedKnown DEF Send
<1>3. Flow.nodes[node'].type # "terminal"
  <2>1. CASE Current.waiting = NoNode
    BY <1>1, <1>2, <2>1, EndKnown DEF FirstNode, Responding, Responsive, Flow
  <2>2. CASE Current.waiting # NoNode
    BY <1>1, <1>2, <2>2 DEF FirstNode, Ready, Flow
  <2> QED
    BY <2>1, <2>2
<1>4. /\ Added(Current).human > 0 /\ Added(Current).consumed <= Added(Current).human
      /\ Flow.nodes[node'].type = "waiting" => Unread(Added(Current))
  <2>0. /\ Current.human \in Nat /\ Current.consumed \in Nat
        /\ Current.consumed <= Current.human
        /\ Current.human = 0 => Current.waiting = NoNode
    BY <1>1 DEF Checkpoints, Ready
  <2>1. CASE Current.human > 0
    <3>1. /\ Added(Current).human = Current.human + 1
          /\ Added(Current).consumed = Current.consumed
      BY <1>1, <2>1 DEF Added, Checkpoints
    <3> QED
      BY <2>0, <3>1 DEF Unread
  <2>2. CASE ~(Current.human > 0)
    <3>1. node' = Flow.initial
      BY <1>2, <2>0, <2>2 DEF FirstNode
    <3>2. /\ Added(Current).human = 1
          /\ Added(Current).consumed = IF Flow.nodes[Flow.initial].type = "waiting" THEN 0 ELSE 1
      BY <1>1, <2>2 DEF Added, Checkpoints
    <3> QED
      BY <3>1, <3>2 DEF Unread
  <2> QED
    BY <2>1, <2>2
<1>5. Ready(conv.agent, Added(Current))
  BY <1>1, <1>2, <1>4 DEF Ready
<1> QED
  BY <1>2, <1>3, <1>4, <1>5

\* And what is written after the flow is as ready as what the flow has left.
LEMMA FinishReady ==
  ASSUME TypeOK, Held, Placed, ReadyAt(conv), Finish
  PROVE  \E c \in Checkpoints : SetCurrent(c) /\ Ready(conv.agent, c)
<1> DEFINE c == IF Current.at = "end" /\ Flow.resets THEN Cleared(Current) ELSE Current
<1>1. Current \in Checkpoints /\ Ready(conv.agent, Current)
  BY InMemory DEF Finish, ReadyAt, Current
<1>2. /\ Cleared(Current) \in Checkpoints
      /\ Cleared(Current).human = Current.human /\ Cleared(Current).consumed = Current.consumed
      /\ Cleared(Current).waiting = Current.waiting
  <2> DEFINE d == IF "decision" \in Flow.clears THEN NoAgent ELSE Current.decision
             k == Current.back /\ "back" \notin Flow.clears
             n == IF "tries" \in Flow.clears THEN 0 ELSE Current.tries
  <2>1. Cleared(Current) = [Current EXCEPT !.decision = d, !.back = k, !.tries = n]
    BY <1>1 DEF Cleared, Checkpoints
  <2> HIDE DEF d, k, n
  <2> QED
    BY <1>1, <2>1, ClearedKnown DEF Checkpoints
<1>3. c \in Checkpoints /\ Ready(conv.agent, c)
  BY <1>1, <1>2 DEF Ready
<1>4. SetCurrent(c)
  BY DEF Finish
<1> HIDE DEF c
<1> QED
  BY <1>3, <1>4

\* A checkpoint that is written is written to the thread of the turn, and the row's
\* agent is the same if its thread is.
LEMMA WrittenReady ==
  ASSUME TypeOK, Held, Placed, OneAgent, pc \in {"send", "node", "reply"},
         ReadyAt(row), NEW c, SetCurrent(c), Ready(conv.agent, c),
         row' = row, conv' = conv
  PROVE  ReadyAt(row)' /\ ReadyAt(conv)' /\ Current' = c
<1>1. conv.thread \in Threads /\ threads \in [Threads -> Checkpoints]
  BY InMemory DEF TypeOK
<1>2. threads' = [threads EXCEPT ![conv.thread] = c]
  BY DEF SetCurrent
<1>3. conv.thread # NoThread
  BY <1>1, AgentsKnown
<1> QED
  BY <1>1, <1>2, <1>3 DEF ReadyAt, OneAgent, Current


\* Checkpoints stay ready.
LEMMA ReadyKept ==
  ASSUME TypeOK, Held, Placed, OneAgent, Addressed, Responding, AnswerInv, Next
  PROVE  ReadyAt(row)' /\ ReadyAt(conv)'
<1>0. /\ row \in Rows /\ threads \in [Threads -> Checkpoints] /\ conv \in ConversationRefs
      /\ NoThread \notin Threads /\ NoConversation.thread = NoThread
  BY TypeParts, AgentsKnown DEF NoConversation
<1>b. \A a : Ready(a, Blank)
  BY DEF Ready, Blank
<1> USE <1>0, <1>b DEF AnswerInv, ReadyAt
<1>1. CASE Starts
  <2>1. PICK input \in Inputs : Begin(input)
    BY <1>1 DEF Starts
  <2>2. /\ threads' = [t \in Threads |-> IF t = row'.thread THEN threads[t] ELSE Blank]
        /\ conv' = conv /\ conv.thread = NoThread
    BY <1>1, <2>1 DEF Starts, Begin, Held
  <2>3. row'.thread \in Threads => row'.thread = row.thread /\ row'.agent = row.agent
    BY <2>1 DEF Begin, RowOfNextTurn, Rows
  <2> QED
    BY <2>2, <2>3
<1>2. CASE Quiet
  BY <1>2 DEF Quiet
<1>3. CASE Ends
  BY <1>3 DEF Ends, Rows
<1>4. CASE Takes
  BY <1>4 DEF Takes, OfRow
<1>5. CASE GivesUp
  BY <1>5 DEF GivesUp, Rows
<1>6. CASE Renews
  <2>1. PICK a \in Agents, free \in Threads \ {row.thread, conv.thread} :
          /\ conv' = [agent |-> a, thread |-> free]
          /\ threads' = [threads EXCEPT ![free] = Blank]
    BY <1>6 DEF Renews
  <2>2. row' = row
    BY <1>6 DEF Renews
  <2> QED
    BY <2>1, <2>2
<1>7. CASE Stores
  <2>1. row'.agent = conv.agent /\ row'.thread = conv.thread /\ conv' = conv /\ threads' = threads
    BY <1>7 DEF Stores, Stored, Rows
  <2> QED
    BY <2>1
<1>8. CASE Writes
  <2>0. row' = row /\ conv' = conv /\ pc \in {"send", "node", "reply"} /\ pc' # "idle"
    BY <1>8 DEF Writes
  <2>1. Send \/ Quit \/ FlowStep \/ Finish \/ CheckpointFails
    BY <2>0, WhoMoves DEF Crash, End
  <2>2. CASE Quit \/ CheckpointFails \/ CutOff
    BY <2>0, <2>2 DEF Quit, CheckpointFails, Interrupted, CutOff
  <2>3. ASSUME NEW c, SetCurrent(c), Ready(conv.agent, c)
        PROVE  ReadyAt(row)' /\ ReadyAt(conv)'
    BY <2>0, <2>3, WrittenReady
  <2>4. CASE Send
    BY <2>3, <2>4, SendSpeaks
  <2>5. CASE Finish
    BY <2>3, <2>5, FinishReady
  <2>6. CASE FlowStep
    BY <2>2, <2>3, <2>6, FlowSpeaks DEF Speaks
  <2> QED
    BY <2>1, <2>2, <2>4, <2>5, <2>6
<1> QED
  BY <1>1, <1>2, <1>3, <1>4, <1>5, <1>6, <1>7, <1>8, Shapes

\* A flow is on its way from the first step to its answer.
LEMMA WayKept ==
  ASSUME TypeOK, Held, Placed, OneAgent, Responding, AnswerInv, Next
  PROVE  OnItsWay' /\ (pc' = "reply" => Answered')
<1> SUFFICES ASSUME pc' \in {"node", "reply"}
             PROVE  OnItsWay' /\ (pc' = "reply" => Answered')
  BY DEF OnItsWay
<1>1. Send \/ FlowStep
  <2>1. pc \in {"send", "node"}
    BY WhoMoves DEF TypeOK, Starts, Begin, Clear, ClearFails, Resume, ResumeFails, Create,
       CreateFails, Store, StoreFails, AfterStore, Flag, Reset, ResetFails, Shield, Blocked,
       Finish, CheckpointFails, Interrupted, RouteBack, RouteCompleted, StartOver, RouteOn,
       RouteAnswer, HandOver, HandOverFails, Answer, Crash, End
  <2> QED
    BY <2>1, WhoMoves DEF Quit, CheckpointFails, Interrupted, Crash, End
<1>2. CASE Send
  <2>1. PICK c \in Checkpoints :
          /\ SetCurrent(c) /\ Ready(conv.agent, c) /\ c.human > 0
          /\ Flow.nodes[node'].type = "waiting" => Unread(c)
    BY <1>2, SendSpeaks DEF AnswerInv
  <2>2. row' = row /\ conv' = conv /\ pc = "send" /\ pc' = "node"
    BY <1>2 DEF Send
  <2>3. Current' = c
    BY <2>1, <2>2, WrittenReady DEF AnswerInv
  <2>4. Node' = Flow.nodes[node'] /\ Flow.nodes[node'].type # "terminal"
    BY <1>2, <2>2, SendSpeaks DEF AnswerInv, Node, Flow
  <2> QED
    BY <2>1, <2>2, <2>3, <2>4 DEF OnItsWay, Unread
<1>3. CASE FlowStep
  <2>1. pc = "node" /\ Speaks
    BY <1>3, FlowMoves, FlowSpeaks DEF AnswerInv, CutOff
  <2>2. row' = row /\ conv' = conv
    BY <1>3, FlowMoves DEF Moves, CutOff
  <2>3. PICK c \in Checkpoints :
          SetCurrent(c) /\ Ready(conv.agent, c) /\ c.human = Current.human
    BY <2>1 DEF Speaks
  <2>4. Current' = c
    BY <2>1, <2>2, <2>3, WrittenReady DEF AnswerInv
  <2>5. Current'.human > 0
    BY <2>1, <2>3, <2>4 DEF AnswerInv, OnItsWay
  <2>6. Node' = Flow.nodes[node']
    BY <2>2 DEF Node, Flow
  <2> QED
    BY <2>1, <2>5, <2>6 DEF Speaks, OnItsWay
<1> QED
  BY <1>1, <1>2, <1>3

\* The answer is what the flow has ended with, an apology or the farewell.
LEMMA NewKept ==
  ASSUME TypeOK, Held, Placed, OneAgent, Responding, AnswerInv, Next
  PROVE  New'
<1> USE DEF AnswerInv, New
<1>0. pc' = "reply" => Answered'
  BY WayKept
<1>t. TurnTypes
  BY TypeParts
<1>e. ASSUME NEW kind, End(kind), kind = "flow" => Answered PROVE New'
  BY <1>e DEF End, AnswerIsNew, Answered
<1>1. CASE pc = "idle"
  BY <1>1, WhoMoves DEF Starts, Begin, NoAnswer, AnswerIsNew
<1>c. CASE Crash
  BY <1>c, <1>e DEF Crash
<1>f. ASSUME pc' \in {"resume", "create", "store", "send", "flag", "reset", "shield"}
      PROVE  New'
  BY <1>f DEF AnswerIsNew
<1>2. CASE pc \in {"clear", "resume", "create", "store", "flag", "reset", "shield", "handover"}
  <2>1. CASE Clear \/ ClearFails
    BY <2>1, <1>e DEF Clear, ClearFails
  <2>2. CASE Resume \/ ResumeFails \/ Create \/ HandOver
    BY <2>2, <1>f DEF Resume, ResumeFails, Create, HandOver
  <2>3. CASE CreateFails
    BY <2>3, <1>e, <1>f DEF CreateFails
  <2>4. CASE Store \/ StoreFails \/ Flag
    BY <2>4, <1>f DEF Store, StoreFails, AfterStore, Flag
  <2>5. CASE Reset \/ ResetFails
    BY <2>5, <1>f, <1>t DEF Reset, ResetFails, TurnTypes, Turns
  <2>6. CASE Shield
    BY <2>6, <1>e, <1>f DEF Shield, Blocked
  <2>7. CASE HandOverFails
    BY <2>7 DEF HandOverFails, AnswerIsNew
  <2> QED
    BY <1>2, <1>c, <2>1, <2>2, <2>3, <2>4, <2>5, <2>6, <2>7, WhoMoves
<1>i. CASE CheckpointFails
  <2>1. reply'.error /\ pc' \in {"answer", "route"}
    BY <1>i DEF CheckpointFails, Interrupted
  <2> QED
    BY <2>1 DEF AnswerIsNew
<1>3. CASE pc = "send"
  <2>1. CASE Send
    BY <2>1 DEF Send, AnswerIsNew
  <2>2. CASE Quit
    <3>1. Quitting' /\ pc' \in {"answer", "route"}
      BY <2>2 DEF Quit, Quitting
    <3> QED
      BY <3>1 DEF AnswerIsNew
  <2> QED
    BY <1>3, <1>c, <1>i, <2>1, <2>2, WhoMoves
<1>4. CASE pc = "node"
  <2>1. CASE FlowStep
    <3>1. Moves \/ CutOff
      BY <2>1, FlowMoves
    <3> QED
      BY <1>0, <3>1 DEF Moves, CutOff, AnswerIsNew
  <2>2. CASE CheckpointFails \/ Crash
    BY <1>4, <2>2, <1>e DEF CheckpointFails, Interrupted, Crash, AnswerIsNew
  <2> QED
    BY <1>4, <2>1, <2>2, WhoMoves
<1>5. CASE pc = "reply"
  BY <1>5, <1>e, WhoMoves
  DEF Finish, CheckpointFails, Interrupted, Crash, AnswerIsNew, Answered, Quitting
<1>6. CASE pc = "route"
  BY <1>6, <1>e, WhoMoves
  DEF RouteBack, RouteCompleted, StartOver, RouteOn, RouteAnswer, Crash, AnswerIsNew,
      Answered, Quitting
<1>7. CASE pc = "answer"
  <2>1. CASE Answer
    <3>1. AnswerKind = "flow" => Answered
      BY <1>7 DEF AnswerKind, Quitting
    <3> QED
      BY <2>1, <3>1, <1>e DEF Answer, Blocked
  <2>2. CASE Crash
    BY <2>2, <1>e DEF Crash
  <2> QED
    BY <1>7, <2>1, <2>2, WhoMoves
<1> QED
  BY <1>1, <1>2, <1>3, <1>4, <1>5, <1>6, <1>7 DEF TypeOK

\* If every flow is a responsive one, and so the flows that are shipped, the answer of a
\* turn is new: on new threads, old ones and threads that have been to their end, over
\* handovers, failures and crashes.
THEOREM AnswersAreNew == Responding /\ Spec => []AnswerIsNew
<1>1. Init => AnswerInv
  <2> SUFFICES ASSUME Init PROVE AnswerInv
    OBVIOUS
  <2>1. row.thread = NoThread /\ conv.thread = NoThread /\ NoThread \notin Threads
    BY AgentsKnown DEF Init, NoConversation
  <2> QED
    BY <2>1 DEF Init, AnswerInv, ReadyAt, OnItsWay, New, AnswerIsNew, NoAnswer
<1>2. Responding /\ ConversationInv /\ AnswerInv /\ [Next]_vars => AnswerInv'
  <2> SUFFICES ASSUME Responding, ConversationInv, AnswerInv, [Next]_vars PROVE AnswerInv'
    OBVIOUS
  <2>1. CASE Next
    BY <2>1, ReadyKept, WayKept, NewKept DEF ConversationInv, AnswerInv
  <2>2. CASE UNCHANGED vars
    BY <2>2 DEF vars, AnswerInv, ReadyAt, OnItsWay, New, AnswerIsNew, Answered, Quitting,
       Current, Node, Flow, Unread
  <2> QED
    BY <2>1, <2>2
<1>3. AnswerInv => AnswerIsNew
  BY DEF AnswerInv, New
<1>4. CASE Responding
  BY <1>1, <1>2, <1>3, <1>4, ConversationInvariance, PTL DEF Spec
<1> QED
  BY <1>4
================================================================================
