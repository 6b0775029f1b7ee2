---------------------------- MODULE DurablePublish ----------------------------
(***************************************************************************)
(* What a transactional outbox promises, whoever implements it: a message  *)
(* is stored before anyone else can see it; what is stored is delivered or *)
(* given up in the end; what was delivered stays delivered.  A message may *)
(* be given up although it got through (its sender heard an error), and a  *)
(* message given up may get through late.                                  *)
(***************************************************************************)
CONSTANT Messages

VARIABLES
  stored,     \* durable
  delivered,  \* the receiver has seen it, at least once
  givenUp     \* nobody will try again

vars == <<stored, delivered, givenUp>>

Init == stored = {} /\ delivered = {} /\ givenUp = {}

Store(m) ==
  /\ m \notin stored
  /\ stored' = stored \union {m}
  /\ UNCHANGED <<delivered, givenUp>>

Deliver(m) ==
  /\ m \in stored
  /\ delivered' = delivered \union {m}
  /\ UNCHANGED <<stored, givenUp>>

GiveUp(m) ==
  /\ m \in stored
  /\ givenUp' = givenUp \union {m}
  /\ UNCHANGED <<stored, delivered>>

\* It got through after all, or an operator has it tried again.
Resume(m) ==
  /\ m \in givenUp
  /\ givenUp' = givenUp \ {m}
  /\ UNCHANGED <<stored, delivered>>

Next == \E m \in Messages : Store(m) \/ Deliver(m) \/ GiveUp(m) \/ Resume(m)

Spec == Init /\ [][Next]_vars

\* Nothing stored is forgotten.
StoredIsSettled == \A m \in Messages : m \in stored ~> m \in delivered \union givenUp
===============================================================================
