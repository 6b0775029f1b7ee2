--------------------------- MODULE MCConversation ---------------------------
(***************************************************************************)
(* The flows of agent-service/config/lg-prompts: routing.yaml,             *)
(* ticket-routing.yaml, ticket-laptop-refresh-lg-prompt-big.yaml,          *)
(* ticket-general-lg-prompt-small.yaml and, shortened to its first and its *)
(* last step and to one retry instead of 5 and 10, lg-prompt-small.yaml.   *)
(* For what the shipped flows do without, its confirmation is preceded by  *)
(* a selection with a validator, and an answer about the eligibility that  *)
(* no branch expects leads to a classifier without a word of the user.     *)
(***************************************************************************)
EXTENDS Conversation

\* What the model answers, by what is in it: the name of an agent, the marker of
\* a completed conversation (alone or among other lines) and the words the flows
\* look for.
MCTexts == {"plain", "ticket-review-agent", "laptop-refresh", "routing-agent", "vague", "bye", "done"}
MCContains ==
  {<<t, "">> : t \in MCTexts}
    \union {<<"laptop-refresh", "LAPTOP_REFRESH">>, <<"laptop-refresh", "YES">>,
            <<"routing-agent", "RETURN_TO_ROUTER">>, <<"vague", "UNCLEAR">>,
            <<"bye", "OTHER">>, <<"bye", "done">>, <<"done", "done">>}
MCNames ==
  [t \in MCTexts |-> IF t \in {"laptop-refresh", "routing-agent", "ticket-review-agent"} THEN t ELSE "nobody"]
MCAgents == {"routing-agent", "laptop-refresh", "ticket-review-agent",
             "ticket-laptop-refresh", "ticket-general-support"}

On(phrase, to) == [on |-> {phrase}, not |-> {}, below |-> 0, to |-> to, decide |-> "keep",
                   back |-> FALSE, tries |-> "keep", says |-> "nothing"]
Waiting(next) == [type |-> "waiting", next |-> next, branches |-> <<>>,
                  otherwise |-> "end", fails |-> "end"]
Llm(branches, otherwise, fails) ==
  [type |-> "llm", next |-> "end", branches |-> branches, otherwise |-> otherwise,
   fails |-> fails]
Intent(branches, fails) ==
  [type |-> "intent", next |-> "end", branches |-> branches, otherwise |-> "end",
   fails |-> fails]
Over == [type |-> "terminal", next |-> "end", branches |-> <<>>, otherwise |-> "end",
         fails |-> "end"]
Flowing(initial, resets, clears, nodes) ==
  [initial |-> initial, resets |-> resets, clears |-> clears, nodes |-> nodes]

Routing == Flowing("greet_and_identify_need", FALSE, {},
  [greet_and_identify_need |-> Llm(<<>>, "waiting_user_need", "waiting_user_need"),
   waiting_user_need |-> Waiting("classify_user_intent"),
   classify_user_intent |->
     Llm(<<[On("LAPTOP_REFRESH", "end") EXCEPT !.decide = "laptop-refresh",
                                               !.says = "laptop-refresh"],
           [On("UNCLEAR", "end") EXCEPT !.decide = "nobody", !.says = "plain"],
           On("OTHER", "handle_other_request")>>,
         "handle_other_request", "waiting_user_need"),
   handle_other_request |-> Llm(<<>>, "waiting_clarification", "waiting_clarification"),
   waiting_clarification |-> Waiting("end"),
   end |-> Over])

LaptopRefresh == Flowing("check_eligibility", TRUE, {"tries"},
  [check_eligibility |->
     Llm(<<[On("OTHER", "waiting_laptop_selection") EXCEPT !.tries = "zero",
                                                              !.says = "plain"],
           [On("UNCLEAR", "check_eligibility") EXCEPT !.below = 1, !.tries = "bump"],
           [On("UNCLEAR", "end") EXCEPT !.says = "plain"]>>,
         "classify_ticket_confirmation", "waiting_laptop_selection"),
   waiting_laptop_selection |-> Waiting("validate_laptop_selection"),
   validate_laptop_selection |->
     [type |-> "validator", next |-> "waiting_ticket_confirmation", branches |-> <<>>,
      otherwise |-> "waiting_laptop_selection", fails |-> "end"],
   waiting_ticket_confirmation |-> Waiting("classify_ticket_confirmation"),
   classify_ticket_confirmation |->
     Intent(<<[On("RETURN_TO_ROUTER", "end") EXCEPT !.back = TRUE, !.says = "done"],
              On("YES", "create_ticket"),
              [On("UNCLEAR", "waiting_ticket_confirmation") EXCEPT !.says = "asks"]>>,
            "waiting_ticket_confirmation"),
   create_ticket |->
     Llm(<<[On("YES", "waiting_ticket_confirmation") EXCEPT !.tries = "zero"],
           [On("", "create_ticket") EXCEPT !.below = 1, !.tries = "bump"],
           [On("", "end") EXCEPT !.says = "plain"]>>,
         "end", "waiting_ticket_confirmation"),
   end |-> Over])

TicketReview == Flowing("waiting_for_ticket", FALSE, {},
  [waiting_for_ticket |-> Waiting("classify_user_intent"),
   classify_user_intent |->
     Llm(<<[On("LAPTOP_REFRESH", "handle_ticket") EXCEPT !.decide = "ticket-laptop-refresh",
                                                         !.says = "laptop-refresh"],
           [On("OTHER", "handle_ticket") EXCEPT !.decide = "ticket-general-support",
                                                !.says = "plain"]>>,
         "handle_ticket", "classify_user_intent"),
   handle_ticket |-> Llm(<<>>, "end", "end"),
   end |-> Over])

TicketLaptopRefresh == Flowing("waiting_for_interaction", TRUE, {},
  [waiting_for_interaction |-> Waiting("handle_interaction"),
   handle_interaction |->
     Llm(<<On("done", "end")>>, "waiting_for_interaction", "waiting_for_interaction"),
   end |-> Over])

TicketGeneral == Flowing("waiting_for_interaction", TRUE, {},
  [waiting_for_interaction |-> Waiting("answer_general_question"),
   answer_general_question |-> Llm(<<>>, "waiting_for_follow_up", "end"),
   answer_follow_up |-> Llm(<<>>, "waiting_for_follow_up", "end"),
   waiting_for_follow_up |-> Waiting("classify_follow_up_intent"),
   classify_follow_up_intent |->
     Intent(<<On("OTHER", "escalate_ticket"), On("UNCLEAR", "answer_follow_up")>>,
            "waiting_for_follow_up"),
   escalate_ticket |-> Llm(<<On("done", "end")>>, "end", "end"),
   end |-> Over])

MCFlows == [a \in MCAgents |->
  CASE a = "routing-agent" -> Routing
    [] a = "laptop-refresh" -> LaptopRefresh
    [] a = "ticket-review-agent" -> TicketReview
    [] a = "ticket-laptop-refresh" -> TicketLaptopRefresh
    [] a = "ticket-general-support" -> TicketGeneral]

\* The flows that are shipped have something new to say to every message.
ASSUME ShippedFlowsRespond == \A a \in MCAgents : Responsive(MCFlows[a])
=============================================================================
