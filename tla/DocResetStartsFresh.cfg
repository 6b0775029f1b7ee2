SPECIFICATION Spec
CONSTANTS
  Agents <- MCAgents
  NoAgent = "nobody"
  Router = "routing-agent"
  TicketEntry = "ticket-review-agent"
  SessionKinds = {"ticket"}
  Flows <- MCFlows
  Texts <- MCTexts
  Contains <- MCContains
  Names <- MCNames
  Bare = {"done"}
  Marked = {"done", "bye"}
  Inputs = {"ask", "reset", "quit"}
  Threads = {t1, t2, t3}
  NoThread = NoThread
  MaxTurns = 3
  RecursionLimit = 7
  MaxFaults = 0
PROPERTY ResetStartsFresh
CHECK_DEADLOCK FALSE
