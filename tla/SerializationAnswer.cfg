CONSTANTS
  r1 = r1
  r2 = r2
  p1 = p1
  p2 = p2
  d1 = d1
  d2 = d2
  Deliveries = {d1}
  Requests = {r1, r2}
  Pods = {p1, p2}
  Route <- OnePerPod
  NoRequest = NoRequest
  NoPod = NoPod
  ReclaimAction = "requeue"
  Faults = {"slowsend", "lostreply"}
SPECIFICATION FairSpec
INVARIANTS
  HandlerOutlivesRow
  ProcessingIsDriven
PROPERTIES
  AnswerForwarded
CHECK_DEADLOCK FALSE
