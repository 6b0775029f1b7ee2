CONSTANTS
  r1 = r1
  r2 = r2
  p1 = p1
  p2 = p2
  d1 = d1
  d2 = d2
  Deliveries = {d1}
  Requests = {r1, r2}
  Pods = {p1, p2}
  Route <- OneAnywhere
  NoRequest = NoRequest
  NoPod = NoPod
  ReclaimAction = "requeue"
  Faults = {"timeout", "locktimeout"}
SPECIFICATION FairSpec
INVARIANTS
  WaiterRegistered
  OpenRowUnanswered
PROPERTIES
  
  HandlersEnd
CHECK_DEADLOCK FALSE
