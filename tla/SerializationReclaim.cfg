CONSTANTS
  r1 = r1
  r2 = r2
  p1 = p1
  p2 = p2
  d1 = d1
  d2 = d2
  Deliveries = {}
  Requests = {r1, r2}
  Pods = {p1, p2}
  Route <- AnyRoute
  NoRequest = NoRequest
  NoPod = NoPod
  ReclaimAction = "requeue"
  Faults = {"crash", "unseen", "dberror", "slowsend"}
SPECIFICATION Spec
SYMMETRY Symmetric
INVARIANTS
  TypeOK
  LockHolder
  NoOvertaking
  RedeliveryOnlyAfterReclaim
PROPERTIES
  TerminalStays
CHECK_DEADLOCK FALSE
