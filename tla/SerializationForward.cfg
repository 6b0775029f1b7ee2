CONSTANTS
  r1 = r1
  r2 = r2
  p1 = p1
  p2 = p2
  d1 = d1
  d2 = d2
  Deliveries = {d1, d2}
  Requests = {r1}
  Pods = {p1, p2}
  Route <- AnyRoute
  NoRequest = NoRequest
  NoPod = NoPod
  ReclaimAction = "fail"
  Faults <- FaultKinds
SPECIFICATION Spec
SYMMETRY Symmetric
INVARIANTS
  ForwardedAgainOnlyIfStale
CHECK_DEADLOCK FALSE
