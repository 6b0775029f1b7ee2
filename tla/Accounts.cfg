SPECIFICATION Spec
CONSTANTS
    Emails = {e1, e2}
    SlackIds = {s1}
    Users = {u1, u2, u3}
    Callers = {c1, c2}
    None = None
    NotFound = NotFound
    MaxCalls = 4
    MaxChanges = 1
    MaxExpiries = 2
    MaxFaults = 1
SYMMETRY Symmetry
CHECK_DEADLOCK FALSE
INVARIANTS
    OneUserPerAddress
    ResolvedIsOwner
