SPECIFICATION Spec
CONSTANTS
    Requests = {r1, r2}
    Users = {u1, u2}
    Channels = {web, slack}
    Uuids = {i1, i2}
    Tickets = {t1}
    None = None
    MaxTries = 2
    MaxUpsets = 1
SYMMETRY Symmetry
CHECK_DEADLOCK FALSE
INVARIANTS
    HandedIsOwn
    ClosedStaysClosed
    OneSessionPerChannel
