SPECIFICATION Spec
CONSTANTS
    Requests = {r1}
    Users = {u1}
    Channels = {web, slack}
    Uuids = {i1, i2}
    Tickets = {t1}
    None = None
    MaxTries = 3
    MaxUpsets = 0
CHECK_DEADLOCK FALSE
PROPERTY OneGeneralSession
