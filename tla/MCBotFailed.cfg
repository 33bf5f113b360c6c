SPECIFICATION Spec
CONSTANTS
    u1 = u1
    u2 = u2
    c1 = c1
    c2 = c2
    None = None
    Updates = {u1, u2}
    Calls = {c1, c2}
    Sent = {"text", "cancel"}
    TicketLimit = 1
    MaxTrouble = 2
CHECK_DEADLOCK FALSE
INVARIANTS
    FailedIsRetried
