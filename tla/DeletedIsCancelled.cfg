CONSTANTS
    u1 = u1
    u2 = u2
    p1 = p1
    p2 = p2
    e1 = e1
    e2 = e2
    User = {u1}
    Email = {e1}
    EmailsOf <- OneAddress
    Proc = {p1}
    None = None
    MaxRows = 1
    MaxCustomers = 1
    MaxEvents = 3
    Failures = FALSE
SPECIFICATION Spec
CHECK_DEADLOCK FALSE
INVARIANT DeletedIsCancelled
