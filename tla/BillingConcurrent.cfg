CONSTANTS
    u1 = u1
    u2 = u2
    p1 = p1
    p2 = p2
    e1 = e1
    e2 = e2
    User = {u1, u2}
    Email = {e1, e2}
    EmailsOf <- OneIsShared
    Proc = {p1, p2}
    None = None
    MaxRows = 2
    MaxCustomers = 2
    MaxEvents = 2
    Failures = FALSE
SPECIFICATION Spec
CHECK_DEADLOCK FALSE
CONSTRAINT Overlapping
SYMMETRY Symmetric
INVARIANTS StatusHasCause LinkedByAddress
