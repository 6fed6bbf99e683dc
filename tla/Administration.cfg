CONSTANTS
    u1 = u1
    u2 = u2
    e1 = e1
    e2 = e2
    p1 = p1
    p2 = p2
    r1 = r1
    r2 = r2
    Proc = {p1, p2}
    User = {u1, u2}
    Email = {e1, e2}
    Role = {"soporte", "vendedor"}
    Vendor = {"vendedor"}
    Password = {"a", "b", "c"}
    RememberLast = 2
    MaxLinks = 1
    MaxChanges = 3
    RoleRow = {r1, r2}
    PermissionRow = {"q"}
    Name = {"n1", "n2"}
    Guard = {"admin", "customer"}
    Company = {"c1", "c2"}
    ShortCode = {"ABC", "XYZ"}
    Person = {u1, u2}
    MaxAttached = 3
SPECIFICATION AdministrationSpec
CHECK_DEADLOCK FALSE
SYMMETRY Symmetric
INVARIANTS NoRecentReuse ResetLinkWorksOnce
PROPERTIES ClashHasACause ReferencesHold RolesAreSomebodysChoice
