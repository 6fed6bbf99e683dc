CONSTANTS
    u1 = u1
    p1 = p1
    p2 = p2
    User = {u1}
    Proc = {p1, p2}
    Role <- Roles
    UnitScoped = {"seller"}
    Key = {"manage", "edit"}
    ManageChildren = "manage"
    Grants <- RoleGrants
    Trees <- Shapes
    MaxUnits = 3
    MaxMembers = 3
SPECIFICATION MembersSpec
CHECK_DEADLOCK FALSE
SYMMETRY Symmetric
INVARIANTS MembershipsConsistent ResolverMatchesReference
