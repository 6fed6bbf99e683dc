CONSTANTS
    u1 = u1
    u2 = u2
    u3 = u3
    p1 = p1
    p2 = p2
    User = {u1, u2}
    Proc = {p1, p2}
    MaxUnits = 2
    MaxRegalias = 2
SPECIFICATION RegaliasSpec
CHECK_DEADLOCK FALSE
SYMMETRY Symmetric
INVARIANTS TreeConsistent UserCycleFree OneRegaliaPerOrigin NoRedundantUnits
