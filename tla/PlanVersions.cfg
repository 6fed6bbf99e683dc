CONSTANTS
    p1 = p1
    p2 = p2
    r1 = r1
    Proc = {p1, p2}
    AgeRange = {r1}
    MaxVersions = 4
    MaxDetails = 2
SPECIFICATION FairSpec
CHECK_DEADLOCK FALSE
CONSTRAINT FewDetails
INVARIANTS RowsConsistent OneActiveVersion DeadlockNeedsTwoActive
PROPERTIES RequestsEnd
