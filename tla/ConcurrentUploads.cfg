CONSTANTS
    p1 = p1
    p2 = p2
    Proc = {p1, p2}
    LastMonth = 3
    MaxContracts = 4
SPECIFICATION Spec
CHECK_DEADLOCK FALSE
SYMMETRY Symmetric
INVARIANTS ContractsMatchRecords ContinuousCoverIsOneContract
