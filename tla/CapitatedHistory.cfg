CONSTANTS
    d1 = d1
    d2 = d2
    i1 = i1
    i2 = i2
    Doc = {d1}
    Identity = {i1}
    Age <- Ages
    PlanVersion <- Overlapping
    None = None
    LastMonth = 4
    MaxBatches = 3
    MaxRows = 1
    Billable = FALSE
    Crashes = FALSE
SPECIFICATION Spec
CHECK_DEADLOCK FALSE
INVARIANTS ContractMonthsContiguous CoverageLoadedInOrder ExpiredContractIsOver
PROPERTIES LedgerSpec
