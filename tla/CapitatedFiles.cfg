CONSTANTS
    d1 = d1
    d2 = d2
    i1 = i1
    i2 = i2
    Doc = {d1, d2}
    Identity = {i1, i2}
    Age <- Young
    PlanVersion <- OnePlan
    None = None
    LastMonth = 2
    MaxBatches = 2
    MaxRows = 2
    Billable = TRUE
    Crashes = TRUE
SPECIFICATION Spec
CHECK_DEADLOCK FALSE
SYMMETRY Documents
INVARIANTS TypeOK BatchLogAgrees InvoicedBatchIsCommitted OfferedContractHasItsPdf
