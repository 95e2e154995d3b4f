CONSTANTS
    PageSize = 128
    HeaderSize = 32
    SlotSize = 8
    Capacity = 5
    NoPage = NoPage
    RecordSizes = {16, 40}
    MaxPages = 2
    MaxInserts = 4
    MaxTxns = 3
    MaxCrashes = 1
    MaxActive = 1
    AllowSteal = TRUE
    CleanShutdown = TRUE
    StaleIds = FALSE
SPECIFICATION Spec
INVARIANT Atomicity
