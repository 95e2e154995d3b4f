CONSTANTS
    PageSize = 128
    HeaderSize = 32
    SlotSize = 8
    Capacity = 5
    NoPage = NoPage
    RecordSizes = {16, 44}
    MaxPages = 2
    MaxInserts = 4
    MaxTxns = 3
    MaxCrashes = 1
    MaxActive = 1
    AllowSteal = FALSE
    CleanShutdown = TRUE
    StaleIds = FALSE
SPECIFICATION Spec
INVARIANT PageLayout
