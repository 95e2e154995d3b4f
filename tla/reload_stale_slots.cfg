\* The serial NO-STEAL client of serial_nosteal, checked against the
\* abstract store: a committed row must stay in the committed store.
CONSTANTS
    PageSize = 128
    HeaderSize = 32
    SlotSize = 8
    Capacity = 5
    NoPage = NoPage
    RecordSizes = {16, 40}
    MaxPages = 2
    MaxInserts = 3
    MaxTxns = 2
    MaxCrashes = 1
    MaxActive = 1
    AllowSteal = FALSE
    CleanShutdown = TRUE
    StaleIds = FALSE
SPECIFICATION Spec
PROPERTY StoreRefinement
