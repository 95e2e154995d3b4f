\* One transaction at a time, no flush outside commit, shutdown only with
\* no transaction running: the regime in which NO-STEAL/FORCE is meant to
\* make the stubbed log unnecessary.  Capacity 5 (4 usable frames) lets
\* the pool run out after discards.
CONSTANTS
    PageSize = 128
    HeaderSize = 32
    SlotSize = 8
    Capacity = 5
    NoPage = NoPage
    RecordSizes = {16, 40}
    MaxPages = 2
    MaxInserts = 3
    MaxTxns = 2
    MaxCrashes = 1
    MaxActive = 1
    AllowSteal = FALSE
    CleanShutdown = TRUE
    StaleIds = FALSE
SPECIFICATION Spec
INVARIANT TypeOK
INVARIANT Atomicity
