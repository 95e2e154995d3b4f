\* Two transactions at a time, flushes at any moment, any shutdown: every
\* client behaviour of the tests, with 4 frames (3 usable).  Checks the
\* pool invariant that holds whatever the client does.
CONSTANTS
    PageSize = 128
    HeaderSize = 32
    SlotSize = 8
    Capacity = 4
    NoPage = NoPage
    RecordSizes = {16, 40}
    MaxPages = 2
    MaxInserts = 2
    MaxTxns = 2
    MaxCrashes = 1
    MaxActive = 2
    AllowSteal = TRUE
    CleanShutdown = FALSE
    StaleIds = TRUE
SPECIFICATION Spec
INVARIANT CleanFrameMatchesDisk
