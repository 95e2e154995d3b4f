\* TableStats over every table of up to three two-column tuples, on pages
\* of 64 bytes (two tuples per page) and a scan pool of four frames.
SPECIFICATION Spec
CONSTANTS
    PageSize = 64
    HeaderSize = 32
    SlotSize = 8
    Capacity = 4
    NoPage = NoPage
    MaxPages = 3
    NumFields = 2
    NumHistBins = 100
    IoCostPerPage = 1
    Tables <- SmallTables
    Probes <- StatProbes
INVARIANT TypeOK
INVARIANT StatsMatchTable
INVARIANT EstimatesInUnitRange
