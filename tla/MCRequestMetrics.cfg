SPECIFICATION Spec
CONSTANTS
    r1 = r1
    r2 = r2
    Requests <- MCRequests
    MaxRequests = 3
INVARIANTS
    RecordedIsSent
    TileCountersAgree
    ScrapeShowsNoUnaskedLookup
SYMMETRY Symmetry
\* After MaxRequests requests no other comes.
CHECK_DEADLOCK FALSE
