\* Requests of one turn overlap: what holds for every caller.
SPECIFICATION RuntimeSpec
CONSTANTS
    Owners = {s1, s2}
    NoOwner = nil
    SmallCount = 10
    Amounts = {1, 3}
    BatchSize = 2
    CursorLimit = 1
    MaxInFlight = 2
    MaxRequests = 5
    MaxCursors = 2
\* After the last session is released the page is idle for good.
CHECK_DEADLOCK FALSE
INVARIANTS
    CountsMatchDataset
    OrdinalsContiguous
    CursorsOfThisRevision
    
PROPERTIES
    SessionKeepsData
