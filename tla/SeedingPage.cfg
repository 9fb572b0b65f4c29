\* The page of two sessions seeds, polls, fails, retries and leaves.
SPECIFICATION PageFairSpec
CONSTANTS
    Owners = {s1, s2}
    NoOwner = nil
    SmallCount = 10
    Amounts = {1, 3, 4}
    BatchSize = 2
    CursorLimit = 1
    MaxInFlight = 2
    MaxRequests = 7
    MaxCursors = 0
\* After the last session is left the page is idle for good.
CHECK_DEADLOCK FALSE
INVARIANTS
    SettledPageIsCurrent
    OneJobAtATime
    JobHasTheRest
PROPERTIES
    PageSettles
