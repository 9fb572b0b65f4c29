\* After an overlap a retry can seed nothing for ever.
SPECIFICATION RuntimeFairSpec
CONSTANTS
    Owners = {s1}
    NoOwner = nil
    SmallCount = 10
    Amounts = {1, 3}
    BatchSize = 2
    CursorLimit = 1
    MaxInFlight = 2
    MaxRequests = 3
    MaxCursors = 0
CHECK_DEADLOCK FALSE
PROPERTIES
    SeedingSettles
