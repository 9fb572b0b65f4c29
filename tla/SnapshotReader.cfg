\* Three requests for two permits, against three closes.
SPECIFICATION Spec
CONSTANTS
    Requests = {q1, q2, q3}
    Historical = {q3}
    Closers = {c1, c2, c3}
    MaximumConcurrency = 2
    None = none
\* Requests and closes are used up.
CHECK_DEADLOCK FALSE
INVARIANTS
    LeasedSnapshotOpen
    NothingLeaks
PROPERTIES
    HoldsSnapshot
    ReaderSettles
