\* Crashes, replays and two competing processes.
SPECIFICATION Spec
CONSTANTS
    Writers = {w1, w2, w3}
    Streams = {"canonical", "changed"}
    Fixture = "canonical"
    None = none
    CutPoint = 3
    GroupSize = 2
    Objects <- MCObjects
    Links <- MCLinks
    MaxRuns = 5
\* The processes that may be started are used up.
CHECK_DEADLOCK FALSE
INVARIANTS
    CheckpointCoversContent
    CheckpointIsPrefix
    RecordsCountedOnce
    ReplaysSucceed
    ReadyIsExact
PROPERTIES
    ReadyIsFrozen
