\* One worker, nothing committed yet.
CONSTANTS
    NoWorker = NoWorker
    Workers = {w1}
    Partitions = {p1}
    InitCommitted <- FreshGroup
    MaxOffset = 2
    MaxGeneration = 1
    MaxFaults = 1
SPECIFICATION Spec
INVARIANT CommittedIsSettled
CHECK_DEADLOCK FALSE
