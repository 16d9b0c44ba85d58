\* Two workers, no exception and no crash: a partition moves away and comes back.
CONSTANTS
    NoWorker = NoWorker
    Workers = {w1, w2}
    Partitions = {p1}
    InitCommitted <- KnownGroup
    MaxOffset = 3
    MaxGeneration = 3
    MaxFaults = 0
SPECIFICATION FairSpec
PROPERTY EventuallyCommitted
CHECK_DEADLOCK FALSE
