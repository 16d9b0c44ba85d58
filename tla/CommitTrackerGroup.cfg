\* Two workers share a partition whose group has committed before.
CONSTANTS
    NoWorker = NoWorker
    Workers = {w1, w2}
    Partitions = {p1}
    InitCommitted <- KnownGroup
    MaxOffset = 4
    MaxGeneration = 2
    MaxFaults = 2
SYMMETRY WorkerSymmetry
SPECIFICATION Spec
INVARIANTS
    TypeOK
    CommittedIsSettled
    TrackerInv
PROPERTY ImplementsAtLeastOnceLog
CHECK_DEADLOCK FALSE
