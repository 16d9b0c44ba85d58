\* One worker, two submissions, one of which may be deleted while it is judged.
CONSTANTS
    s1 = s1
    s2 = s2
    NoWorker = NoWorker
    Workers = {w1}
    Partitions = {p1}
    Subs = {s1, s2}
    InitCommitted <- KnownGroup
    Outcomes <- Decided
    Misrouted = {}
    MaxConcurrent = 2
    MaxAttempts = 2
    MaxOffset = 5
    MaxGeneration = 1
    MaxFaults = 1
    MaxRefusals = 2
    MaxWebFaults = 1
    Deletable = {s1}
SPECIFICATION Spec
INVARIANTS
    TypeOK
    PendingIsRecoverable
    SystemErrorHasCause
    ActiveBound
    NoSubmissionLost
PROPERTIES
    ImplementsTracker
    CommittedMonotone
CHECK_DEADLOCK FALSE
