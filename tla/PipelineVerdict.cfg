\* One submission, two faults: as many as it has delivery attempts.
CONSTANTS
    s1 = s1
    s2 = s2
    NoWorker = NoWorker
    Workers = {w1}
    Partitions = {p1}
    Subs = {s1}
    InitCommitted <- KnownGroup
    Outcomes <- Decided
    Misrouted = {}
    MaxConcurrent = 2
    MaxAttempts = 2
    MaxOffset = 3
    MaxGeneration = 1
    MaxFaults = 2
    MaxRefusals = 0
    MaxWebFaults = 0
    Deletable = {}
SPECIFICATION Spec
PROPERTY VerdictIsFinal
CHECK_DEADLOCK FALSE
