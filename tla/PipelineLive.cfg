\* Two submissions, one of them misrouted, no row deleted, one fault of each kind.
CONSTANTS
    s1 = s1
    s2 = s2
    NoWorker = NoWorker
    Workers = {w1}
    Partitions = {p1}
    Subs = {s1, s2}
    InitCommitted <- KnownGroup
    Outcomes <- Decided
    Misrouted = {s2}
    MaxConcurrent = 2
    MaxAttempts = 2
    MaxOffset = 4
    MaxGeneration = 1
    MaxFaults = 1
    MaxRefusals = 0
    MaxWebFaults = 1
    Deletable = {}
SPECIFICATION FairSpec
PROPERTIES
    EventuallyJudged
    VerdictIsFinal
    EventuallyCommitted
CHECK_DEADLOCK FALSE
