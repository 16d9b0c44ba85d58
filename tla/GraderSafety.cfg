\* A redelivered submission and a practice run of every kind, on fewer boxes than jobs.
CONSTANTS
    j1 = j1
    j2 = j2
    j3 = j3
    s1 = s1
    s2 = s2
    Jobs = {j1, j2, j3}
    Subs = {s1, s2}
    SubOf <- Deliveries
    Native = {j2}
    Sql = {}
    Practice = {s2}
    Killed = {"TLE"}
    CaseCounts <- OneOrNone
    OnWeb = {j3}
    Boxes = 1
    TotalMarks = 10
    MaxFaults = 1
SPECIFICATION FairSpec
INVARIANTS
    TypeOK
    VerdictIsEarned
    BoxesConserved
PROPERTY EveryJobEnds
CHECK_DEADLOCK FALSE
