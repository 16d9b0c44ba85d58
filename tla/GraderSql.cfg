\* A submission in SQL, graded by a native and by an isolate executor.
CONSTANTS
    j1 = j1
    j2 = j2
    j3 = j3
    s1 = s1
    s2 = s2
    Jobs = {j1, j2}
    Subs = {s1}
    SubOf <- Deliveries
    Native = {j2}
    Sql = {s1}
    Practice = {}
    Killed = {"TLE"}
    CaseCounts <- TwoCases
    OnWeb = {}
    Boxes = 1
    TotalMarks = 10
    MaxFaults = 0
SPECIFICATION Spec
INVARIANT VerdictIsEarned
CHECK_DEADLOCK FALSE
