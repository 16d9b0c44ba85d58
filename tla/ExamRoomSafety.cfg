\* One student, two overlapping requests at a time, two questions to choose from or to answer.
CONSTANTS
    Students = {a}
    Questions = {q1, q2}
    NoQuestion = NoQuestion
    Workspaces = {x}
    Assignable = {1, 2}
    Threads = {t1, t2}
    BurstThreshold = 2
    StormThreshold = 2
    MaxRequests = 4
    MaxIncidents = 1
SYMMETRY RoomSymmetry
SPECIFICATION Spec
INVARIANTS
    TypeOK
    EmptyHandedHasCause
    LockStopsOrdinarySubmissions
    Signalled
PROPERTIES
    OnlyUnlockUnlocks
    AssignmentIsStable
CHECK_DEADLOCK FALSE
