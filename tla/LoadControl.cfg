\* Two executor families; three deployments, each with its own bounds.
CONSTANTS
    t1 = t1
    t2 = t2
    student = student
    staff = staff
    Threads = {t1, t2}
    Students = {student, staff}
    Staff = {staff}
    NumRoutes = 2
    Configs <- TwoConfigs
    Rate = 1
    MinReplicas <- None
    MaxReplicas <- Two
    LagPerReplica = 2
    StartReplicas <- One
    Bounds <- Deployments
SPECIFICATION FairSpec
INVARIANTS
    TypeOK
    OvershootBounded
    RateHolds
PROPERTIES
    BusyIsReal
    ConfigConverges
    NoBacklogAbandoned
    SettlesAtMinimum
