\* Two questions, two submissions, one fault or reload.
CONSTANTS
    Questions = {q1, q2}
    NoQuestion = NoQuestion
    MaxPolls = 2
    MaxSubmits = 2
    MaxTroubles = 1
SPECIFICATION FairSpec
INVARIANTS
    TypeOK
    SolvedIsReal
    LockedWhileJudged
PROPERTIES
    SolvedStaysShown
    EventuallyUnlocked
    EventuallyShown
CHECK_DEADLOCK FALSE
