CONSTANTS
    c1 = c1
    c2 = c2
    c3 = c3
    Callers <- MCCallers
    Threshold = 2
    Retries = 1
SPECIFICATION FairSpec
INVARIANTS
    TypeOK
    FailuresBounded
    NoAmnesty
PROPERTIES
    RejectedOnlyAfterStreak
    ClosesAgain
