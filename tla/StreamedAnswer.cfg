CONSTANTS
    Dictionary <- MCDictionary
    MaxBuffer = 6
    HardLimit = 8
    EnumerationLimit = 1
    Calls = 2
    Answers <- MCAnswers
    Standby <- MCStandby
    MaxDelta = 2
SPECIFICATION Spec
CHECK_DEADLOCK FALSE
INVARIANTS
    TypeOK
    ReleasedIsSafe
    StreamedLikeBlocking
    NothingLost
    CallsVetted
    HoldBounded
    ReplayAgrees
