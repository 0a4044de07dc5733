CONSTANTS
    Dictionary <- MCDictionary
    MaxBuffer = 20
    HardLimit = 80
    EnumerationLimit = 5
    Calls = 2
    Answers <- MCPlain
    Standby <- MCStandby
    MaxDelta = 2
SPECIFICATION Spec
CHECK_DEADLOCK FALSE
PROPERTIES
    HitLikeMiss
