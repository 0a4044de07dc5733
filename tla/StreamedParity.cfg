CONSTANTS
    Dictionary <- MCDictionary
    MaxBuffer = 20
    HardLimit = 80
    EnumerationLimit = 5
    Calls = 2
    Answers <- MCMasked
    Standby <- MCStandby
    MaxDelta = 2
SPECIFICATION Spec
CHECK_DEADLOCK FALSE
INVARIANTS
    BothPathsAgree
