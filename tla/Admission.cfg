SPECIFICATION FairSpec
CONSTANTS
    Requests <- MCRequests
    Workloads <- MCWorkloads
    MaxReloads = 1
    MaxTicks = 2
    Empty = Empty
    Malformed = Malformed
    Builtin = Builtin
    KnownPacks = {"core"}
    NoTime = NoTime
    Refused = Refused
INVARIANTS
    TypeOK
    BurstHonoured
PROPERTIES
    KeysNeverRegress
    RotationHeals
CHECK_DEADLOCK FALSE
