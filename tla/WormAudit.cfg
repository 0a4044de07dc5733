CONSTANTS
    QueueSize = 2
    CheckpointEvery = 2
    SegmentMax = 2
    MaxEvents = 5
    MaxCrashes = 2
CHECK_DEADLOCK FALSE
SPECIFICATION FairSpec
INVARIANTS
    TypeOK
    LinkedUnlessSpoiled
    NothingRewritten
    EveryEventAccounted
PROPERTIES
    DropsSurface
