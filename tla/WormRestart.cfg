CONSTANTS
    QueueSize = 1
    CheckpointEvery = 2
    SegmentMax = 2
    MaxEvents = 4
    MaxCrashes = 2
CHECK_DEADLOCK FALSE
SPECIFICATION FairSpec
PROPERTIES
    RestartContinues
