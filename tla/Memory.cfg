SPECIFICATION Spec
CONSTANTS
    Requests <- MCRequests
    Pods = {"p1", "p2"}
    Raw <- MCRaw
    Jobs <- MCJobs
    CacheMax = 1
    CacheTTL = 1
    SharedTTL = 1
    SessionMax = 2
    SessionTTL = 1
    MaxCandidates = 2
    Failed = Failed
    NoAnswer = NoAnswer
INVARIANTS
    TypeOK
    MaskRoundTrip
    ServedIsOwn
    AgeBounded
    IdleForgotten
CHECK_DEADLOCK FALSE
