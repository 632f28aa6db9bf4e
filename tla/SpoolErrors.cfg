SPECIFICATION Spec
CONSTANTS
    Kinds = {1}
    AutoFlush = 2
    MaxSegment = 2
    MaxSpool = 2
    MaxAge = 1
    Faults = {"open", "sync", "meta", "remove"}
    MaxRecs = 4
    MaxDay = 2
    MaxMembers = 3
INVARIANTS
    BufferBounded
    FlushedSurvive
    PromiseKept
    LossExplained
CHECK_DEADLOCK FALSE
