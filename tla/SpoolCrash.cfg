SPECIFICATION Spec
CONSTANTS
    Kinds = {1, 2}
    AutoFlush = 2
    MaxSegment = 1
    MaxSpool = 2
    MaxAge = 1
    Faults = {"crash"}
    MaxRecs = 3
    MaxDay = 2
    MaxMembers = 2
INVARIANTS
    FlushedSurvive
    TearsAreFinal
    SidecarExact
CHECK_DEADLOCK FALSE
