SPECIFICATION Spec
CONSTANTS
    Kinds = {1}
    AutoFlush = 2
    MaxSegment = 2
    MaxSpool = 0
    MaxAge = 0
    Faults = {"crash"}
    MaxRecs = 3
    MaxDay = 2
    MaxMembers = 2
INVARIANTS
    ClosedIsListed
CHECK_DEADLOCK FALSE
