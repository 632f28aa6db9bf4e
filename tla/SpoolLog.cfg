SPECIFICATION Spec
CONSTANTS
    Kinds = {1}
    AutoFlush = 2
    MaxSegment = 1
    MaxSpool = 1
    MaxAge = 1
    Faults = {"crash", "crashRemove", "removeMeta"}
    MaxRecs = 3
    MaxDay = 3
    MaxMembers = 2
PROPERTIES
    ImplementsLog
    
CHECK_DEADLOCK FALSE
