SPECIFICATION AgentSpec
CONSTANTS
    Kinds = {1}
    AutoFlush = 2
    MaxSegment = 1
    MaxSpool = 1
    MaxAge = 1
    Faults = {"crash", "crashRemove"}
    MaxRecs = 2
    MaxDay = 3
    MaxMembers = 2
    AutoDaily = TRUE
    RemoveAfter = TRUE
    MaxBundles = 2
    ExportFaults = {"bundle", "state"}
INVARIANTS
    AgentTypeOK
    ExportedBeforeRemoved
    
CHECK_DEADLOCK FALSE
