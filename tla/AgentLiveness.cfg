SPECIFICATION FairAgentSpec
CONSTANTS
    Kinds = {1}
    AutoFlush = 2
    MaxSegment = 1
    MaxSpool = 0
    MaxAge = 0
    Faults = {"open", "sync"}
    MaxRecs = 3
    MaxDay = 3
    MaxMembers = 2
    AutoDaily = TRUE
    RemoveAfter = TRUE
    MaxBundles = 4
    ExportFaults = {"bundle"}
INVARIANTS
    ShippedOnce
PROPERTIES
    EventuallyShipped
CHECK_DEADLOCK FALSE
