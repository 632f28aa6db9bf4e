SPECIFICATION Spec
CONSTANTS
    None = None
    AutoDaily = FALSE
    RemoveAfter = TRUE
    Windows = {}
    MaxRecs = 4
    MaxSec = 2
    MaxFiles = 4
    Faults = {"read", "save", "power", "together"}
    MaxIds = 2
    MaxDay = 3
    Torn = Torn
    Files <- MCFiles
    MaxLog = 4
INVARIANTS
    BundlesHoldAll
    OneFailurePerTake
    
    
PROPERTIES
    ClosedIsFinal
CHECK_DEADLOCK FALSE
