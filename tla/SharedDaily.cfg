SPECIFICATION SharedSpec
CONSTANTS
    AutoDaily = TRUE
    RemoveAfter = TRUE
    Windows = {}
    MaxRecs = 4
    MaxSec = 2
    MaxFiles = 3
INVARIANT NothingLost
CHECK_DEADLOCK FALSE
