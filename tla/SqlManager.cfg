SPECIFICATION FairSpec
CONSTANTS
    Names = {a, b}
    Pids = {1, 2}
    None = None
INVARIANTS
    ScanIsRecorded
PROPERTIES
    
    InstanceIsExported
CHECK_DEADLOCK FALSE
