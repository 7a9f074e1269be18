SPECIFICATION FairSpec
CONSTANTS
    Jobs = {x1, x2}
    Download = {}
    Overlapping = FALSE
    Faults = {"timeout", "registry", "crash", "db"}
    None = None
INVARIANTS TypeOK HistoryResolves
PROPERTIES VersionsSpec 
CHECK_DEADLOCK FALSE
