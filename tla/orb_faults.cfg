SPECIFICATION Spec
CONSTANTS
    Poller = poller
    Callers = {c1}
    Artifacts = {a1, a2}
    Bundles = {b1}
    MaxVersion = 2
    MaxImports = 2
    AutoImport = TRUE
    TagsMove = TRUE
    Racing = FALSE
    Faults = {"dgraph", "consumer", "crash"}
    None = None
INVARIANTS TypeOK  OnlySigned ShownIsLoaded HistoryIsShown
CHECK_DEADLOCK FALSE
