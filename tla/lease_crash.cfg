SPECIFICATION FairSpec
CONSTANTS
    Procs = {p1, p2}
    Jobs = {"e1", "e2", "r1"}
    Kind <- ExportsRestore
    Faults = {"crash"}
    Scheduler = FALSE
    None = None
INVARIANTS DGraphExclusive NoBleed
PROPERTIES  EveryJobEnds
CHECK_DEADLOCK FALSE
