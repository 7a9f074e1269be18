SPECIFICATION Spec
CONSTANTS
    Procs = {p1, p2}
    Jobs = {"r1", "b1"}
    Kind <- RestoreBackup
    Faults = {"cut", "timeout", "slow"}
    Scheduler = TRUE
    None = None
SYMMETRY Replicas
CONSTRAINT OneTrouble
INVARIANTS TypeOK
PROPERTIES CompletedNotReaped 
CHECK_DEADLOCK FALSE
