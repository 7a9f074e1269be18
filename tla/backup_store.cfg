SPECIFICATION Spec
CONSTANTS
    Backups = {b1, b2, b3}
    Restores = {r1}
    Deletes = {d1}
    MinKeep = 2
    LastSecond = 2
    Faults = {"stage", "storage", "database", "reaper"}
    None = None
SYMMETRY Alike
INVARIANTS TypeOK
PROPERTIES RestoreIsExact 
CHECK_DEADLOCK FALSE
