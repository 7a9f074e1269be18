SPECIFICATION Spec
CONSTANTS
    Jobs = {x1, x2, d1}
    Download = {d1}
    Overlapping = TRUE
    Faults = {}
    None = None
SYMMETRY PublishJobs
INVARIANTS LatestIsSigned  CompletedIsPublished
CHECK_DEADLOCK FALSE
