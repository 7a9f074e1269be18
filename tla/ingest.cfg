SPECIFICATION FairSpec
CONSTANTS
    Replicas = {r1, r2}
    Admins = {a1}
    Overrides <- TwoFields
    ResourceOf <- OneServer
    MaxReports = 2
    MaxClears = 1
    Overlapping = FALSE
    None = None
INVARIANTS TypeOK OneReport
PROPERTIES NoDecisionLost ReportIsShown
CHECK_DEADLOCK FALSE
