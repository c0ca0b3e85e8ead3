SPECIFICATION FairSpec
CONSTANTS
    Replicas = {p1, p2}
    MaxFaults = 2
    None = None
    Orphan = Orphan
    Threshold = 3
    MaxChanges = 2
PROPERTIES
    ReportsSettle
CHECK_DEADLOCK FALSE
