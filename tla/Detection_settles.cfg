SPECIFICATION FairSpec
CONSTANTS
    Worlds <- Views
    Remedy <- MCRemedy
    Pipelines = {p1}
    Anomalies = {i1, i2}
    Actions = {a1}
    MaxChanges = 1
    MaxEdits = 1
    MaxFaults = 1
    None = None
PROPERTIES
    DetectionSettles
    ConditionsShow
    RemediesAreProposed
CHECK_DEADLOCK FALSE
