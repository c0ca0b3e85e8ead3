SPECIFICATION Spec
CONSTANTS
    Worlds <- IdleInstance
    Remedy <- MCRemedy
    Pipelines = {p1, p2}
    Anomalies = {i1, i2}
    Actions = {a1, a2}
    MaxChanges = 0
    MaxEdits = 1
    MaxFaults = 1
    None = None
SYMMETRY Symmetry
INVARIANTS
    TypeOK
    OneLive
PROPERTIES
    NoHastyProposal
    OnlyOperatorsReopen
CHECK_DEADLOCK FALSE
