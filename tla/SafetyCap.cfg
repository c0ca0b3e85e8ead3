SPECIFICATION Spec
CONSTANTS
    Actions = {a1, a2, a3, l1, r1}
    Recommendations = {r1}
    LambdaLimits = {l1}
    Threads = {t1, t2}
    Limit = 1
    MaxFaults = 1
    None = None
SYMMETRY Symmetry
INVARIANTS
    TypeOK
    OnlyMovingRowsSlip
    OvershootBounded
PROPERTIES
    KeepsContract
CHECK_DEADLOCK FALSE
