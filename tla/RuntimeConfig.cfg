SPECIFICATION FairSpec
CONSTANTS
    Replicas = {p1, p2}
    Operators = {o1, o2}
    Calls = {c1, c2}
    MaxLevel = 1
    EnvLevel = 1
    MaxFaults = 2
    None = None
INVARIANTS
    TypeOK
    InForceIsSanctioned
PROPERTIES
    CopiesConverge
CHECK_DEADLOCK FALSE
