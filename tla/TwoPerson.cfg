SPECIFICATION Spec
CONSTANTS
    Operators = {o1, o2}
    Calls = {c1, c2}
    Modes = {"two_person", "solo_delay", "off"}
    MaxFaults = 1
    None = None
SYMMETRY Symmetry
INVARIANTS
    TypeOK
    TwoHandsFromRest
    LooseIsOnRecord
CHECK_DEADLOCK FALSE
