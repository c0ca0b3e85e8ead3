SPECIFICATION Spec
CONSTANTS
    Forward = {f1}
    Reverse = {q1}
    Threads = {t1, t2}
    Proposable = {"apply_tags"}
    MaxFaults = 1
    None = None
INVARIANTS
    NoStrandedLink
CHECK_DEADLOCK FALSE
