SPECIFICATION Spec
CONSTANTS
    Forward = {f1}
    Reverse = {q1, q2}
    Threads = {t1, t2}
    Proposable = {"stop_ec2", "apply_tags", "recommend_review"}
    MaxFaults = 2
    None = None
SYMMETRY Symmetry
INVARIANTS
    TypeOK
    CalledOnce
    CalledWithAuthority
    TruthfulRow
    TrailAgrees
    RollbackIsLinked
PROPERTIES
    ImplementsContract
CHECK_DEADLOCK FALSE
