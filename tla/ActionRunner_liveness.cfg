SPECIFICATION FairSpec
CONSTANTS
    Forward = {f1}
    Reverse = {q1}
    Threads = {t1, t2}
    Proposable = {"stop_ec2", "limit_lambda"}
    MaxFaults = 1
    None = None
INVARIANTS
    CleanRunsSettle
PROPERTIES
    ExecutingEnds
    ProposalEnds
    RollbackEnds
CHECK_DEADLOCK FALSE
