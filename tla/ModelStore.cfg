SPECIFICATION FairSpec
CONSTANTS
    MaxTrainings = 4
    Libraries = {l1, l2}
    MaxUpgrades = 2
    MaxFaults = 2
    Keep = 1
    None = None
INVARIANTS
    TypeOK
    ServedAsDescribed
PROPERTIES
    NewestIsServed
CHECK_DEADLOCK FALSE
