SPECIFICATION FairSpec
CONSTANTS
    Replicas = {p1, p2}
    MaxFaults = 1
    None = None
    Orphan = Orphan
    east = east
    west = west
    far = far
    Resources = {far}
    Regions = {east, west}
    Default = east
    Home <- MCHome
    Kinds = {"regional", "bucket"}
    MaxChanges = 2
    MaxRunning = 2
INVARIANTS
    TypeOK
    LeaderHoldsLock
PROPERTIES
    GoneDidNotExist
    InventorySettles
    AgreementStays
CHECK_DEADLOCK FALSE
