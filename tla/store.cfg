CONSTANTS
    Procs = {p1, p2}
    Pids = {1, 2}
    Versions = {"v1", "v2"}
    NoFile = NoFile
    MaxCalls = 2
    MaxMishaps = 2
SPECIFICATION FairSpec
CHECK_DEADLOCK FALSE
INVARIANTS
    TypeOK
    BundleIsWhole
    TempsAreRemoved
PROPERTIES
    IsAtomic
    CallsReturn
