CONSTANTS
    NoFile = NoFile
    Torn = Torn
    MaxBuilds = 3
    MaxPackages = 2
    MaxEdits = 1
    MaxKills = 1
SPECIFICATION Spec
CHECK_DEADLOCK FALSE
INVARIANTS
    PublishIsAtomic
    NothingLeftOver
    ReleaseIsConsistent
