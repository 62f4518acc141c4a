CONSTANTS
    f1 = f1
    f2 = f2
    f3 = f3
    d1 = d1
    d2 = d2
    Files = {f1, f2}
    Dirs = {d1, d2}
    ParentDir <- MCParentDir
    PoolSize = 1
    Contents <- MCContents
    MaxChanges = 3
SPECIFICATION FairSpec
CHECK_DEADLOCK FALSE
INVARIANTS
    UndisturbedIsJudged
    CleanWasRead
    DetectionIsKept
    StableThreatIsCaught
    ListedIsJudged
PROPERTIES
    ScanFinishes
