CONSTANTS
    Names = {"a", "b"}
    Fetched <- MCFetched
SPECIFICATION Spec
CHECK_DEADLOCK FALSE
INVARIANTS
    ScannerAgrees
    CountIsSound
    TidyIsExact
