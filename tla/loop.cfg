CONSTANTS
    NTasks = 3
    DependsOn <- MCDependsOn
    Routed <- MCRouted
    Selects <- MCSelects
    MinTests <- MCMinTests
    Torn = Torn
    MaxRuns = 2
    MaxBreaks = 1
SPECIFICATION FairSpec
CHECK_DEADLOCK FALSE
INVARIANTS
    PassIsClosed
    NothingForgotten
    BlockedIsExhausted
PROPERTIES
    PassIsKept
    RunEnds
