CONSTANTS
    Entries = {e1, e2, e3}
    NoEntry = NoEntry
    Threads = {t1, t2}
    ChannelCap = 2
    StreamCap = 2
    MaxScans = 2
SPECIFICATION Spec
SYMMETRY Symmetry
INVARIANTS
    TypeOK
    DoneIsComplete
    ScreenMatchesScan
    ProgressNotAhead
    PumpIsArmed
PROPERTIES
    ProgressMonotone
    DoneComesUpWhole
    TerminalIsFinal
    NoOrphanWorker
