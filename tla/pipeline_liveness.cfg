CONSTANTS
    Entries = {e1, e2}
    NoEntry = NoEntry
    Threads = {t1, t2}
    ChannelCap = 1
    StreamCap = 1
    MaxScans = 2
SPECIFICATION FairSpec
PROPERTIES
    ScanEnds
    ImplementsSession
