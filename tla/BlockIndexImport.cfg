SPECIFICATION FairSpec
CONSTANTS
    Threads = {t1, t2, t3}
    NoThread = NoThread
    MaxHeight = 2
    MaxBlocks = 4
CHECK_DEADLOCK FALSE
INVARIANTS StoredIsKept GapsAreExact
PROPERTY InsertsEnd
