SPECIFICATION FairSpec
CONSTANTS
    Threads = {t1, t2}
    NoThread = NoThread
    lookup = lookup
    rows = rows
    Files = {lookup, rows}
    Nesting <- LookupThenRows
    Expansion = 50
    JoinedClose = TRUE
    MayFail = TRUE
    MaxPointers = 2
    MaxCalls = 5
    MaxKills = 1
INVARIANTS PointersAreMapped CountedRowsFit CountIsInFile
PROPERTY CallsEnd
CHECK_DEADLOCK FALSE
