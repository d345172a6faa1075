SPECIFICATION Spec
CONSTANTS
    Threads = {t1, t2}
    NoThread = NoThread
    lookup = lookup
    rows = rows
    Files = {lookup, rows}
    Nesting <- LookupThenRows
    Expansion = 50
    JoinedClose = FALSE
    MayFail = FALSE
    MaxPointers = 2
    MaxCalls = 4
    MaxKills = 0
INVARIANT PointersAreMapped
CHECK_DEADLOCK FALSE
