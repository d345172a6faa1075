\* CHECK_DEADLOCK FALSE: the bound on the records stops the writers.
CONSTANTS
    writer = writer
    second = second
    reader = reader
    k1 = k1
    k2 = k2
    NoKey = NoKey
    Threads = {writer, second}
    Keys = {k1}
    Calls <- AddCalls
    Sole = {}
    Moves = FALSE
    MaxRecords = 3
SPECIFICATION Spec
INVARIANTS RowsAreChained
CHECK_DEADLOCK FALSE
