\* CHECK_DEADLOCK FALSE: the bound on the records stops the writers.
CONSTANTS
    writer = writer
    second = second
    reader = reader
    k1 = k1
    k2 = k2
    NoKey = NoKey
    Threads = {writer, second, reader}
    Keys = {k1, k2}
    Calls <- WriterCalls
    Sole = {k1}
    Moves = TRUE
    MaxRecords = 4
SPECIFICATION Spec
INVARIANTS LookupIsCurrent RowsAreOwn
PROPERTY ImplementsLists
CHECK_DEADLOCK FALSE
