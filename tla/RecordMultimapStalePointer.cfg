\* CHECK_DEADLOCK FALSE: the bound on the records stops the writers.
CONSTANTS
    writer = writer
    second = second
    reader = reader
    k1 = k1
    k2 = k2
    NoKey = NoKey
    Threads = {writer, second}
    Keys = {k1, k2}
    Calls <- AddCalls
    Sole = {k1, k2}
    Moves = TRUE
    MaxRecords = 3
SPECIFICATION Spec
INVARIANTS PointerIsValid
CHECK_DEADLOCK FALSE
