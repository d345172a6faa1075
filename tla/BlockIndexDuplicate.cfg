SPECIFICATION Spec
CONSTANTS
    Threads = {t1, t2}
    NoThread = NoThread
    MaxHeight = 3
    MaxBlocks = 4
CHECK_DEADLOCK FALSE
INVARIANT DuplicateIsStored
