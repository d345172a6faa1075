SPECIFICATION FairSpec
CONSTANTS
    NoOne = NoOne
    Writers = {w1, w2}
    Readers = {}
    Parts = {block_table}
    Kinds = {"push", "reorganize", "insert"}
    FlushEachWrite = TRUE
    MayFail = TRUE
    MayCrash = FALSE
    LateClose = FALSE
    MaxWrites = 3
PROPERTY MutexIsReleased
