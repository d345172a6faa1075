SPECIFICATION Spec
CONSTANTS
    NoOne = NoOne
    Writers = {w1}
    Readers = {r1}
    Parts = {block_table, transaction_table}
    Kinds = {"push"}
    FlushEachWrite = TRUE
    MayFail = TRUE
    MayCrash = FALSE
    LateClose = FALSE
    MaxWrites = 4
INVARIANT FailureKeepsLockFile
