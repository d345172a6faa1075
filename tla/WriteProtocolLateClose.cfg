SPECIFICATION Spec
CONSTANTS
    NoOne = NoOne
    Writers = {w1}
    Readers = {r1}
    Parts = {block_table, transaction_table}
    Kinds = {"push"}
    FlushEachWrite = FALSE
    MayFail = FALSE
    MayCrash = TRUE
    LateClose = TRUE
    MaxWrites = 2
INVARIANT UnlockedStoreIsCurrent
