SPECIFICATION Spec
CONSTANTS
    NoOne = NoOne
    Writers = {w1}
    Readers = {r1}
    Parts = {block_table, transaction_table}
    Kinds = {"push"}
    FlushEachWrite = FALSE
    MayFail = TRUE
    MayCrash = FALSE
    LateClose = FALSE
    MaxWrites = 4
PROPERTY NoUseAfterFailure
