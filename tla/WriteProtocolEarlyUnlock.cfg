SPECIFICATION Spec
CONSTANTS
    NoOne = NoOne
    Writers = {w1, w2}
    Readers = {r1}
    Parts = {block_table, transaction_table}
    Kinds = {"push", "reorganize"}
    FlushEachWrite = FALSE
    MayFail = FALSE
    MayCrash = FALSE
    LateClose = FALSE
    MaxWrites = 3
INVARIANT ReadsAreWhole
