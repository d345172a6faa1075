SPECIFICATION Spec
CONSTANTS
    NoOne = NoOne
    Writers = {w1, w2}
    Readers = {r1}
    Parts = {block_table, transaction_table}
    Kinds = {"push"}
    FlushEachWrite = TRUE
    MayFail = FALSE
    MayCrash = TRUE
    LateClose = TRUE
    MaxWrites = 3
INVARIANTS WriteExclusivity ReadsAreSnapshots UnlockedStoreIsCurrent NoSpuriousFailure
