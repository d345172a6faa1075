SPECIFICATION Spec
CONSTANTS
    Processes = {p1, p2}
    NoOne = NoOne
    FlushChoices = {TRUE, FALSE}
    MayFail = TRUE
    MayClean = TRUE
    MaxBlocks = 2
INVARIANTS OneOwner DamageIsRefused ReadyIsWhole
PROPERTY ClosedIsCut
