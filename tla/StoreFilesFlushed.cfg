SPECIFICATION Spec
CONSTANTS
    Processes = {p1}
    NoOne = NoOne
    FlushChoices = {TRUE, FALSE}
    MayFail = TRUE
    MayClean = TRUE
    MaxBlocks = 2
INVARIANT ReadyIsAlwaysWhole
PROPERTY ExistingIsKept
