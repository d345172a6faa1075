SPECIFICATION Spec
CONSTANTS
    NoBlock = NoBlock  NoAddress = NoAddress
    Blocks <- MCBlocks
    Parent <- MCParent
    Txs <- MCTxs
    TxsOf <- MCTxsOf
    InputsOf <- MCInputsOf
    OutputsOf <- MCOutputsOf
    Ephemeral <- MCEphemeral
    Addresses = {"p", "q", "r"}
    MaxWord = 9
    Unverified = 8
    Forks = 7
    Threads = 2
    IndexStart = 0
    CacheCapacity = 2
    SequenceMax = 2
    MaxBranch = 2
    MayStay <- MCMayStay
    Imports = "none"
    Reorganizes = TRUE
    ForksOnChain = TRUE
    ChecksInputs = TRUE
CHECK_DEADLOCK FALSE
INVARIANT CacheAgrees
