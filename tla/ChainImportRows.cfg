SPECIFICATION Spec
CONSTANTS
    NoBlock = NoBlock  NoAddress = NoAddress
    Blocks <- MCBlocks
    Parent <- MCParent
    Txs <- MCTxs
    TxsOf <- MCTxsOf
    InputsOf <- MCInputsOf
    OutputsOf <- MCSharedOutputsOf
    Ephemeral <- MCEphemeral
    Addresses = {"p", "q", "r"}
    MaxWord = 9
    Unverified = 8
    Forks = 7
    Threads = 1
    IndexStart = 1
    CacheCapacity = 2
    SequenceMax = 2
    MaxBranch = 2
    MayStay <- MCMayStay
    Imports = "inputs"
    Reorganizes = TRUE
    ForksOnChain = TRUE
    ChecksInputs = TRUE
CHECK_DEADLOCK FALSE
INVARIANT HistoryIsWhole
