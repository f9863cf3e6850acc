SPECIFICATION Spec
CONSTANTS
    ida = ida
    idb = idb
    idc = idc
    Ids = {ida, idb, idc}
    DpSize = 2
    Policy = "cache_aware"
    EnableDpAttention = TRUE
    Tokens <- MCTokens
    Chain <- MCChain
    BlockSize = 2
    Capacity = 3
    Batches <- TwoBatches
    MaxUses = 1
INVARIANTS LoadIsCharges RoutesAreOwned ExactRelease NothingLeftBehind
PROPERTY GenerateReturns
CHECK_DEADLOCK FALSE
