SPECIFICATION Spec
CONSTANTS
    k1 = k1
    k2 = k2
    v1 = v1
    v2 = v2
    None = None
    Key = {k1, k2}
    Callback = {c1, c2}
    ErrorCallback = {}
    Value = {v1, v2}
    Load = {l1, l2}
    MaxSlot = 2
    Ledger <- MCLedger2
    CHUNK_SIZE = 2
    BATCH_SIZE = 1
    CallbacksMayThrow = FALSE
    SlowLoads = TRUE
INVARIANTS
    LoaderConsistent BufferIsChainState CallbacksSawStoredEntry
PROPERTIES
    SlotsOnlyMoveForward
