\* Loads over a minute: the first load's waiters.
SPECIFICATION FairSpec
CONSTANTS
    k1 = k1
    k2 = k2
    v1 = v1
    v2 = v2
    None = None
    Key = {k1, k2}
    Callback = {c1}
    ErrorCallback = {}
    Value = {v1, v2}
    Load = {l1, l2}
    MaxSlot = 1
    Ledger <- MCLedger1
    CHUNK_SIZE = 2
    BATCH_SIZE = 1
    CallbacksMayThrow = FALSE
    SlowLoads = TRUE
PROPERTIES
    AddAccountReturnsEventually
