SPECIFICATION FreshSpec
CONSTANTS
    k1 = k1
    k2 = k2
    v1 = v1
    v2 = v2
    None = None
    Key = {k1, k2}
    Callback = {c1, c2}
    ErrorCallback = {e1}
    Value = {v1, v2}
    Load = {l1}
    MaxSlot = 2
    Ledger <- MCLedger2
    CHUNK_SIZE = 1
    BATCH_SIZE = 1
    CallbacksMayThrow = TRUE
    SlowLoads = FALSE
PROPERTIES
    PolledAccountsGetFresh
