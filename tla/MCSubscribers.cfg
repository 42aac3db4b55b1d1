SPECIFICATION MCSpec
CONSTANTS
    v1 = v1
    v2 = v2
    None = None
    Sub = {s1}
    Value = {v1, v2}
    MaxSlot = 4
    Ledger <- MCLedger
    Listener = {1, 2}
    ResubConfigured = TRUE
    FetchMayFail = TRUE
    ResubRaces = FALSE
    c1 = c1
    c2 = c2
    Kinds = {"user", "userStats", "insuranceFundStake", "highLeverageModeConfig", "vault", "token", "oracle"}
    Call = {c1, c2}
    Shared = FALSE
    MaxFailures = 1
    CarefulCallers = TRUE
    t1 = t1
    t2 = t2
    t3 = t3
    A = A
    B = B
    Tx = {t1, t2, t3}
    EventType = {A, B}
    Failing = {t3}
    EventsOf <- MCEventsOf
    Options <- MCOptions
    MaxEventSlot = 2
    MaxSubscribes = 2
    HistoryPage = 2
INVARIANTS
    SubscriberConsistent CallbacksAreOwned EventsAreKept
PROPERTIES
    NothingMovesBack ResubscriptionCompletes CopyFollowsTheChain PolledEventsArrive
CHECK_DEADLOCK FALSE
