CONSTANTS
    a = a
    b = b
    a1 = a1
    b1 = b1
    User = {a, b}
    Order = {a1, b1}
    Owner <- MCOwner
    None = None
    Configs <- MCConfigs
    MaxTransactions = 2
    MaxFailures = 1
    MaxUnsubscribes = 1
SPECIFICATION Spec
INVARIANTS OrdersAnnounced
PROPERTIES AccountsMoveForward BookFollowsTheChain
CHECK_DEADLOCK FALSE
