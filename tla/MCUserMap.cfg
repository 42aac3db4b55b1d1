CONSTANTS
    u1 = u1
    u2 = u2
    l1 = l1
    l2 = l2
    User = {u1, u2}
    None = None
    Loop = {l1}
    Modes <- MCModes
    MaxSlot = 2
    MaxGets = 1
    MaxFailures = 1
    CarefulCallers = TRUE
SPECIFICATION Spec
INVARIANTS EntriesAreTheChains
PROPERTIES EntriesMoveForward PolledMapFollowsTheChain
CHECK_DEADLOCK FALSE
