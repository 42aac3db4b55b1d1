CONSTANTS
    solPerp = solPerp
    newPerp = newPerp
    sol = sol
    pyth = pyth
    switchboard = switchboard
    PerpMarket = {solPerp, newPerp}
    SpotMarket = {sol}
    OracleId = {pyth, switchboard}
    State = State
    None = None
    FirstOracle <- MCFirstOracle
    Indexes = {solPerp}
    oracleInfos = {pyth}
    PolledByOthers = {}
    delistedMarketSetting = "Discard"
    Retries = 1
    Admin = {Wallet, multisig}
    multisig = multisig
    FirstAdmin = Wallet
    Wallet = Wallet
    Added = {sol, pyth}
    MaxChanges = 1
    MaxCalls = 2
    CarefulCallers = TRUE
SPECIFICATION AdminSpec
INVARIANTS CallbacksAreOwned PricesArrive
CHECK_DEADLOCK FALSE
