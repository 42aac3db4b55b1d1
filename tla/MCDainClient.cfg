CONSTANTS
    sol = sol
    solPerp = solPerp
    usdc = usdc
    solOracle = solOracle
    usdcOracle = usdcOracle
    none = none
    PerpMarket = {solPerp}
    SpotMarket = {usdc, sol}
    Quote = usdc
    Oracle <- MCOracle
    DefaultOracle = none
    VaultProtocol = VaultProtocol
    Prelaunch = {}
    SubAccount = {main, hedge}
    main = main
    hedge = hedge
    OtherAccount <- MCOther
    TradedSpot = {sol}
    MustInclude = {sol}
    MaxSlot = 2
    MaxInFlight = 1
SPECIFICATION Spec
INVARIANTS OwnPositionsAreNamed WritableIffWritten
SYMMETRY MCSymmetry
CHECK_DEADLOCK FALSE
