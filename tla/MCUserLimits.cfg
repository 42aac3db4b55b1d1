CONSTANTS
    usdc = usdc
    sol = sol
    sol2 = sol2
    solPerp = solPerp
    betPerp = betPerp
    usdcOracle = usdcOracle
    solOracle = solOracle
    betOracle = betOracle
    msol = msol
    pyusd = pyusd
    main = main
    other = other
    SpotMarket = {usdc, sol, sol2}
    Listed <- MCListed
    PerpMarket = {solPerp, betPerp}
    Oracle = {usdcOracle, solOracle, betOracle}
    SpotMarketAccount <- MCSpotMarkets
    PerpMarketAccount <- MCPerpMarkets
    QUOTE = usdc
    PRICE_PRECISION = 100
    BASE_PRECISION = 100
    MARGIN_PRECISION = 100
    SPOT_MARKET_IMF_PRECISION = 100
    SIZE_PRECISION = 32
    FUNDING_RATE_BUFFER = 1
    liquidationMarginBufferRatio = 2
    Long = long
    Short = short
    None = none
    TakerFee = 1
    SwapLimit = 16
    Day = 24
    SinceLast = 6
    FirstAccount <- MCFirst
    FirstPrice <- MCFirstPrice
    Prices <- MCPrices
    TradeSize <- MCTradeSize
    OrderSize <- MCOrderSize
    MaxSteps = 1
    MaxMoves = 2
    Rounding = 6
SPECIFICATION MCSpec
INVARIANTS PlansRun InitialIsStricter LiquidationPriceIsTheThreshold  ForetoldComesTrue
CHECK_DEADLOCK FALSE
