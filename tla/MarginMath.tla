----------------------------- MODULE MarginMath -----------------------------
(* The arithmetic the margin system is built from: balances with interest    *)
(* (math/spotBalance.ts), the worst case of a position with open orders      *)
(* (math/spotPosition.ts, math/margin.ts), margin ratios and weights         *)
(* (math/market.ts, math/spotMarket.ts) and the profit of a perp position    *)
(* (math/position.ts).  The powers of ten are parameters, so that a small    *)
(* instance rounds as often as the program does.                             *)
EXTENDS BigNumbers

CONSTANTS
    PRICE_PRECISION,      \* a price of one; QUOTE_PRECISION is the same number
    BASE_PRECISION,       \* one unit of base; AMM_RESERVE_PRECISION as well
    MARGIN_PRECISION,     \* a ratio of one; SPOT_MARKET_WEIGHT_PRECISION as well
    SPOT_MARKET_IMF_PRECISION,
    SIZE_PRECISION,       \* the square root of ten units of base
    FUNDING_RATE_BUFFER,
    QUOTE                 \* the market of the quote token, USDC

ASSUME PrecisionAssumption ==
    {PRICE_PRECISION, BASE_PRECISION, MARGIN_PRECISION, SPOT_MARKET_IMF_PRECISION,
     SIZE_PRECISION, FUNDING_RATE_BUFFER} \subseteq Nat \ {0}

-----------------------------------------------------------------------------
(* An oracle's price and, where a twap is given, the worse of the two.      *)
StrictOraclePrice(current, twap) ==
    [current |-> current, min |-> Lesser(current, twap), max |-> Greater(current, twap)]

(* Balances grow with interest.  scale stands for 10^(19 - decimals).       *)
Interest(market, type) ==
    IF type = "deposit" THEN market.cumulativeDepositInterest ELSE market.cumulativeBorrowInterest
RoundedUp(balance, type) == IF balance # 0 /\ type = "borrow" THEN balance + 1 ELSE balance
getBalance(tokens, market, type) ==
    RoundedUp(Div(tokens * market.scale, Interest(market, type)), type)
Tokens(grown, scale, type) == IF type = "deposit" THEN Div(grown, scale) ELSE DivCeil(grown, scale)
getTokenAmount(balance, market, type) ==
    Tokens(balance * Interest(market, type), market.scale, type)
getSignedTokenAmount(tokens, type) == IF type = "deposit" THEN tokens ELSE -Abs(tokens)
SignedTokens(position, market) ==
    getSignedTokenAmount(getTokenAmount(position.balance, market, position.type), position.type)

(* unit stands for 10^decimals.                                             *)
getTokenValue(tokens, market, price) == Div(tokens * price, market.unit)
TokenValueAtTheBetter(tokens, market, strict) ==    \* mutant: the prices swapped
    getTokenValue(tokens, market, IF tokens >= 0 THEN strict.max ELSE strict.min)
getStrictTokenValue(tokens, market, strict) ==
    getTokenValue(tokens, market, IF tokens >= 0 THEN strict.min ELSE strict.max)

-----------------------------------------------------------------------------
(* A large position weighs more as a liability and less as an asset.        *)
calculateSizePremiumLiabilityWeight(size, imfFactor, weight) ==
    IF imfFactor = 0 THEN weight
    ELSE LET root == squareRootBN(Abs(size) * 10 + 1)
             denom == Div(SIZE_PRECISION * SPOT_MARKET_IMF_PRECISION, MARGIN_PRECISION)
         IN Greater(weight, weight - Div(weight, 5) + Div(root * imfFactor, denom))
calculateSizeDiscountAssetWeight(size, imfFactor, weight) ==
    IF imfFactor = 0 THEN weight
    ELSE LET root == squareRootBN(Abs(size) * 10 + 1)
             numerator == SPOT_MARKET_IMF_PRECISION + Div(SPOT_MARKET_IMF_PRECISION, 10)
             denominator == SPOT_MARKET_IMF_PRECISION + Div(root * imfFactor, SIZE_PRECISION)
         IN Lesser(weight, Div(numerator * MARGIN_PRECISION, denominator))

SizeInBase(tokens, market) ==
    IF market.unit > BASE_PRECISION THEN Div(tokens, Div(market.unit, BASE_PRECISION))
    ELSE Div(tokens * BASE_PRECISION, market.unit)
ScaledDown(weight, start, deposits) ==
    IF start = 0 \/ deposits < start THEN weight ELSE Div(weight * start, deposits)
calculateScaledInitialAssetWeight(market, price) ==
    ScaledDown(market.initialAssetWeight, market.scaleInitialAssetWeightStart,
        getTokenValue(getTokenAmount(market.depositBalance, market, "deposit"), market, price))
calculateAssetWeight(tokens, price, market, category) ==
    calculateSizeDiscountAssetWeight(SizeInBase(tokens, market),
        IF category = "None" THEN 0 ELSE market.imfFactor,
        IF category = "Maintenance" THEN market.maintenanceAssetWeight
        ELSE calculateScaledInitialAssetWeight(market, price))
calculateLiabilityWeight(tokens, market, category) ==
    calculateSizePremiumLiabilityWeight(SizeInBase(tokens, market),
        IF category = "None" THEN 0 ELSE market.imfFactor,
        IF category = "Maintenance" THEN market.maintenanceLiabilityWeight
        ELSE market.initialLiabilityWeight)
calculateSpotMarketMarginRatio(market, price, size, type, custom) ==
    Greater(IF type = "deposit"
            THEN MARGIN_PRECISION - calculateAssetWeight(size, price, market, "Initial")
            ELSE calculateLiabilityWeight(size, market, "Initial") - MARGIN_PRECISION, custom)

-----------------------------------------------------------------------------
(* A spot position is worth what the worse of filling all its bids and      *)
(* filling all its asks leaves.                                             *)
isSpotPositionAvailable(position) == position.balance = 0 /\ position.openOrders = 0

Customized(weight, value, market, category, custom) ==
    CASE category # "Initial" \/ custom = 0 \/ market.name = QUOTE -> weight
      [] value >= 0 -> Lesser(weight, Greater(0, MARGIN_PRECISION - custom))
      [] OTHER -> Greater(weight, MARGIN_PRECISION + custom)
WeightOf(tokens, value, price, market, category, custom) ==
    Customized(IF value >= 0 THEN calculateAssetWeight(tokens, price, market, category)
               ELSE calculateLiabilityWeight(Abs(tokens), market, category),
               value, market, category, custom)
calculateWeightedTokenValue(tokens, value, price, market, category, custom) ==
    Div(value * WeightOf(tokens, value, price, market, category, custom), MARGIN_PRECISION)

Simulated(tokens, value, ordersValue, weighted) ==
    [tokenAmount |-> tokens, ordersValue |-> ordersValue, tokenValue |-> value,
     weightedTokenValue |-> weighted, freeCollateralContribution |-> weighted + ordersValue]
Filled(tokens, value, ordersValue, strict, market, category, custom) ==
    Simulated(tokens, value, ordersValue,
        calculateWeightedTokenValue(tokens, value, strict.current, market, category, custom))
simulateOrderFill(tokens, value, openOrders, strict, market, category, custom) ==
    LET ordersValue == getTokenValue(-openOrders, market, strict.max)
    IN Filled(tokens + openOrders, value - ordersValue, ordersValue, strict, market, category, custom)

Worse(bids, asks) ==
    IF asks.freeCollateralContribution < bids.freeCollateralContribution THEN asks ELSE bids
WorseFill(tokens, value, position, strict, market, category, custom) ==
    Worse(simulateOrderFill(tokens, value, position.openBids, strict, market, category, custom),
          simulateOrderFill(tokens, value, position.openAsks, strict, market, category, custom))
getWorstCaseTokenAmounts(position, market, strict, category, custom) ==
    LET tokens == SignedTokens(position, market)
    IN WorseFill(tokens, getStrictTokenValue(tokens, market, strict), position,
                 strict, market, category, custom)

-----------------------------------------------------------------------------
(* Perp positions.                                                          *)
calculatePerpLiabilityValue(base, price, market) ==
    IF market.contractType = "prediction" /\ base =< 0
    THEN Div(Abs(base) * (PRICE_PRECISION - price), BASE_PRECISION)
    ELSE Div(Abs(base) * price, BASE_PRECISION)
LargerLiability(bids, asks) == IF asks.value >= bids.value THEN asks ELSE bids
calculateWorstCasePerpLiabilityValue(position, market, price) ==
    LET Case(base) == [base |-> base, value |-> calculatePerpLiabilityValue(base, price, market)]
    IN LargerLiability(Case(position.base + position.openBids), Case(position.base + position.openAsks))

HighLeverage(market, highLeverage) ==
    highLeverage /\ market.highLeverageInitial > 0 /\ market.highLeverageMaintenance > 0
calculateMarketMarginRatio(market, size, category, custom, highLeverage) ==
    Greater(IF category = "Initial" THEN custom ELSE 0,
        calculateSizePremiumLiabilityWeight(size, market.imfFactor,
            CASE category = "Initial" /\ HighLeverage(market, highLeverage) -> market.highLeverageInitial
              [] category = "Initial" /\ ~HighLeverage(market, highLeverage) -> market.marginRatioInitial
              [] category # "Initial" /\ HighLeverage(market, highLeverage) -> market.highLeverageMaintenance
              [] OTHER -> market.marginRatioMaintenance))

calculateUnsettledFundingPnl(market, position) ==
    LET rate == IF position.base > 0 THEN market.cumulativeFundingRateLong
                ELSE market.cumulativeFundingRateShort
    IN -Div(Div((rate - position.funding) * position.base, BASE_PRECISION), FUNDING_RATE_BUFFER)
ValuationPrice(market, price) == IF market.status = "settlement" THEN market.expiryPrice ELSE price
calculateBaseAssetValueWithOracle(market, position, price) ==
    Div(Abs(position.base) * ValuationPrice(market, price), BASE_PRECISION)
calculatePositionPNL(market, position, price) ==
    IF position.base = 0 THEN position.quote
    ELSE (IF position.base < 0 THEN -1 ELSE 1)
             * calculateBaseAssetValueWithOracle(market, position, price)
         + position.quote + calculateUnsettledFundingPnl(market, position)

calculateNetUserPnl(market, price) ==
    Div(market.netUserBase * price, BASE_PRECISION) + market.netUserQuote
calculateNetUserPnlImbalance(market, quoteMarket, price) ==
    calculateNetUserPnl(market, price)
        - (getTokenAmount(market.pnlPool, quoteMarket, "deposit")
           + Div(getTokenAmount(market.feePool, quoteMarket, "deposit"), 5))
Limited(weight, imbalance, limit) ==
    IF limit > 0 /\ imbalance > limit THEN Div(weight * limit, imbalance) ELSE weight
calculateUnrealizedAssetWeight(market, quoteMarket, pnl, category, price) ==
    IF category = "Initial"
    THEN calculateSizeDiscountAssetWeight(pnl, market.unrealizedPnlImfFactor,
             Limited(market.unrealizedPnlInitialAssetWeight,
                     calculateNetUserPnlImbalance(market, quoteMarket, price),
                     market.unrealizedPnlMaxImbalance))
    ELSE market.unrealizedPnlMaintenanceAssetWeight

(* Withdrawals and borrows of a market are throttled against its averages   *)
(* of the last day.                                                         *)
calculateTokenUtilizationLimits(deposits, borrows, market) ==
    LET ONE == market.utilizationPrecision
        utilization == Greater(market.optimalUtilization,
                               market.utilizationTwap + Div(ONE - market.utilizationTwap, 2))
    IN [minDeposit |-> Lesser(Div(borrows * ONE, utilization), deposits - market.withdrawGuardThreshold),
        maxBorrow |-> Greater(market.withdrawGuardThreshold, Div(utilization * deposits, ONE))]
calculateWithdrawLimit(market, sinceLast, day) ==
    LET deposits == getTokenAmount(market.depositBalance, market, "deposit")
        borrows == getTokenAmount(market.borrowBalance, market, "borrow")
        sinceStart == Greater(0, day - sinceLast)
        Twap(old, now) == Div(old * sinceStart + now * sinceLast, sinceLast + sinceStart)
        depositTwap == Twap(market.depositTokenTwap, deposits)
        lesser == Lesser(deposits, depositTwap)
        guard == market.withdrawGuardThreshold
        maxBorrowTwap == Greater(guard,
            Lesser(Greater(Div(deposits, 6), Twap(market.borrowTokenTwap, borrows) + Div(lesser, 10)),
                   lesser - Div(lesser, 5)))
        minDepositTwap == depositTwap - Greater(Div(depositTwap, 4), Lesser(guard, depositTwap))
        limits == calculateTokenUtilizationLimits(deposits, borrows, market)
        withdraw == Greater(deposits - Greater(limits.minDeposit, minDepositTwap), 0)
        maxBorrow == Lesser(limits.maxBorrow, maxBorrowTwap)
        borrow == Lesser(maxBorrow - borrows, deposits - borrows)
        fraction == Div(market.maxTokenDeposits * market.maxTokenBorrowsFraction, MARGIN_PRECISION) - borrows
    IN [withdraw |-> withdraw,
        borrow |-> CASE withdraw = 0 -> 0
                     [] market.maxTokenBorrowsFraction > 0 -> Lesser(borrow, Lesser(maxBorrow, fraction))
                     [] OTHER -> borrow]
=============================================================================
