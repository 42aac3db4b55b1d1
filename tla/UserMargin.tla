----------------------------- MODULE UserMargin -----------------------------
(* What user.ts says of one user's account at the prices of the moment: the  *)
(* collateral and what it must cover, whether the account can be liquidated  *)
(* and at which price, and how much it may still trade, swap or withdraw.    *)
(* The account and the prices are what the subscribers last read; the user   *)
(* acts on the largest amounts the client reports.  Liquidity provision      *)
(* (lpShares) is left out.                                                   *)
EXTENDS MarginMath, Sequences, FiniteSets, FiniteSetsExt

CONSTANTS
    SpotMarket, PerpMarket, Oracle,
    SpotMarketAccount,    \* market -> its account
    PerpMarketAccount,
    liquidationMarginBufferRatio

VARIABLES
    userAccount,
    oracle,               \* oracle -> price
    twap,                 \* spot market -> 5 minute average of its oracle, as of now
    lastOraclePriceTwap5Min  \* the one the quote market's account holds

SpotPrice(m) == oracle[SpotMarketAccount[m].oracle]
PerpPrice(p) == oracle[PerpMarketAccount[p].oracle]
StrictPrice(m, strict) == StrictOraclePrice(SpotPrice(m), IF strict THEN twap[m] ELSE SpotPrice(m))
(* Profits and perp liabilities are converted at the average as it was last *)
(* recorded, not as of now.                                                 *)
StrictQuotePrice(strict) ==
    StrictOraclePrice(SpotPrice(QUOTE), IF strict THEN lastOraclePriceTwap5Min ELSE SpotPrice(QUOTE))
OPEN_ORDER_MARGIN_REQUIREMENT == Div(PRICE_PRECISION, 100)
InSpot(f(_)) == MapThenSumSet(f, SpotMarket)
InPerp(f(_)) == MapThenSumSet(f, PerpMarket)

-----------------------------------------------------------------------------
(* Spot markets.  u is the account; category is "Initial", "Maintenance" or *)
(* "None".                                                                  *)
Weighed(value, weight, category) ==
    IF category = "None" THEN value ELSE Div(value * weight, MARGIN_PRECISION)
HasCustomRatio(m, category) == category = "Initial" /\ m # QUOTE
getSpotLiabilityValue(u, tokens, strict, m, category, buffer) ==
    Weighed(getStrictTokenValue(tokens, SpotMarketAccount[m], strict),
            buffer + Greater(calculateLiabilityWeight(tokens, SpotMarketAccount[m], category),
                             IF HasCustomRatio(m, category) THEN MARGIN_PRECISION + u.maxMarginRatio ELSE 0),
            category)
CustomAssetWeight(u, m, category, weight) ==
    IF HasCustomRatio(m, category)
    THEN Lesser(weight, Greater(0, MARGIN_PRECISION - u.maxMarginRatio)) ELSE weight
getSpotAssetValue(u, tokens, strict, m, category) ==
    Weighed(getStrictTokenValue(tokens, SpotMarketAccount[m], strict),
            CustomAssetWeight(u, m, category,
                calculateAssetWeight(tokens, strict.current, SpotMarketAccount[m], category)),
            category)
SpotValue(u, tokens, strict, m, category, buffer) ==
    IF tokens >= 0 THEN getSpotAssetValue(u, tokens, strict, m, category)
    ELSE -Abs(getSpotLiabilityValue(u, tokens, strict, m, category, buffer))

(* What one position adds to the assets, the liabilities and the net quote: *)
(* its tokens alone, or the worst case of its open orders.                  *)
Sides(value, orders, quote) ==
    [asset |-> Greater(value, 0), quote |-> quote,
     liability |-> Greater(-value, 0) + orders * OPEN_ORDER_MARGIN_REQUIREMENT]
QuoteOfOrders(u, value, category) ==
    IF value >= 0 THEN value
    ELSE Div(value * (IF category = "Initial" THEN Greater(MARGIN_PRECISION, u.maxMarginRatio)
                      ELSE MARGIN_PRECISION), MARGIN_PRECISION)
CountsForQuote(u, m, scope, orders) == QUOTE \in scope \/ (orders /\ u.spot[m].openOrders # 0)
WithoutOrders(value, m) == IF m = QUOTE THEN Sides(0, 0, value) ELSE Sides(value, 0, 0)
WithOrders(u, m, worst, scope, category, buffer, strict) ==
    Sides(IF m \in scope THEN SpotValue(u, worst.tokenAmount, strict, m, category, buffer) ELSE 0,
          u.spot[m].openOrders,
          IF CountsForQuote(u, m, scope, TRUE) THEN QuoteOfOrders(u, worst.ordersValue, category) ELSE 0)
SpotContribution(u, m, scope, category, buffer, orders, strictly) ==
    CASE isSpotPositionAvailable(u.spot[m])
         \/ (m \notin scope /\ ~CountsForQuote(u, m, scope, orders)) -> Sides(0, 0, 0)
      [] (m = QUOTE /\ CountsForQuote(u, m, scope, orders)) \/ (~orders /\ m \in scope) ->
             WithoutOrders(SpotValue(u, SignedTokens(u.spot[m], SpotMarketAccount[m]),
                                     StrictPrice(m, strictly), m, category, buffer), m)
      [] OTHER ->
             WithOrders(u, m, getWorstCaseTokenAmounts(u.spot[m], SpotMarketAccount[m],
                                  StrictPrice(m, strictly), category, u.maxMarginRatio),
                        scope, category, buffer, StrictPrice(m, strictly))

AddedUp(part, quote) ==
    [asset |-> InSpot(LAMBDA m : part[m].asset) + Greater(quote, 0),
     liability |-> InSpot(LAMBDA m : part[m].liability) + Greater(-quote, 0)]
getSpotMarketAssetAndLiabilityValue(u, scope, category, buffer, orders, strict) ==
    LET Total(part) ==
            AddedUp(part, IF QUOTE \in scope THEN InSpot(LAMBDA m : part[m].quote) ELSE 0)
    IN Total([m \in SpotMarket |->
                  SpotContribution(u, m, scope, category, buffer, orders, strict)])
Net(value) == value.asset - value.liability
getSpotPositionValue(u, scope) ==
    Net(getSpotMarketAssetAndLiabilityValue(u, scope, "None", 0, FALSE, FALSE))

-----------------------------------------------------------------------------
(* Perp markets.                                                            *)
ActivePerp(u, p) == u.perp[p].base # 0 \/ u.perp[p].quote # 0 \/ u.perp[p].openOrders # 0

(* Profits are taken at the worse, losses at the better price of the quote. *)
UnrealizedPnl(u, p, category, strictly) ==
    LET market == PerpMarketAccount[p]
        quote == StrictQuotePrice(strictly)
        Weighted(value) ==
            IF category = "None" \/ value =< 0 THEN value
            ELSE Div(value * calculateUnrealizedAssetWeight(market, SpotMarketAccount[QUOTE], value,
                                                            category, PerpPrice(p)), MARGIN_PRECISION)
        InQuote(pnl) == Weighted(Div(pnl * (IF pnl > 0 THEN quote.min ELSE quote.max), PRICE_PRECISION))
    IN IF ActivePerp(u, p) THEN InQuote(calculatePositionPNL(market, u.perp[p], PerpPrice(p))) ELSE 0
getUnrealizedPNL(u, category, strict) == InPerp(LAMBDA p : UnrealizedPnl(u, p, category, strict))

PerpExposure(position, market, price, orders) ==
    IF orders THEN calculateWorstCasePerpLiabilityValue(position, market, price)
    ELSE [base |-> position.base, value |-> calculatePerpLiabilityValue(position.base, price, market)]
calculateWeightedPerpPositionLiability(u, p, category, buffer, orders, strictly) ==
    LET market == PerpMarketAccount[p]
        Ratio(base) == IF market.status = "settlement" THEN 0
                       ELSE calculateMarketMarginRatio(market, base, category,
                                                       u.maxMarginRatio, u.highLeverage) + buffer
        Weighted(exposure) ==
            IF category = "None" THEN exposure.value
            ELSE Div(Div(exposure.value * StrictQuotePrice(strictly).max, PRICE_PRECISION)
                     * Ratio(exposure.base), MARGIN_PRECISION)
                 + (IF orders THEN u.perp[p].openOrders * OPEN_ORDER_MARGIN_REQUIREMENT ELSE 0)
    IN IF ~ActivePerp(u, p) THEN 0
       ELSE Weighted(PerpExposure(u.perp[p], market, ValuationPrice(market, PerpPrice(p)), orders))
getTotalPerpPositionLiability(u, category, buffer, orders, strict) ==
    InPerp(LAMBDA p : calculateWeightedPerpPositionLiability(u, p, category, buffer, orders, strict))

-----------------------------------------------------------------------------
(* The whole account.                                                       *)
getMarginRequirement(u, category, buffer, strict, orders) ==
    getTotalPerpPositionLiability(u, category, buffer, orders, strict)
    + getSpotMarketAssetAndLiabilityValue(u, SpotMarket, category, buffer, orders, strict).liability
getTotalCollateral(u, category, strict, orders) ==
    getSpotMarketAssetAndLiabilityValue(u, SpotMarket, category, 0, orders, strict).asset
    + getUnrealizedPNL(u, category, strict)
getInitialMarginRequirement(u) == getMarginRequirement(u, "Initial", 0, TRUE, TRUE)
getMaintenanceMarginRequirement(u) ==
    getMarginRequirement(u, "Maintenance",
        IF u.beingLiquidated THEN liquidationMarginBufferRatio ELSE 0, FALSE, TRUE)
InitialSurplus(u) == getTotalCollateral(u, "Initial", TRUE, TRUE) - getInitialMarginRequirement(u)
getFreeCollateral(u) == Greater(InitialSurplus(u), 0)
canBeLiquidated(u) ==
    getTotalCollateral(u, "Maintenance", FALSE, TRUE) < getMaintenanceMarginRequirement(u)

(* Leverage is the liabilities over the net assets, unweighted.             *)
getLeverageComponents(u) ==
    LET Components(spot) ==
            [perpLiability |-> getTotalPerpPositionLiability(u, "None", 0, TRUE, FALSE),
             perpPnl |-> getUnrealizedPNL(u, "None", FALSE),
             spotAsset |-> spot.asset, spotLiability |-> spot.liability]
    IN Components(getSpotMarketAssetAndLiabilityValue(u, SpotMarket, "None", 0, TRUE, FALSE))
NetAssets(c) == c.spotAsset + c.perpPnl - c.spotLiability
calculateLeverageFromComponents(c) ==
    IF NetAssets(c) = 0 THEN 0
    ELSE Div((c.perpLiability + c.spotLiability) * MARGIN_PRECISION, NetAssets(c))
getLeverage(u) == calculateLeverageFromComponents(getLeverageComponents(u))
=============================================================================
