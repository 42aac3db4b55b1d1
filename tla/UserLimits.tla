----------------------------- MODULE UserLimits -----------------------------
(* What user.ts foretells: the price an account is liquidated at, now and    *)
(* after a trade, the leverage after a trade or a swap, and the largest      *)
(* trade, swap and withdrawal the account can afford.  Here the user does    *)
(* what the client says it can, while prices move and orders rest.           *)
EXTENDS UserMargin

CONSTANTS
    Long, Short, None,
    Listed,               \* market -> its place among the client's spot or perp markets
    TakerFee,             \* of the worst fee tier, out of MARGIN_PRECISION
    SwapLimit,            \* the iterations of getMaxSwapAmount
    Day, SinceLast,       \* seconds: of a market's averages, since their update
    FirstAccount,         \* the accounts, prices and sizes of a run
    FirstPrice,
    Prices,
    TradeSize,            \* base amounts, signed
    OrderSize,
    MaxSteps,             \* bounds on the steps of the user's and the market's
    MaxMoves,
    Rounding              \* units of quote that truncation may cost

VARIABLES
    told,                 \* what the client said before the last step
    steps,                \* the steps of the user's and of the market's
    moves

averages == <<twap, lastOraclePriceTwap5Min>>
vars == <<userAccount, oracle, averages, told, steps, moves>>

StrictNow(m) == StrictPrice(m, FALSE)
SpotTokens(u, m) == SignedTokens(u.spot[m], SpotMarketAccount[m])
MarginRatio(u, p, base, category) ==
    calculateMarketMarginRatio(PerpMarketAccount[p], base, category, u.maxMarginRatio, u.highLeverage)

-----------------------------------------------------------------------------
(* Liquidation price.  How much free collateral one unit of price gives.    *)
calculateFreeCollateralDeltaForPerp(u, p, change, category, orders) ==
    LET market == PerpMarketAccount[p]
        Held(proposed, ratio) ==
            Div((PRICE_PRECISION + (IF proposed > 0 THEN -ratio ELSE ratio)) * proposed, BASE_PRECISION)
        Delta(ordered, proposed, ratio) ==
            CASE proposed = 0 -> None
              [] market.contractType = "prediction" /\ ordered > 0 -> -ratio
              [] market.contractType = "prediction" /\ ordered < 0 -> ratio
              [] market.contractType = "prediction" /\ ordered = 0 -> 0
              [] OTHER -> Held(proposed, ratio) - Div(ratio * Abs(ordered), BASE_PRECISION)
        Exposed(base) ==
            Delta(base - u.perp[p].base, base + change,
                  Div(MarginRatio(u, p, base + change, category) * PRICE_PRECISION, MARGIN_PRECISION))
    IN Exposed(PerpExposure(u.perp[p], market, PerpPrice(p), orders).base)
calculateFreeCollateralDeltaForSpot(m, tokens, category) ==
    LET market == SpotMarketAccount[m]
        weight == IF tokens > 0 THEN calculateAssetWeight(tokens, SpotPrice(m), market, category)
                  ELSE calculateLiabilityWeight(tokens, market, category)
    IN Div(Div(PRICE_PRECISION * weight, MARGIN_PRECISION) * tokens, market.unit)

calculateEntriesEffectOnFreeCollateral(u, p, change, entry, orders) ==
    LET price == PerpPrice(p)
        value == Div(entry * Abs(change), BASE_PRECISION)
        gain == Div(price * Abs(change), BASE_PRECISION) - value
        fee == Div(value * TakerFee, MARGIN_PRECISION)
        Requirement(exposure) ==
            Div(exposure.value * MarginRatio(u, p, exposure.base, "Maintenance"), MARGIN_PRECISION)
        Required(position) ==
            Requirement(PerpExposure(position, PerpMarketAccount[p], price, orders))
    IN (IF entry = 0 \/ change = 0 THEN 0 ELSE (IF change > 0 THEN gain ELSE -gain) - fee)
       - (Required([u.perp[p] EXCEPT !.base = @ + change]) - Required(u.perp[p]))

(* Where a delta takes free collateral to nothing; None is the code's -1.   *)
PriceAt(price, free, delta) ==
    LET at == price - Div(free * PRICE_PRECISION, delta)
    IN IF delta = 0 \/ at < 0 THEN None ELSE at
FirstListed(markets) == {m \in markets : \A other \in markets : Listed[m] =< Listed[other]}
FirstSpot(o) == FirstListed({m \in SpotMarket : SpotMarketAccount[m].oracle = o})
FirstPerp(o) == FirstListed({p \in PerpMarket : PerpMarketAccount[p].oracle = o})
NoneOfTheOracle(p) == {}     \* mutant: spot positions forgotten
spotMarketWithSameOracle(p) == FirstSpot(PerpMarketAccount[p].oracle)
perpMarketWithSameOracle(m) == FirstPerp(SpotMarketAccount[m].oracle)
LiquidationDelta(u, p, change, category, orders) ==
    LET Spot(m) == calculateFreeCollateralDeltaForSpot(m, SpotTokens(u, m), category)
        Added(perp) == IF perp = None THEN None ELSE perp + MapThenSumSet(Spot, spotMarketWithSameOracle(p))
    IN Added(calculateFreeCollateralDeltaForPerp(u, p, change, category, orders))
liquidationPrice(u, p, change, entry, category, orders) ==
    LET free == Greater(0, getTotalCollateral(u, category, FALSE, orders)
                           - getMarginRequirement(u, category, 0, FALSE, orders))
                + calculateEntriesEffectOnFreeCollateral(u, p, change, entry, orders)
        Reached(delta) == IF delta = None THEN None ELSE PriceAt(PerpPrice(p), free, delta)
    IN Reached(LiquidationDelta(u, p, change, category, orders))

SpotLiquidationDelta(u, m, tokens) ==
    LET OrNothing(delta) == IF delta = None THEN 0 ELSE delta
        Perp(p) == OrNothing(calculateFreeCollateralDeltaForPerp(u, p, 0, "Maintenance", FALSE))
    IN calculateFreeCollateralDeltaForSpot(m, tokens, "Maintenance") + MapThenSumSet(Perp, perpMarketWithSameOracle(m))
spotLiquidationPrice(u, m, change) ==
    LET free == Greater(0, getTotalCollateral(u, "Maintenance", FALSE, TRUE)
                           - getMaintenanceMarginRequirement(u))
        tokens == SpotTokens(u, m) + change
    IN IF tokens = 0 THEN None
       ELSE PriceAt(SpotPrice(m), free, SpotLiquidationDelta(u, m, tokens))

-----------------------------------------------------------------------------
(* Perp trades: the buying power, and the position on the other side, which *)
(* can be closed first.  Liquidity providers' buffers are left out.         *)
getPerpBuyingPower(u, p) ==
    LET worst == calculateWorstCasePerpLiabilityValue(u.perp[p], PerpMarketAccount[p], PerpPrice(p))
    IN Div(getFreeCollateral(u) * MARGIN_PRECISION, MarginRatio(u, p, worst.base, "Initial"))
getMaxTradeSizeUSDCForPerp(u, p, side) ==
    LET base == u.perp[p].base
        sameSide == (base < 0) = (side = Short)
    IN getPerpBuyingPower(u, p)
       + (IF sameSide THEN 0
          ELSE calculatePerpLiabilityValue(base, PerpPrice(p), PerpMarketAccount[p]))

(* Spot trades against the quote token: what closes the other side, and the *)
(* collateral that is left and freed.                                       *)
getMaxTradeSizeUSDCForSpot(u, m, direction) ==
    LET Ratio(size, type) == calculateSpotMarketMarginRatio(
            SpotMarketAccount[m], SpotPrice(m), size, type, u.maxMarginRatio)
        Freed(net) == Div(Abs(net) * Ratio(Abs(SpotTokens(u, m)), IF net < 0 THEN "borrow" ELSE "deposit"),
                          MARGIN_PRECISION)
        Affordable(free) ==
            Div(free * MARGIN_PRECISION, Ratio(0, IF direction = Long THEN "deposit" ELSE "borrow"))
        quoteAsset == getSpotMarketAssetAndLiabilityValue(u, {QUOTE}, "None", 0, FALSE, FALSE).asset
        closes(net) == (direction = Long /\ net < 0) \/ (direction = Short /\ net > 0)
        Largest(net, free) ==
            CASE u.isMarginTradingEnabled /\ closes(net) -> Abs(net) + Affordable(free + Freed(net))
              [] u.isMarginTradingEnabled /\ ~closes(net) -> Affordable(free)
              [] ~u.isMarginTradingEnabled /\ direction = Long -> Lesser(quoteAsset, Affordable(free))
              [] OTHER -> Greater(0, net)
    IN Largest(getSpotPositionValue(u, {m}), getFreeCollateral(u))

-----------------------------------------------------------------------------
(* Swaps at the oracles' prices: the largest amount is searched by halving. *)
cloneAndUpdateSpotPosition(position, tokens, m) ==
    LET market == SpotMarketAccount[m]
        held == SignedTokens(position, market)
        direction == IF tokens < 0 THEN "borrow" ELSE "deposit"
        delta == getBalance(Abs(tokens), market, position.type)
    IN CASE tokens = 0 -> position
         [] tokens # 0 /\ (held < 0) = (tokens < 0) -> [position EXCEPT !.balance = @ + delta]
         [] tokens # 0 /\ (held < 0) # (tokens < 0) /\ Abs(tokens) >= Abs(held) ->
                [position EXCEPT !.balance = getBalance(Abs(tokens) - Abs(held), market, direction),
                                 !.type = direction]
         [] OTHER -> [position EXCEPT !.balance = @ - delta]
Swapped(u, in, out, given, taken) ==
    [u EXCEPT !.spot[in] = cloneAndUpdateSpotPosition(@, -given, in),
              !.spot[out] = cloneAndUpdateSpotPosition(@, taken, out)]

WorstCase(u, m) == getWorstCaseTokenAmounts(u.spot[m], SpotMarketAccount[m], StrictNow(m),
                                            "Initial", u.maxMarginRatio)
calculateSpotPositionLeverageContribution(u, m) ==
    LET Contribution(worst) ==
            [asset |-> Greater(worst.tokenValue, 0) + Greater(worst.ordersValue, 0),
             liability |-> Greater(-worst.tokenValue, 0) + Greater(-worst.ordersValue, 0)]
    IN Contribution(WorstCase(u, m))
Contributions(u, markets) ==
    LET Total(part) == [asset |-> MapThenSumSet(LAMBDA m : part[m].asset, markets),
                        liability |-> MapThenSumSet(LAMBDA m : part[m].liability, markets)]
    IN Total([m \in markets |-> calculateSpotPositionLeverageContribution(u, m)])
LeverageMoved(now, before, after) ==
    calculateLeverageFromComponents(
        [now EXCEPT !.spotAsset = @ + after.asset - before.asset,
                    !.spotLiability = @ + after.liability - before.liability])
SwapOfOneSide(u, in, out, given, taken) ==      \* mutant: what is received is forgotten
    LeverageMoved(getLeverageComponents(u), Contributions(u, {in}),
                  Contributions(Swapped(u, in, out, given, taken), {in}))
accountLeverageAfterSwap(u, in, out, given, taken) ==
    LeverageMoved(getLeverageComponents(u), Contributions(u, {in, out}),
                  Contributions(Swapped(u, in, out, given, taken), {in, out}))

calculateSwap(in, out, given) ==
    Div(Div(given * SpotMarketAccount[out].unit * SpotPrice(in), SpotPrice(out)),
        SpotMarketAccount[in].unit)
Halved(lo, hi) == (lo + hi) \div 2
getMaxSwapAmount(u, in, out) ==
    LET Weight(m) == calculateAssetWeight(SpotTokens(u, m), SpotPrice(m), SpotMarketAccount[m], "Initial")
        Contribution(v) ==
            MapThenSumSet(LAMBDA m : WorstCase(v, m).freeCollateralContribution, {in, out})
        Gained(given) ==
            Contribution(Swapped(u, in, out, given, calculateSwap(in, out, given))) - Contribution(u)
        Searched(free, most) ==
            LET error == free \div 10000
                Search[n \in Nat, lo \in Nat, hi \in Nat] ==
                    LET Next(after) ==
                            CASE n = 0 \/ (0 =< after /\ after =< error) -> Halved(lo, hi)
                              [] n > 0 /\ after > error -> Search[n - 1, Halved(lo, hi), hi]
                              [] n > 0 /\ after < 0 -> Search[n - 1, lo, Halved(lo, hi)]
                    IN Next(free + Gained(Halved(lo, hi)))
            IN Search[SwapLimit, 0, most]
        Largest(free, held) ==
            IF free >= PRICE_PRECISION \div 100
            THEN Searched(free, Greater(Div(free * SpotMarketAccount[in].unit * 100, SpotPrice(in)),
                                        Abs(held) * 10))
            ELSE IF held > 0 /\ (SpotTokens(u, out) < 0 \/ Weight(in) < Weight(out)) THEN held ELSE 0
    IN Largest(getFreeCollateral(u), SpotTokens(u, in))

-----------------------------------------------------------------------------
(* Withdrawals: what the market allows, and the account.                    *)
canBypassWithdrawLimits(u, m) ==
    /\ u.spot[m].type = "deposit"
    /\ u.netDeposits >= 0
    /\ SpotTokens(u, m) < Div(SpotMarketAccount[m].withdrawGuardThreshold, 10)
getWithdrawalLimit(u, m, reduceOnly) ==
    LET market == SpotMarketAccount[m]
        InTokens(value) == value * Div(market.unit, PRICE_PRECISION)
        allowed(limit, deposit) == IF canBypassWithdrawLimits(u, m) THEN Greater(limit, deposit) ELSE limit
        affordable(free, deposit, weight) ==
            IF weight = 0 \/ getInitialMarginRequirement(u) = 0 THEN deposit
            ELSE InTokens(DivCeil(DivCeil(free * MARGIN_PRECISION, weight) * PRICE_PRECISION, SpotPrice(m)))
        withdrawn(free, deposit) ==
            Lesser(deposit, affordable(free, deposit,
                                       calculateAssetWeight(deposit, SpotPrice(m), market, "Initial")))
        left(free, deposit) ==
            IF deposit = 0 THEN free
            ELSE free - getSpotMarketAssetAndLiabilityValue(u, {m}, "Initial", 0, FALSE, FALSE).asset
        borrowed(free) == InTokens(Div(Div(free * MARGIN_PRECISION, market.initialLiabilityWeight)
                                       * PRICE_PRECISION, SpotPrice(m)))
        Largest(limit, free, deposit, owned) ==
            IF reduceOnly THEN owned
            ELSE Lesser(owned + borrowed(left(free, deposit)), Abs(limit.borrow))
        Bounded(limit, free, deposit) ==
            Largest(limit, free, deposit,
                    Lesser(withdrawn(free, deposit), Abs(allowed(limit.withdraw, deposit))))
    IN Greater(0, Bounded(calculateWithdrawLimit(market, SinceLast, Day), getFreeCollateral(u),
                           Greater(SpotTokens(u, m), 0)))

-----------------------------------------------------------------------------
(* Leverage after a trade of so much quote, side by side with getLeverage.  *)
PerpLeverageAfterTrade(u, p, size, side) ==
    LET IsShort(worst) == u.perp[p].base < 0 \/ (u.perp[p].base = 0 /\ worst.base < 0)
        After(worst) == Abs((IF IsShort(worst) THEN -worst.value ELSE worst.value)
                            + (IF side = Short THEN -size ELSE size))
        Traded(now, worst) ==
            calculateLeverageFromComponents(
                [now EXCEPT !.perpLiability = Abs(After(worst) + @ - worst.value)])
    IN Traded(getLeverageComponents(u),
              calculateWorstCasePerpLiabilityValue(u.perp[p], PerpMarketAccount[p], PerpPrice(p)))
SpotLeverageAfterTrade(u, m, size, side, orders) ==
    LET Value(scope) == getSpotMarketAssetAndLiabilityValue(u, scope, "None", 0, orders, FALSE)
        Plus(net) == [asset |-> Greater(net, 0), liability |-> Greater(-net, 0)]
        bought == IF side = Long THEN size ELSE -size
        Moved(now, quote, base) ==
            LET before == [asset |-> quote.asset + base.asset,
                           liability |-> quote.liability + base.liability]
                q == Plus(Net(quote) - bought)
                b == Plus(Net(base) + bought)
            IN LeverageMoved(now, before, [asset |-> q.asset + b.asset,
                                           liability |-> q.liability + b.liability])
    IN Moved(getLeverageComponents(u), Value({QUOTE}), Value({m}))

(* The most leverage an account can reach in a market: by the requirement of *)
(* a perp position as large as the free collateral allows, whose size is     *)
(* measured in units of quote, or by the largest spot trade.                 *)
getMaxLeverageForPerp(u, p) ==
    LET raw == Greater(PerpMarketAccount[p].marginRatioInitial, u.maxMarginRatio)
        Afforded(free, ratio) == Div(free * MARGIN_PRECISION, ratio)
        RatioOf(free, ratio) ==
            MarginRatio(u, p, Div(Afforded(free, ratio) * PRICE_PRECISION, PerpPrice(p)), "Initial")
        Feasible(free) ==
            LET At[n \in 0..10, ratio \in Nat] ==
                    IF n = 0 \/ ratio =< raw THEN ratio ELSE At[n - 1, RatioOf(free, ratio)]
            IN At[10, RatioOf(free, raw)]
        Reached(now, free) ==
            calculateLeverageFromComponents(
                [now EXCEPT !.perpLiability = @ + Afforded(free, Feasible(free))])
    IN Reached(getLeverageComponents(u), getFreeCollateral(u))
getMaxLeverageForSpot(u, m, direction) ==
    SpotLeverageAfterTrade(u, m, getMaxTradeSizeUSDCForSpot(u, m, direction), direction, FALSE)

-----------------------------------------------------------------------------
(* What a user without an account has to deposit for a first trade.         *)
calculateMarginUSDCRequiredForTrade(u, p, base, price) ==
    Div(calculateMarketMarginRatio(PerpMarketAccount[p], Abs(base), "Initial", u.maxMarginRatio, FALSE)
        * calculatePerpLiabilityValue(base, price, PerpMarketAccount[p]), MARGIN_PRECISION)
calculateCollateralDepositRequiredForTrade(u, p, base, m) ==
    LET market == SpotMarketAccount[m]
        required == calculateMarginUSDCRequiredForTrade(u, p, base, PerpPrice(p))
    IN Div(Div(Div(required * market.unit * PRICE_PRECISION * MARGIN_PRECISION, SpotPrice(m)),
               calculateScaledInitialAssetWeight(market, SpotPrice(m))), PRICE_PRECISION)

-----------------------------------------------------------------------------
(* The breakdown of an account: each position's value, and what it counts   *)
(* for, in one of four lists.                                               *)
getPerpPositionHealth(u, p, category) ==
    LET Weighted(worst) ==
            Div(Div(worst.value * SpotPrice(QUOTE), PRICE_PRECISION)
                * MarginRatio(u, p, worst.base, category), MARGIN_PRECISION)
            + u.perp[p].openOrders * OPEN_ORDER_MARGIN_REQUIREMENT
    IN IF ~ActivePerp(u, p) THEN 0
       ELSE Weighted(calculateWorstCasePerpLiabilityValue(u.perp[p], PerpMarketAccount[p], PerpPrice(p)))
PnlHealth(u, p, category) ==
    LET market == PerpMarketAccount[p]
        Weight(pnl) == IF pnl =< 0 THEN MARGIN_PRECISION
                       ELSE calculateUnrealizedAssetWeight(market, SpotMarketAccount[QUOTE], pnl,
                                                           category, PerpPrice(p))
        Weighted(pnl) ==
            Div(Div(pnl * SpotPrice(QUOTE), PRICE_PRECISION) * Weight(pnl), MARGIN_PRECISION)
    IN IF ActivePerp(u, p) THEN Weighted(calculatePositionPNL(market, u.perp[p], PerpPrice(p))) ELSE 0
getHealthComponents(u, category) ==
    LET Worst(m) == getWorstCaseTokenAmounts(u.spot[m], SpotMarketAccount[m], StrictNow(m),
                                             category, u.maxMarginRatio)
        Quote(net) == calculateWeightedTokenValue(net,
                          getTokenValue(net, SpotMarketAccount[QUOTE], SpotPrice(QUOTE)),
                          SpotPrice(QUOTE), SpotMarketAccount[QUOTE], category, u.maxMarginRatio)
        Components(weighted) ==
            [deposits |-> InSpot(LAMBDA m : Greater(weighted[m], 0)),
             borrows |-> InSpot(LAMBDA m : Greater(-weighted[m], 0)),
             perpPositions |-> InPerp(LAMBDA p : getPerpPositionHealth(u, p, category)),
             perpPnl |-> InPerp(LAMBDA p : PnlHealth(u, p, category))]
        OfPositions(worst) ==
            Components([m \in SpotMarket |->
                IF m # QUOTE THEN worst[m].weightedTokenValue
                ELSE Quote(SpotTokens(u, QUOTE)
                           + MapThenSumSet(LAMBDA o : worst[o].ordersValue, DOMAIN worst))])
    IN OfPositions([m \in SpotMarket \ {QUOTE} |-> Worst(m)])

(* Out of a hundred.                                                        *)
getHealth(u) ==
    LET Health(collateral, required) ==
            CASE u.beingLiquidated -> 0
              [] ~u.beingLiquidated /\ required = 0 /\ collateral >= 0 -> 100
              [] ~u.beingLiquidated /\ collateral =< 0 /\ ~(required = 0 /\ collateral = 0) -> 0
              [] OTHER -> Greater(0, (200 * (collateral - required) + collateral) \div (2 * collateral))
    IN Health(getTotalCollateral(u, "Maintenance", FALSE, TRUE), getMaintenanceMarginRequirement(u))

-----------------------------------------------------------------------------
(* The program's part: what a trade, a withdrawal or an order does to the   *)
(* account, and the oracles.                                                *)
Traded(u, p, change, fee) ==
    LET market == PerpMarketAccount[p]
        value == Div(PerpPrice(p) * change, BASE_PRECISION)
        base == u.perp[p].base + change
    IN [u EXCEPT !.perp[p].base = base,
                 !.perp[p].quote = @ + calculateUnsettledFundingPnl(market, u.perp[p])
                                     - value - Div(Abs(value) * fee, MARGIN_PRECISION),
                 !.perp[p].funding = IF base > 0 THEN market.cumulativeFundingRateLong
                                     ELSE market.cumulativeFundingRateShort]
Signed(side, size) == IF side = Short THEN -size ELSE size

(* The account, the prices and the counters have their types.              *)
TypeOK ==
    /\ DOMAIN userAccount.spot = SpotMarket /\ DOMAIN userAccount.perp = PerpMarket
    /\ \A m \in SpotMarket : userAccount.spot[m].balance \in Nat
    /\ oracle \in [Oracle -> Nat] /\ twap \in [SpotMarket -> Nat] /\ lastOraclePriceTwap5Min \in Nat
    /\ steps \in 0..MaxSteps /\ moves \in 0..MaxMoves

SpotThreshold(m) ==
    [price |-> spotLiquidationPrice(userAccount, m, 0),
     delta |-> SpotLiquidationDelta(userAccount, m, SpotTokens(userAccount, m)),
     counted |-> {m} \cup FirstPerp(SpotMarketAccount[m].oracle)]
Silent == [op |-> "nothing", market |-> QUOTE]

Init ==
    /\ userAccount \in FirstAccount
    /\ oracle = FirstPrice
    /\ twap = [m \in SpotMarket |-> FirstPrice[SpotMarketAccount[m].oracle]]
    /\ lastOraclePriceTwap5Min = twap[QUOTE]
    /\ told = Silent
    /\ steps = 0 /\ moves = 0

(* What the client says of the account as it stands.                        *)
AtPar == {SpotPrice(QUOTE), twap[QUOTE], lastOraclePriceTwap5Min} = {PRICE_PRECISION}
Settled == AtPar /\ \A m \in SpotMarket : twap[m] = SpotPrice(m)
NoOrders(u) == /\ \A m \in SpotMarket : u.spot[m].openOrders = 0
               /\ \A p \in PerpMarket : u.perp[p].openOrders = 0
Said(op, market, what, raise) ==
    [op |-> op, market |-> market, what |-> what, raise |-> raise, surplus |-> InitialSurplus(userAccount),
     liquidated |-> canBeLiquidated(userAccount), noOrders |-> NoOrders(userAccount)]
Says(op, market, what) == Said(op, market, what, 0)
Threshold(p, change, entry) ==
    [price |-> liquidationPrice(userAccount, p, change, entry, "Maintenance", FALSE),
     delta |-> LiquidationDelta(userAccount, p, change, "Maintenance", FALSE),
     counted |-> {p} \cup FirstSpot(PerpMarketAccount[p].oracle)]

Does(said, u) ==
    /\ steps' = steps + 1
    /\ told' = said /\ userAccount' = u /\ UNCHANGED <<oracle, averages, moves>>

(* The user trades, or takes the most the client says it can.               *)
PerpTraded(p, change) ==
    Does(Says("perpTrade", p, Threshold(p, change, PerpPrice(p))),
         Traded(userAccount, p, change, TakerFee))
Closes(p, side) == userAccount.perp[p].base # 0 /\ (userAccount.perp[p].base < 0) # (side = Short)
UnitPrice(p, side) ==
    IF PerpMarketAccount[p].contractType = "prediction" /\ side = Short
    THEN PRICE_PRECISION - PerpPrice(p) ELSE PerpPrice(p)
(* What a market requires of a position more than the ratio that the client *)
(* reckoned with, which grows with the size: of the size before a perp      *)
(* trade, of size zero for spot.                                            *)
PerpRaise(u, p, base) ==
    Greater(0, Div((MarginRatio(u, p, base, "Initial") - MarginRatio(u, p, u.perp[p].base, "Initial"))
                   * calculatePerpLiabilityValue(base, PerpPrice(p), PerpMarketAccount[p]), MARGIN_PRECISION))
SpotRaise(u, m) ==
    LET tokens == SpotTokens(u, m)
        Ratio(size) == calculateSpotMarketMarginRatio(SpotMarketAccount[m], SpotPrice(m), size,
                           IF tokens < 0 THEN "borrow" ELSE "deposit", u.maxMarginRatio)
    IN Div((Ratio(Abs(tokens)) - Ratio(0)) * Abs(getTokenValue(tokens, SpotMarketAccount[m], SpotPrice(m))),
           MARGIN_PRECISION)
MostTraded(p, side) ==
    LET market == PerpMarketAccount[p]
        ValueOf(base) == calculatePerpLiabilityValue(base, PerpPrice(p), market)
        closed == IF Closes(p, side) THEN userAccount.perp[p].base ELSE 0
    IN \E size \in {getMaxTradeSizeUSDCForPerp(userAccount, p, side)} :
         LET opened == Signed(side, Div((size - ValueOf(closed)) * BASE_PRECISION, UnitPrice(p, side)))
             after == userAccount.perp[p].base - closed + opened
         IN Does(Said("leverage", p,
                      {PerpLeverageAfterTrade(userAccount, p, ValueOf(closed) + ValueOf(opened), side)}
                          \cup (IF opened = 0 \/ Closes(p, side) \/ market.imfFactor # 0 THEN {}
                                ELSE {getMaxLeverageForPerp(userAccount, p)}),
                      PerpRaise(userAccount, p, after)),
                 Traded(userAccount, p, opened - closed, 0))
MostSpotTraded(m, side) ==
    /\ m # QUOTE
    /\ \E size \in {getMaxTradeSizeUSDCForSpot(userAccount, m, side)} :
         LET tokens == Div(size * SpotMarketAccount[m].unit, SpotPrice(m))
             quote == Div(size * SpotMarketAccount[QUOTE].unit, SpotPrice(QUOTE))
             after == IF side = Long THEN Swapped(userAccount, QUOTE, m, quote, tokens)
                      ELSE Swapped(userAccount, m, QUOTE, tokens, quote)
         IN Does(Said("leverage", m, {SpotLeverageAfterTrade(userAccount, m, size, side, TRUE),
                                      getMaxLeverageForSpot(userAccount, m, side)}, SpotRaise(after, m)),
                 after)
MostSwapped(in, out) ==
    /\ in # out
    /\ \E given \in {getMaxSwapAmount(userAccount, in, out)} :
         LET taken == calculateSwap(in, out, given)
         IN Does(Says("swap", in, {accountLeverageAfterSwap(userAccount, in, out, given, taken)}),
                 Swapped(userAccount, in, out, given, taken))
MostWithdrawn(m, reduceOnly) ==
    \E tokens \in {getWithdrawalLimit(userAccount, m, reduceOnly)} :
        Does(Says("withdrawal", m, tokens),
             [userAccount EXCEPT !.spot[m] = cloneAndUpdateSpotPosition(@, -tokens, m)])

(* A first trade, for the least deposit the client asks for.                *)
FirstTraded(p, change, m) ==
    LET deposit == calculateCollateralDepositRequiredForTrade(userAccount, p, change, m)
        funded == [userAccount EXCEPT !.spot[m] = cloneAndUpdateSpotPosition(@, deposit, m)]
    IN /\ \A s \in SpotMarket : isSpotPositionAvailable(userAccount.spot[s])
       /\ \A q \in PerpMarket : ~ActivePerp(userAccount, q)
       /\ ~userAccount.highLeverage
       /\ Does(Said("firstTrade", p, deposit, SpotRaise(funded, m)), Traded(funded, p, change, 0))

(* An order rests.                                                          *)
Ordered(position, size) ==
    [position EXCEPT !.openBids = Greater(size, 0), !.openAsks = Lesser(size, 0), !.openOrders = 1]
SpotOrder(m, size) ==
    /\ m # QUOTE
    /\ Does(Silent, [userAccount EXCEPT !.spot[m] = Ordered(@, size)])
PerpOrder(p, size) == Does(Silent, [userAccount EXCEPT !.perp[p] = Ordered(@, size)])

(* The prices move.  p is a market whose threshold the client was asked for,*)
(* and those of the spot positions with the same oracle.  An average moves  *)
(* with time; what the market's account records of it follows only when the *)
(* program writes it.                                                       *)
OfOracle(o) == {m \in SpotMarket : SpotMarketAccount[m].oracle = o /\ SpotTokens(userAccount, m) # 0}
          \cup {p \in PerpMarket : PerpMarketAccount[p].oracle = o /\ userAccount.perp[p].base # 0}
Moves(said) ==
    /\ moves' = moves + 1
    /\ told' = said /\ UNCHANGED <<userAccount, steps>>
PriceMoves(p, price) ==
    LET o == PerpMarketAccount[p].oracle
    IN /\ price # oracle[o]
       /\ Moves(Says("price", p, {Threshold(p, 0, 0)} \cup {SpotThreshold(m) : m \in OfOracle(o) \cap SpotMarket}))
       /\ oracle' = [oracle EXCEPT ![o] = price] /\ UNCHANGED averages
QuoteMoves(price) ==
    /\ Moves(Silent)
    /\ oracle' = [oracle EXCEPT ![SpotMarketAccount[QUOTE].oracle] = price] /\ UNCHANGED averages
TwapFollows(m) ==
    /\ Moves(Silent)
    /\ twap' = [twap EXCEPT ![m] = SpotPrice(m)] /\ UNCHANGED oracle
    /\ lastOraclePriceTwap5Min' \in {lastOraclePriceTwap5Min} \cup (IF m = QUOTE THEN {SpotPrice(m)} ELSE {})

UserActs ==
    \/ \E p \in PerpMarket : \/ \E change \in TradeSize : PerpTraded(p, change)
                             \/ \E change \in TradeSize, m \in SpotMarket : FirstTraded(p, change, m)
                             \/ \E side \in {Long, Short} : MostTraded(p, side)
                             \/ \E size \in OrderSize : PerpOrder(p, size)
    \/ \E m \in SpotMarket : \/ \E side \in {Long, Short} : MostSpotTraded(m, side)
                             \/ \E out \in SpotMarket : MostSwapped(m, out)
                             \/ \E reduceOnly \in BOOLEAN : MostWithdrawn(m, reduceOnly)
                             \/ \E size \in OrderSize : SpotOrder(m, size)
PricesMove ==
    \/ \E p \in PerpMarket : \E price \in Prices[PerpMarketAccount[p].oracle] : PriceMoves(p, price)
    \/ \E m \in SpotMarket : TwapFollows(m)
    \/ \E price \in Prices[SpotMarketAccount[QUOTE].oracle] : QuoteMoves(price)

Next ==
    \/ steps < MaxSteps /\ UserActs
    \/ moves < MaxMoves /\ PricesMove

Spec == Init /\ [][Next]_vars

-----------------------------------------------------------------------------
(* The stricter test includes the weaker: an account with collateral left   *)
(* for new positions (Initial weights, the worse of price and average) is   *)
(* not one that can be liquidated (Maintenance weights, the price alone),   *)
(* whatever positions and open orders it has; and one that can be has no    *)
(* health.  The two are computed from different weights and prices, and the *)
(* worst case of each spot position is chosen anew for each.  Not claimed   *)
(* with a spot ask open below the average: its proceeds are then valued at  *)
(* the average, also for tokens that are held and valued at the price.      *)
AsksAreFair == \A m \in SpotMarket : userAccount.spot[m].openAsks # 0 => twap[m] =< SpotPrice(m)
InitialIsStricter ==
    /\ TypeOK
    /\ InitialSurplus(userAccount) >= Rounding /\ ~userAccount.beingLiquidated /\ AsksAreFair
           => ~canBeLiquidated(userAccount)
    /\ canBeLiquidated(userAccount) => getHealth(userAccount) = 0

(* The price liquidationPrice, or spotLiquidationPrice, reports is where    *)
(* liquidation begins.  Once the oracle has moved, the account can be       *)
(* liquidated exactly if the price is beyond it: the position, that of the  *)
(* other kind with the same oracle, the liabilities and profits of every    *)
(* market count.  Not claimed of an account with a further position of that *)
(* oracle: the functions look for the first market of the other kind with   *)
(* it (.find, user.ts:2200, :2317), and markets of several pools share one. *)
(* Nor closer to that price than what Rounding units of quote are worth,    *)
(* with open orders (left out by default), a quote token off par or for an  *)
(* account in liquidation already (its buffer is left out).                 *)
LiquidationPriceIsTheThreshold ==
    /\ told.op = "price" /\ told.noOrders /\ ~told.liquidated
    /\ AtPar /\ ~userAccount.beingLiquidated
    => \A said \in {t \in told.what : /\ t.delta \notin {None, 0} /\ t.price # None
                                     /\ OfOracle(PerpMarketAccount[told.market].oracle) \subseteq t.counted} :
        LET margin == Div((PerpPrice(told.market) - said.price) * said.delta, PRICE_PRECISION)
        IN /\ margin >= Rounding => ~canBeLiquidated(userAccount)
           /\ margin =< -Rounding => canBeLiquidated(userAccount)


(* What the client foretells comes true: the leverage after a perp trade, a *)
(* spot trade or a swap, the largest leverage of a spot market or of a perp *)
(* market whose ratio does not grow with the size, and the liquidation price*)
(* after a trade of a perpetual with its fee, are those it reports once that*)
(* is done.  Each is computed twice, before from the change alone *)
(* and after from the whole account.  And the breakdown of getHealthComponents *)
(* adds up to the collateral and the requirement, but for what an open spot *)
(* order requires, which it leaves out.                                     *)
LeverageComesTrue ==
    told.op \in {"leverage", "swap"} /\ told.noOrders /\ AtPar
    => \A leverage \in told.what :
           (Abs(leverage - getLeverage(userAccount)) - 1) * Abs(NetAssets(getLeverageComponents(userAccount)))
               =< Rounding * (MARGIN_PRECISION + Abs(leverage))
LiquidationPriceComesTrue ==
    /\ told.op = "perpTrade" /\ told.noOrders /\ AtPar
    /\ PerpMarketAccount[told.market].contractType = "perpetual"
    /\ ~told.liquidated /\ ~canBeLiquidated(userAccount)
    => \A at \in {liquidationPrice(userAccount, told.market, 0, 0, "Maintenance", FALSE)} :
         told.what.price # None /\ at # None
         => Abs((told.what.price - at) * told.what.delta) =< Rounding * PRICE_PRECISION
ComponentsAddUp ==
    \A category \in {"Initial", "Maintenance"} :
        LET spotOrders == InSpot(LAMBDA m : userAccount.spot[m].openOrders) * OPEN_ORDER_MARGIN_REQUIREMENT
        IN AtPar => \A c \in {getHealthComponents(userAccount, category)} :
            /\ Abs(c.deposits + c.perpPnl - getTotalCollateral(userAccount, category, FALSE, TRUE)) =< Rounding
            /\ Abs(c.borrows + c.perpPositions + spotOrders
                   - getMarginRequirement(userAccount, category, 0, FALSE, TRUE)) =< Rounding
ForetoldComesTrue == LeverageComesTrue /\ LiquidationPriceComesTrue /\ ComponentsAddUp
=============================================================================
