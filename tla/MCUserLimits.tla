---------------------------- MODULE MCUserLimits ----------------------------
(* Two systems that share nothing: the limits the client tells a user, and  *)
(* the transactions it plans (TransactionPlans); one of them runs, the other*)
(* stays as it begins.  A small instance of UserLimits for TLC: USDC and SOL with interest, a    *)
(* perp on the oracle of SOL and a prediction market, precisions of a       *)
(* hundred, and accounts that are long, short, hedged, borrowing, capped by *)
(* a ratio of their own or in high leverage mode.                           *)
EXTENDS UserLimits, TLC

CONSTANTS usdc, sol, sol2, solPerp, betPerp, usdcOracle, solOracle, betOracle

MCSpot(name, from, asset, liability, imf, start) ==
    [name |-> name, oracle |-> from, unit |-> 100, scale |-> 10,
     cumulativeDepositInterest |-> 11, cumulativeBorrowInterest |-> 12,
     initialAssetWeight |-> asset[1], maintenanceAssetWeight |-> asset[2],
     initialLiabilityWeight |-> liability[1], maintenanceLiabilityWeight |-> liability[2],
     imfFactor |-> imf, scaleInitialAssetWeightStart |-> start,
     depositBalance |-> 900, borrowBalance |-> 300, withdrawGuardThreshold |-> 300,
     utilizationPrecision |-> 100, optimalUtilization |-> 70, utilizationTwap |-> 40,
     depositTokenTwap |-> 900, borrowTokenTwap |-> 300,
     maxTokenDeposits |-> 0, maxTokenBorrowsFraction |-> 0]
MCSpotMarkets == (usdc :> MCSpot(usdc, usdcOracle, <<100, 100>>, <<100, 100>>, 0, 0))
              @@ (sol :> MCSpot(sol, solOracle, <<80, 90>>, <<120, 110>>, 0, 1500))
              @@ (sol2 :> MCSpot(sol2, solOracle, <<80, 90>>, <<120, 110>>, 40, 0))
MCListed == (usdc :> 0) @@ (sol :> 1) @@ (sol2 :> 2) @@ (solPerp :> 0) @@ (betPerp :> 1)

MCPerp(from, type, imf) ==
    [oracle |-> from, contractType |-> type, status |-> "active", expiryPrice |-> 100,
     marginRatioInitial |-> 20, marginRatioMaintenance |-> 10,
     highLeverageInitial |-> 10, highLeverageMaintenance |-> 5, imfFactor |-> imf,
     cumulativeFundingRateLong |-> 3, cumulativeFundingRateShort |-> 1,
     unrealizedPnlInitialAssetWeight |-> 100, unrealizedPnlMaintenanceAssetWeight |-> 100,
     unrealizedPnlMaxImbalance |-> 100, unrealizedPnlImfFactor |-> 0,
     netUserBase |-> 200, netUserQuote |-> -200, pnlPool |-> 20, feePool |-> 50]
MCPerpMarkets == (solPerp :> MCPerp(solOracle, "perpetual", 0))
              @@ (betPerp :> MCPerp(betOracle, "prediction", 2))

MCFirstPrice == (usdcOracle :> 100) @@ (solOracle :> 200) @@ (betOracle :> 40)
MCPrices == (usdcOracle :> {100, 102}) @@ (solOracle :> {60, 130, 200, 230})
         @@ (betOracle :> {40, 90})

MCTradeSize == {100, -600}
MCOrderSize == {200, -300}

MCHeld(tokens) ==
    IF tokens >= 0
    THEN [balance |-> getBalance(tokens, MCSpotMarkets[sol], "deposit"), type |-> "deposit",
          openBids |-> 0, openAsks |-> 0, openOrders |-> 0]
    ELSE [balance |-> getBalance(-tokens, MCSpotMarkets[sol], "borrow"), type |-> "borrow",
          openBids |-> 0, openAsks |-> 0, openOrders |-> 0]
MCPosition(base, quote) ==
    [base |-> 10 * base, quote |-> quote, openBids |-> 0, openAsks |-> 0, openOrders |-> 0, funding |-> 0]
MCAccount(cash, sols, perp, bet, ratio, high) ==
    [spot |-> (usdc :> MCHeld(cash)) @@ (sol :> MCHeld(sols)) @@ (sol2 :> MCHeld(0)),
     perp |-> (solPerp :> MCPosition(perp, -20 * perp)) @@ (betPerp :> MCPosition(bet, -4 * bet)),
     maxMarginRatio |-> ratio, highLeverage |-> high, beingLiquidated |-> FALSE,
     isMarginTradingEnabled |-> ~high, netDeposits |-> 100]
MCFirst == {MCAccount(0, 0, 0, 0, 0, FALSE), MCAccount(300, 0, 0, 0, 0, FALSE), MCAccount(300, 100, -20, 0, 0, FALSE),
            MCAccount(300, -50, 40, 0, 0, FALSE), MCAccount(-100, 200, 10, 10, 0, FALSE),
            MCAccount(200, 0, -30, -20, 30, FALSE), MCAccount(100, 50, 60, 0, 0, TRUE),
            [MCAccount(20, 0, 40, 0, 0, FALSE) EXCEPT !.beingLiquidated = TRUE],
            [MCAccount(300, -50, 0, 0, 0, FALSE) EXCEPT !.spot[sol2] = MCHeld(100)]}

-----------------------------------------------------------------------------
CONSTANTS msol, pyusd, main, other

VARIABLES
    running,            \* "limits" or "plans"
    world

(* Wrapped SOL, mSOL and a mint of the Token-2022 program.                  *)
Planning == INSTANCE TransactionPlans WITH
    Mint <- {sol, msol, pyusd}, WrappedSol <- sol, MSol <- msol, Token2022 <- {pyusd},
    MainSubAccount <- main, OtherSubAccount <- other

ASSUME MintAssumption == Planning!MintAssumption

MCvars == <<running, vars, world>>
MCInit ==
    /\ running \in {"limits", "plans"}
    /\ Init /\ Planning!Init
    /\ running # "limits" => userAccount = MCAccount(300, 0, 0, 0, 0, FALSE)
MCNext ==
    \/ running = "limits" /\ UNCHANGED <<running, world>> /\ Next
    \/ running = "plans" /\ UNCHANGED <<running, vars>> /\ Planning!Next
MCSpec == MCInit /\ [][MCNext]_MCvars

(* Every plan built for the accounts that exist runs to its end             *)
(* (TransactionPlans).                                                      *)
PlansRun == Planning!PlansRun
=============================================================================
