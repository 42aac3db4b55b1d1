-------------------------- MODULE AdminInstructions --------------------------
(***************************************************************************)
(* adminClient.ts: the instructions of the exchange's admin.  Each is what  *)
(* the client decides about it: who signs, which account it is about, which *)
(* fields of that account the arguments set, and which oracle it names.     *)
(* Addresses derived from an index, sysvars and programs are left out.      *)
(*                                                                         *)
(* p is a perp and s a spot market, o an oracle, known the oracle of p in   *)
(* the client's copy of the market.                                         *)
(***************************************************************************)
CONSTANTS State, None

(* The signer is "admin", the admin of the state account in the client's    *)
(* copy, or the wallet while not subscribed; "wallet" is always the wallet. *)
Sets(object, fields) ==
    [signer |-> "admin", object |-> object, fields |-> fields, oracle |-> None]
Naming(ix, o)   == [ix EXCEPT !.oracle = o]
ByWallet(ix)    == [ix EXCEPT !.signer = "wallet"]

-----------------------------------------------------------------------------
(* Markets and configurations come and go.                                  *)
initialize == Sets(State, {"created", "admin"})
initializeSpotMarketIx(s, o) == Naming(Sets(s, {"created", "oracle", "status"}), o)
deleteInitializedSpotMarket(s) == Sets(s, {"deleted"})
initializePerpMarketIx(p, o) == Naming(Sets(p, {"created", "oracle", "status"}), o)
initializePredictionMarket(p) == Sets(p, {"contractType"})
deleteInitializedPerpMarket(p) == Sets(p, {"deleted"})

(* These two name the base and quote markets by the client's copies.        *)
initializeSerumFulfillmentConfig(s) == Sets("serumFulfillmentConfig", {"created", s})
initializePhoenixFulfillmentConfig(s) == Sets("phoenixFulfillmentConfig", {"created", s})
initializeOpenbookV2FulfillmentConfig(s) == Sets("openbookV2FulfillmentConfig", {"created", s})
updateSerumFulfillmentConfigStatus == Sets("serumFulfillmentConfig", {"status"})
updatePhoenixFulfillmentConfigStatus == Sets("phoenixFulfillmentConfig", {"status"})
initializeProtocolIfSharesTransferConfig == Sets("protocolIfSharesTransferConfig", {"created"})
updateProtocolIfSharesTransferConfig ==
    Sets("protocolIfSharesTransferConfig", {"whitelistedSigners", "maxTransferPerEpoch"})
initializeHighLeverageModeConfig == Sets("highLeverageModeConfig", {"created", "maxUsers"})
updateUpdateHighLeverageModeConfig == Sets("highLeverageModeConfig", {"maxUsers", "reduceOnly"})
initializePrelaunchOracle(p) == Sets("prelaunchOracle", {"created", "price", "maxPrice", p})
updatePrelaunchOracleParams(p) == Sets("prelaunchOracle", {"price", "maxPrice", p})
deletePrelaunchOracle(p) == Sets("prelaunchOracle", {"deleted", p})
initializePythPullOracle(isAdmin) ==
    IF isAdmin THEN Sets("pythPullOracle", {"created"})
    ELSE ByWallet(Sets("pythPullOracle", {"created"}))

-----------------------------------------------------------------------------
(* The curve of a perp market.  The oracle that repegging, k and the twaps  *)
(* need is that of the client's copy of the market.                         *)
moveAmmPrice(p) == Sets(p, {"baseAssetReserve", "quoteAssetReserve", "sqrtK"})
moveAmmToPrice(p) == moveAmmPrice(p)
updateK(p, known) == Naming(Sets(p, {"sqrtK"}), known)
recenterPerpMarketAmm(p) == Sets(p, {"pegMultiplier", "sqrtK"})
repegAmmCurve(p, known) == Naming(Sets(p, {"pegMultiplier"}), known)
updatePerpMarketAmmOracleTwap(p, known) == Naming(Sets(p, {"lastOraclePriceTwap"}), known)
resetPerpMarketAmmOracleTwap(p, known) == Naming(Sets(p, {"lastOraclePriceTwap"}), known)
updatePerpMarketAmmSummaryStats(p, known) ==
    ByWallet(Naming(Sets(p, {"ammSummaryStats", "quoteAssetAmountWithUnsettledLp",
                             "netUnsettledFundingPnl"}), known))
depositIntoPerpMarketFeePool(p) == Sets(p, {"feePool"})
depositIntoSpotMarketVault(s) == ByWallet(Sets(s, {"vault"}))

updatePerpMarketConcentrationScale(p) == Sets(p, {"concentrationCoef"})
updatePerpMarketCurveUpdateIntensity(p) == Sets(p, {"curveUpdateIntensity"})
updatePerpMarketTargetBaseAssetAmountPerLp(p) == Sets(p, {"targetBaseAssetAmountPerLp"})
updatePerpMarketPerLpBase(p) == Sets(p, {"perLpBase"})
updatePerpMarketBaseSpread(p) == Sets(p, {"baseSpread"})
updatePerpMarketMaxSpread(p) == Sets(p, {"maxSpread"})
updateAmmJitIntensity(p) == Sets(p, {"ammJitIntensity"})
updatePerpMarketMaxFillReserveFraction(p) == Sets(p, {"maxFillReserveFraction"})
updateMaxSlippageRatio(p) == Sets(p, {"maxSlippageRatio"})

-----------------------------------------------------------------------------
(* The parameters of a perp market.                                         *)
updatePerpMarketMarginRatio(p) == Sets(p, {"marginRatioInitial", "marginRatioMaintenance"})
updatePerpMarketHighLeverageMarginRatio(p) ==
    Sets(p, {"highLeverageMarginRatioInitial", "highLeverageMarginRatioMaintenance"})
updatePerpMarketImfFactor(p) == Sets(p, {"imfFactor", "unrealizedPnlImfFactor"})
updatePerpMarketName(p) == Sets(p, {"name"})
updatePerpMarketOracle(p, o) == Naming(Sets(p, {"oracle", "oracleSource"}), o)
updatePerpMarketStepSizeAndTickSize(p) == Sets(p, {"orderStepSize", "orderTickSize"})
updatePerpMarketMinOrderSize(p) == Sets(p, {"minOrderSize"})
updatePerpMarketExpiry(p) == Sets(p, {"expiryTs", "status"})
updatePerpMarketStatus(p) == Sets(p, {"status"})
updatePerpMarketPausedOperations(p) == Sets(p, {"pausedOperations"})
updatePerpMarketContractTier(p) == Sets(p, {"contractTier"})
updatePerpMarketUnrealizedAssetWeight(p) ==
    Sets(p, {"unrealizedPnlInitialAssetWeight", "unrealizedPnlMaintenanceAssetWeight"})
updatePerpMarketMaxImbalances(p) ==
    Sets(p, {"unrealizedPnlMaxImbalance", "maxRevenueWithdrawPerPeriod", "quoteMaxInsurance"})
updatePerpMarketMaxOpenInterest(p) == Sets(p, {"maxOpenInterest"})
updatePerpMarketNumberOfUser(p) == Sets(p, {"numberOfUsers", "numberOfUsersWithBase"})
updatePerpMarketFeeAdjustment(p) == Sets(p, {"feeAdjustment"})
updatePerpMarketLiquidationFee(p) == Sets(p, {"liquidatorFee", "ifLiquidationFee"})
updatePerpMarketFuel(p) == Sets(p, {"fuelBoostTaker", "fuelBoostMaker", "fuelBoostPosition"})

-----------------------------------------------------------------------------
(* The parameters of a spot market.                                         *)
updateSpotMarketName(s) == Sets(s, {"name"})
updateSpotMarketPoolId(s) == Sets(s, {"poolId"})
updateWithdrawGuardThreshold(s) == Sets(s, {"withdrawGuardThreshold"})
updateSpotMarketIfFactor(s) == Sets(s, {"userIfFactor", "totalIfFactor"})
updateSpotMarketRevenueSettlePeriod(s) == Sets(s, {"revenueSettlePeriod"})
updateSpotMarketMaxTokenDeposits(s) == Sets(s, {"maxTokenDeposits"})
updateSpotMarketMaxTokenBorrows(s) == Sets(s, {"maxTokenBorrowsFraction"})
updateSpotMarketScaleInitialAssetWeightStart(s) == Sets(s, {"scaleInitialAssetWeightStart"})
updateInsuranceFundUnstakingPeriod(s) == Sets(s, {"unstakingPeriod"})
updateSpotMarketStepSizeAndTickSize(s) == Sets(s, {"orderStepSize", "orderTickSize"})
updateSpotMarketMinOrderSize(s) == Sets(s, {"minOrderSize"})
updateSpotMarketOracle(s, o) == Naming(Sets(s, {"oracle", "oracleSource"}), o)
updateSpotMarketOrdersEnabled(s) == Sets(s, {"ordersEnabled"})
updateSpotMarketIfPausedOperations(s) == Sets(s, {"ifPausedOperations"})
updateSpotMarketExpiry(s) == Sets(s, {"expiryTs", "status"})
updateSpotMarketMarginWeights(s) ==
    Sets(s, {"initialAssetWeight", "maintenanceAssetWeight", "initialLiabilityWeight",
             "maintenanceLiabilityWeight", "imfFactor"})
updateSpotMarketBorrowRate(s) ==
    Sets(s, {"optimalUtilization", "optimalBorrowRate", "maxBorrowRate", "minBorrowRate"})
updateSpotMarketAssetTier(s) == Sets(s, {"assetTier"})
updateSpotMarketStatus(s) == Sets(s, {"status"})
updateSpotMarketPausedOperations(s) == Sets(s, {"pausedOperations"})
updateSpotMarketFeeAdjustment(s) == Sets(s, {"feeAdjustment"})
updateSpotMarketLiquidationFee(s) == Sets(s, {"liquidatorFee", "ifLiquidationFee"})
updateSpotMarketFuel(s) ==
    Sets(s, {"fuelBoostDeposits", "fuelBoostBorrows", "fuelBoostTaker", "fuelBoostMaker",
             "fuelBoostInsurance"})

-----------------------------------------------------------------------------
(* The exchange.                                                            *)
updateAdmin == Sets(State, {"admin"})
updatePerpFeeStructure == Sets(State, {"perpFeeStructure"})
updateSpotFeeStructure == Sets(State, {"spotFeeStructure"})
updateInitialPctToLiquidate == Sets(State, {"initialPctToLiquidate"})
updateLiquidationDuration == Sets(State, {"liquidationDuration"})
updateLiquidationMarginBufferRatio == Sets(State, {"liquidationMarginBufferRatio"})
updateOracleGuardRails == Sets(State, {"oracleGuardRails"})
updateStateSettlementDuration == Sets(State, {"settlementDuration"})
updateStateMaxNumberOfSubAccounts == Sets(State, {"maxNumberOfSubAccounts"})
updateStateMaxInitializeUserFee == Sets(State, {"maxInitializeUserFee"})
updateLpCooldownTime == Sets(State, {"lpCooldownTime"})
updateWhitelistMint == Sets(State, {"whitelistMint"})
updateDiscountMint == Sets(State, {"discountMint"})
updateExchangeStatus == Sets(State, {"exchangeStatus"})
updatePerpAuctionDuration == Sets(State, {"minPerpAuctionDuration"})
updateSpotAuctionDuration == Sets(State, {"defaultSpotAuctionDuration"})
updateSerumVault == Sets(State, {"srmVault"})
initUserFuel == ByWallet(Sets("user", {"fuelDeposits", "fuelBorrows", "fuelTaker", "fuelMaker",
                                       "fuelInsurance"}))
=============================================================================
