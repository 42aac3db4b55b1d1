----------------------------- MODULE AdminClient -----------------------------
(***************************************************************************)
(* adminClient.ts on top of the polling subscription: the admin's           *)
(* transactions change the markets that the client follows.  Most of them   *)
(* only change fields that the subscription copies; an initialized market   *)
(* is added to the subscription by the call that initialized it.            *)
(***************************************************************************)
EXTENDS PollingClientAccountSubscriber

CONSTANTS Wallet            \* the wallet's public key

INSTANCE AdminInstructions

VARIABLES
    call                    \* the call in progress: where it is, its instruction,
                            \* and numberOfMarkets as it was seen before sending

adminVars == <<vars, call>>
NoCall == [at |-> "none", ix |-> initialize, seen |-> 0]

AdminInit == Init /\ call = NoCall

(* this.isSubscribed ? this.getStateAccount().admin : this.wallet.publicKey *)
Signer(ix) ==
    IF ix.signer = "admin" /\ isSubscribed THEN copies[State].admin ELSE Wallet

ForPerpMarket(p, known) ==
    {moveAmmPrice(p), moveAmmToPrice(p), recenterPerpMarketAmm(p), initializePredictionMarket(p),
     updateK(p, known), repegAmmCurve(p, known), updatePerpMarketAmmOracleTwap(p, known),
     resetPerpMarketAmmOracleTwap(p, known), updatePerpMarketAmmSummaryStats(p, known),
     depositIntoPerpMarketFeePool(p), updatePerpMarketConcentrationScale(p),
     updatePerpMarketCurveUpdateIntensity(p), updatePerpMarketTargetBaseAssetAmountPerLp(p),
     updatePerpMarketPerLpBase(p), updatePerpMarketBaseSpread(p), updatePerpMarketMaxSpread(p),
     updateAmmJitIntensity(p), updatePerpMarketMaxFillReserveFraction(p),
     updateMaxSlippageRatio(p), updatePerpMarketMarginRatio(p),
     updatePerpMarketHighLeverageMarginRatio(p), updatePerpMarketImfFactor(p),
     updatePerpMarketName(p), updatePerpMarketStepSizeAndTickSize(p),
     updatePerpMarketMinOrderSize(p), updatePerpMarketExpiry(p), updatePerpMarketStatus(p),
     updatePerpMarketPausedOperations(p), updatePerpMarketContractTier(p),
     updatePerpMarketUnrealizedAssetWeight(p), updatePerpMarketMaxImbalances(p),
     updatePerpMarketMaxOpenInterest(p), updatePerpMarketNumberOfUser(p),
     updatePerpMarketFeeAdjustment(p), updatePerpMarketLiquidationFee(p),
     updatePerpMarketFuel(p), initializePrelaunchOracle(p), updatePrelaunchOracleParams(p),
     deletePrelaunchOracle(p), deleteInitializedPerpMarket(p)}
    \cup {updatePerpMarketOracle(p, o) : o \in OracleId}
ForSpotMarket(s) ==
    {depositIntoSpotMarketVault(s), updateSpotMarketName(s), updateSpotMarketPoolId(s),
     updateWithdrawGuardThreshold(s), updateSpotMarketIfFactor(s),
     updateSpotMarketRevenueSettlePeriod(s), updateSpotMarketMaxTokenDeposits(s),
     updateSpotMarketMaxTokenBorrows(s), updateSpotMarketScaleInitialAssetWeightStart(s),
     updateInsuranceFundUnstakingPeriod(s), updateSpotMarketStepSizeAndTickSize(s),
     updateSpotMarketMinOrderSize(s), updateSpotMarketOrdersEnabled(s),
     updateSpotMarketIfPausedOperations(s), updateSpotMarketExpiry(s),
     updateSpotMarketMarginWeights(s), updateSpotMarketBorrowRate(s),
     updateSpotMarketAssetTier(s), updateSpotMarketStatus(s),
     updateSpotMarketPausedOperations(s), updateSpotMarketFeeAdjustment(s),
     updateSpotMarketLiquidationFee(s), updateSpotMarketFuel(s),
     initializeSerumFulfillmentConfig(s), initializePhoenixFulfillmentConfig(s),
     initializeOpenbookV2FulfillmentConfig(s), deleteInitializedSpotMarket(s)}
    \cup {updateSpotMarketOracle(s, o) : o \in OracleId}
ForExchange ==
    {updateAdmin, updatePerpFeeStructure, updateSpotFeeStructure, updateInitialPctToLiquidate,
     updateLiquidationDuration, updateLiquidationMarginBufferRatio, updateOracleGuardRails,
     updateStateSettlementDuration, updateStateMaxNumberOfSubAccounts,
     updateStateMaxInitializeUserFee, updateLpCooldownTime, updateWhitelistMint,
     updateDiscountMint, updateExchangeStatus, updatePerpAuctionDuration,
     updateSpotAuctionDuration, updateSerumVault, initUserFuel,
     updateSerumFulfillmentConfigStatus, updatePhoenixFulfillmentConfigStatus,
     initializeProtocolIfSharesTransferConfig, updateProtocolIfSharesTransferConfig,
     initializeHighLeverageModeConfig, updateUpdateHighLeverageModeConfig,
     initializePythPullOracle(TRUE), initializePythPullOracle(FALSE)}

(* The oracle that the program checks is the one the market has.            *)
NeedsCurrentOracle(ix) == ix.object \in PerpMarket /\ "oracle" \notin ix.fields
Accepted(ix, signer) ==
    /\ signer = admin
    /\ ix.oracle # None /\ NeedsCurrentOracle(ix) => ix.oracle = marketOracle[ix.object]
    /\ ix.object \in Market =>
          (marketOracle[ix.object] = None <=> "created" \in ix.fields)

(* What an instruction changes of the accounts the client follows.          *)
Observed(ix) ==
    /\ ix.object \in Market \cup {State}
    /\ ix.fields \cap {"created", "deleted", "oracle", "status", "admin"} # {}
Effect(ix) ==
    \E gone \in {delisted, delisted \cup {ix.object}}, adm \in Admin :
        /\ gone # delisted => ix.object \in PerpMarket /\ ix.fields = {"status"}
        /\ adm # admin <=> ix.object = State /\ "admin" \in ix.fields
        /\ ChainBecomes(IF ix.object \in Market /\ "deleted" \in ix.fields
                        THEN [marketOracle EXCEPT ![ix.object] = None]
                        ELSE IF ix.object \in Market /\ "oracle" \in ix.fields
                             THEN [marketOracle EXCEPT ![ix.object] = ix.oracle]
                             ELSE marketOracle,
                        IF "deleted" \in ix.fields THEN gone \ {ix.object} ELSE gone, adm)

(* An operation that the client does not follow up: it is sent and lands,   *)
(* or the program rejects it and nothing happens.                           *)
SendUpdate(ix) ==
    /\ call.at = "none"
    /\ ix.signer = "admin" => (isSubscribed => copies[State] # None)
    /\ Accepted(ix, Signer(ix)) /\ Observed(ix)
    /\ Effect(ix)
    /\ UNCHANGED <<loader, client, history, call>>

(* initializePerpMarket and initializeSpotMarket up to the confirmation.    *)
InitializeIx(m, o) ==
    IF m \in PerpMarket THEN initializePerpMarketIx(m, o) ELSE initializeSpotMarketIx(m, o)
initializeMarket(m, o) ==
    /\ call.at = "none" /\ isSubscribed
    /\ Accepted(InitializeIx(m, o), Signer(InitializeIx(m, o)))
    /\ Effect(InitializeIx(m, o))
    /\ call' = [at   |-> IF m \in PerpMarket THEN "counting" ELSE "adding",
                ix   |-> InitializeIx(m, o),
                seen |-> copies[State].numberOfMarkets]
    /\ UNCHANGED <<loader, client, history>>

Goto(at) == call' = [call EXCEPT !.at = at]

(* while (getStateAccount().numberOfMarkets <= ...) await fetchAccounts()   *)
initializePerpMarketCounts ==
    /\ call.at = "counting" /\ copies[State].numberOfMarkets > call.seen
    /\ Goto("adding")
    /\ UNCHANGED vars

(* addPerpMarket or addSpotMarket; a market that is polled returns at once. *)
initializeMarketAdds ==
    /\ call.at = "adding"
    /\ IF call.ix.object \in accountsToPoll
       THEN Goto("addingOracle") /\ UNCHANGED vars
       ELSE Goto("addingMarket") /\ addMarketChecks(call.ix.object)
initializeMarketAdded ==
    /\ call.at = "addingMarket"
    /\ call.ix.object \in accountsToPoll
    /\ calls[call.ix.object] = NoCalls \/ call.ix.object \in overlapped
    /\ Goto("addingOracle")
    /\ UNCHANGED vars
initializeMarketAddsOracle ==
    /\ call.at = "addingOracle"
    /\ IF call.ix.oracle \in oracles THEN UNCHANGED vars ELSE addOracle(call.ix.oracle)
    /\ Goto("setting")
initializeMarketReturns ==
    /\ call.at = "setting"
    /\ call.ix.oracle \notin adding
    /\ setOracleMaps(SameKind(call.ix.object))
    /\ call' = NoCall
    /\ UNCHANGED <<chain, buffers, isSubscribed, isSubscribing, subscribing, accountsToPoll,
                   callbackId, copies, oracles, calls, history>>

AdminNext ==
    \/ /\ SubscriberNext
       /\ CarefulCallers /\ call.at # "none" /\ isSubscribed => isSubscribed'
       /\ UNCHANGED call
    \/ \E p \in PerpMarket : copies[p] # None /\
          \E ix \in ForPerpMarket(p, copies[p].oracle) : SendUpdate(ix)
    \/ \E s \in SpotMarket : \E ix \in ForSpotMarket(s) : SendUpdate(ix)
    \/ \E ix \in ForExchange : SendUpdate(ix)
    \/ \E m \in Market, o \in OracleId : initializeMarket(m, o)
    \/ initializePerpMarketCounts \/ initializeMarketAdds \/ initializeMarketAdded
    \/ initializeMarketAddsOracle \/ initializeMarketReturns

AdminSpec == AdminInit /\ [][AdminNext]_adminVars

=============================================================================
