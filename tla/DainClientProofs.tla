--------------------------- MODULE DainClientProofs ---------------------------
(***************************************************************************)
(* What every instruction of the client names, and with which flags, for    *)
(* any markets, sub-accounts, positions and cache entries.                  *)
(***************************************************************************)
EXTENDS DainClient, TLAPS

-----------------------------------------------------------------------------
(* An instruction writes markets that are of the kind it writes them as,    *)
(* and a method opens and marks only markets.                               *)
Sound(ix) == ix.writablePerp \subseteq PerpMarket /\ ix.writableSpot \subseteq SpotMarket
SoundMethod(method) ==
    /\ \A ix \in method.ixs : Sound(ix)
    /\ method.opens \in UserAccount /\ method.marks \in SUBSET Market

LEMMA MethodIs ==
    \A ixs, opens, marks :
        (\A ix \in ixs : Sound(ix)) /\ opens \in UserAccount /\ marks \in SUBSET Market
        => SoundMethod(Method(ixs, opens, marks))
BY DEF SoundMethod, Method

LEMMA OpensAre ==
    /\ NoPositions \in UserAccount
    /\ \A p \in PerpMarket : Perp(p) \in UserAccount
    /\ \A S \in SUBSET SpotMarket : Spot(S) \in UserAccount
    /\ \A M : Orders(M) \in UserAccount
    /\ \A p \in PerpMarket, s \in SpotMarket : Both(p, s) \in UserAccount
BY DEF UserAccount, NoPositions, Perp, Spot, Orders, Both

LEMMA OwnInstructionsAreSound ==
    ASSUME NEW own, NEW other, NEW p \in PerpMarket, NEW s \in SpotMarket,
           NEW r \in SpotMarket, NEW M
    PROVE  /\ Sound(getUpdateUserMarginTradingEnabledIx(own))
           /\ Sound(getDepositInstruction(own, s)) /\ Sound(getDepositInstructionNewUser(s))
           /\ Sound(getWithdrawIx(own, s)) /\ Sound(getTransferDepositIx(own, s))
           /\ Sound(getRemovePerpLpSharesIx(own, p)) /\ Sound(getAddPerpLpSharesIx(own, p))
           /\ Sound(getPlacePerpOrderIx(own, p)) /\ Sound(getPlacePerpOrderIxNewUser(p, s))
           /\ Sound(getEnableHighLeverageModeIx(own))
           /\ Sound(getEnableHighLeverageModeIxNewUser(p, s))
           /\ Sound(getCancelOrderIx(own)) /\ Sound(getCancelOrderByUserIdIx(own))
           /\ Sound(getCancelOrdersByIdsIx(own)) /\ Sound(getCancelOrdersIx(own, M))
           /\ Sound(getPlaceOrdersIx(own, M)) /\ Sound(getModifyOrderIx(own))
           /\ Sound(getModifyOrderByUserIdIx(own)) /\ Sound(getPlaceSpotOrderIx(own, s))
           /\ Sound(getSwapIx(own, s, r))
           /\ Sound(getPlaceAndTakePerpOrderIx(own, other, p))
           /\ Sound(getPlaceAndMakePerpOrderIx(own, other, p))
           /\ Sound(getPlaceSwiftTakerPerpOrderIxs(other, p))
           /\ Sound(getPlaceAndMakeSwiftPerpOrderIxs(own, other, p))
           /\ Sound(getPlaceAndMatchRFQOrdersIxs(own, p))
           /\ Sound(getPlaceAndTakeSpotOrderIx(own, other, s))
           /\ Sound(getPlaceAndMakeSpotOrderIx(own, other, s))
<1> USE QuoteAssumption DEF Sound, Names, NamesAndCached
<1> QED
  BY DEF getUpdateUserMarginTradingEnabledIx, getDepositInstruction,
         getDepositInstructionNewUser, getWithdrawIx, getTransferDepositIx,
         getRemovePerpLpSharesIx, getAddPerpLpSharesIx, getPlacePerpOrderIx,
         getPlacePerpOrderIxNewUser, getEnableHighLeverageModeIx,
         getEnableHighLeverageModeIxNewUser, getCancelOrderIx, getCancelOrderByUserIdIx,
         getCancelOrdersByIdsIx, getCancelOrdersIx, getPlaceOrdersIx, getModifyOrderIx,
         getModifyOrderByUserIdIx, getPlaceSpotOrderIx, getSwapIx,
         getPlaceAndTakePerpOrderIx, getPlaceAndMakePerpOrderIx,
         getPlaceSwiftTakerPerpOrderIxs, getPlaceAndMakeSwiftPerpOrderIxs,
         getPlaceAndMatchRFQOrdersIxs, getPlaceAndTakeSpotOrderIx,
         getPlaceAndMakeSpotOrderIx

LEMMA LiquidationsAreSound ==
    ASSUME NEW own, NEW other, NEW p \in PerpMarket, NEW s \in SpotMarket,
           NEW r \in SpotMarket
    PROVE  /\ Sound(getLiquidatePerpIx(own, other, p))
           /\ Sound(getLiquidatePerpWithFillIx(other, other, p))
           /\ Sound(getLiquidateSpotIx(own, other, s, r))
           /\ Sound(getLiquidateBorrowForPerpPnlIx(own, other, p, r))
           /\ Sound(getLiquidatePerpPnlForDepositIx(own, other, p, s))
           /\ Sound(getResolvePerpBankruptcyIx(own, other, p))
           /\ Sound(getResolveSpotBankruptcyIx(own, other, s))
           /\ Sound(getResolvePerpPnlDeficitIx(own, p, s))
<1> USE QuoteAssumption DEF Sound, Names, NamesAndCached
<1> QED
  BY DEF getLiquidatePerpIx, getLiquidatePerpWithFillIx, getLiquidateSpotIx,
         getLiquidateBorrowForPerpPnlIx, getLiquidatePerpPnlForDepositIx,
         getResolvePerpBankruptcyIx, getResolveSpotBankruptcyIx, getResolvePerpPnlDeficitIx

LEMMA OtherInstructionsAreSound ==
    ASSUME NEW other \in UserAccount, NEW maker, NEW p \in PerpMarket, NEW s \in SpotMarket,
           NEW m \in Market, NEW P \in SUBSET PerpMarket
    PROVE  /\ Sound(getForceDeleteUserIx(other)) /\ Sound(settleLPIx(other, p))
           /\ Sound(getRemovePerpLpSharesInExpiringMarket(other, p))
           /\ Sound(getSettleExpiredMarketIx(p))
           /\ Sound(getFillPerpOrderIx(other, maker, p))
           /\ Sound(getFillSpotOrderIx(other, maker, s))
           /\ Sound(getTriggerOrderIx(other, m)) /\ Sound(getForceCancelOrdersIx(other))
           /\ Sound(getUpdateUserIdleIx(other)) /\ Sound(getLogUserBalancesIx(other))
           /\ Sound(getUpdateUserFuelBonusIx(other))
           /\ Sound(getUpdateUserOpenOrdersCountIx(other)) /\ Sound(settlePNLIx(other, p))
           /\ Sound(settleMultiplePNLsIx(other, P))
           /\ Sound(getSetUserStatusToBeingLiquidatedIx(other))
           /\ Sound(getSettleFundingPaymentIx(other))
           /\ Sound(getDisableHighLeverageModeIx(other))
<1> USE QuoteAssumption DEF Sound, Names, NamesAndCached
<1> QED
  BY DEF UserAccount, Market, getForceDeleteUserIx, settleLPIx, getRemovePerpLpSharesInExpiringMarket,
         getSettleExpiredMarketIx, getFillPerpOrderIx, getFillSpotOrderIx,
         getTriggerOrderIx, getForceCancelOrdersIx, getUpdateUserIdleIx,
         getLogUserBalancesIx, getUpdateUserFuelBonusIx, getUpdateUserOpenOrdersCountIx,
         settlePNLIx, settleMultiplePNLsIx, getSetUserStatusToBeingLiquidatedIx,
         getSettleFundingPaymentIx, getDisableHighLeverageModeIx

LEMMA OwnMethodsAreSound ==
    ASSUME NEW own \in UserAccount, NEW p \in PerpMarket, NEW s \in SpotMarket,
           NEW r \in SpotMarket, NEW M \in SUBSET Market
    PROVE  /\ SoundMethod(deposit(own, s)) /\ SoundMethod(withdraw(own, s))
           /\ SoundMethod(withdrawAllDustPositions(own))
           /\ SoundMethod(addPerpLpShares(own, p))
           /\ SoundMethod(removePerpLpShares(own, p)) /\ SoundMethod(placePerpOrder(own, p))
           /\ SoundMethod(placeOrders(own, M)) /\ SoundMethod(cancelAndPlaceOrders(own, M))
           /\ SoundMethod(cancelOrder(own)) /\ SoundMethod(cancelOrderByUserId(own))
           /\ SoundMethod(cancelOrdersByIds(own)) /\ SoundMethod(cancelOrders(own, M))
           /\ SoundMethod(modifyOrder(own)) /\ SoundMethod(modifyOrderByUserOrderId(own))
           /\ SoundMethod(swap(own, s, r)) /\ SoundMethod(placeAndMatchRFQOrders(own, p))
           /\ SoundMethod(resolvePerpPnlDeficit(own, p, s))
           /\ SoundMethod(updateUserMarginTradingEnabled(own))
           /\ SoundMethod(enableUserHighLeverageMode(own))
           /\ SoundMethod(placeSpotOrder(own, s))
           /\ SoundMethod(initializeUserAccountAndDepositCollateral(s))
           /\ SoundMethod(transferDeposit(own, s))
<1> USE QuoteAssumption, MethodIs, OpensAre DEF Market
<1>1. SoundMethod(withdrawAllDustPositions(own))
  <2>1. \A t \in own.spot : t \in SpotMarket
    BY DEF UserAccount
  <2>2. \A t \in own.spot : Sound(getWithdrawIx(own, t))
    BY <2>1, OwnInstructionsAreSound
  <2> QED
    BY <2>2 DEF withdrawAllDustPositions
<1> QED
  BY <1>1, OwnInstructionsAreSound, LiquidationsAreSound
  DEF deposit, withdraw, addPerpLpShares, removePerpLpShares, placePerpOrder, placeOrders,
      cancelAndPlaceOrders, cancelOrder, cancelOrderByUserId, cancelOrdersByIds,
      cancelOrders, modifyOrder, modifyOrderByUserOrderId, swap, placeAndMatchRFQOrders,
      resolvePerpPnlDeficit, updateUserMarginTradingEnabled, enableUserHighLeverageMode,
      placeSpotOrder, initializeUserAccountAndDepositCollateral, transferDeposit

LEMMA DepositsAreSound ==
    ASSUME NEW own \in UserAccount, NEW s \in TradedSpot
    PROVE  SoundMethod(deposit(own, s)) /\ SoundMethod(transferDeposit(own, s))
<1>1. s \in SpotMarket /\ s \in Market
  BY ArgumentsAssumption DEF Market
<1>2. Sound(getDepositInstruction(own, s)) /\ Sound(getTransferDepositIx(own, s))
  BY <1>1 DEF Sound, Names, NamesAndCached, getDepositInstruction, getTransferDepositIx
<1> QED
  BY <1>1, <1>2, MethodIs, OpensAre DEF deposit, transferDeposit

LEMMA MethodsWithOtherAreSound ==
    ASSUME NEW own \in UserAccount, NEW other \in UserAccount, NEW p \in PerpMarket, NEW s \in SpotMarket,
           NEW r \in SpotMarket
    PROVE  /\ SoundMethod(sendMarketOrderAndGetSignedFillTx(own, other, p))
           /\ SoundMethod(placeAndTakePerpWithAdditionalOrders(own, other, p))
           /\ SoundMethod(placeAndTakePerpOrder(own, other, p))
           /\ SoundMethod(placeAndMakePerpOrder(own, other, p))
           /\ SoundMethod(placeAndMakeSwiftPerpOrder(own, other, p))
           /\ SoundMethod(placeAndTakeSpotOrder(own, other, s))
           /\ SoundMethod(placeAndMakeSpotOrder(own, other, s))
           /\ SoundMethod(liquidatePerp(own, other, p))
           /\ SoundMethod(liquidateSpot(own, other, s, r))
           /\ SoundMethod(liquidateBorrowForPerpPnl(own, other, p, r))
           /\ SoundMethod(liquidatePerpPnlForDeposit(own, other, p, s))
           /\ SoundMethod(resolvePerpBankruptcy(own, other, p))
           /\ SoundMethod(resolveSpotBankruptcy(own, other, s))
<1> USE QuoteAssumption, MethodIs, OpensAre DEF Market
<1>1. /\ SoundMethod(sendMarketOrderAndGetSignedFillTx(own, other, p))
      /\ SoundMethod(placeAndTakePerpWithAdditionalOrders(own, other, p))
  <2>1. /\ Sound(getPlaceOrdersIx(own, {p})) /\ Sound(getCancelOrdersIx(own, {p}))
        /\ Sound(getPlaceAndTakePerpOrderIx(own, other, p))
    BY OwnInstructionsAreSound
  <2>2. Sound(settlePNLIx(own, p)) /\ Sound(getFillPerpOrderIx(own, other, p))
    BY OtherInstructionsAreSound
  <2> QED
    BY <2>1, <2>2 DEF sendMarketOrderAndGetSignedFillTx, placeAndTakePerpWithAdditionalOrders
<1> QED
  BY <1>1, OwnInstructionsAreSound, LiquidationsAreSound, OtherInstructionsAreSound
  DEF placeAndTakePerpOrder, placeAndMakePerpOrder, placeAndMakeSwiftPerpOrder,
      placeAndTakeSpotOrder, placeAndMakeSpotOrder, liquidatePerp, liquidateSpot,
      liquidateBorrowForPerpPnl, liquidatePerpPnlForDeposit, resolvePerpBankruptcy,
      resolveSpotBankruptcy

LEMMA OtherMethodsAreSound ==
    ASSUME NEW other \in UserAccount, NEW p \in PerpMarket, NEW s \in SpotMarket,
           NEW m \in Market, NEW P \in SUBSET PerpMarket
    PROVE  /\ SoundMethod(placeSwiftTakerOrder(other, p))
           /\ SoundMethod(liquidatePerpWithFill(other, other, p))
           /\ SoundMethod(removePerpLpSharesInExpiringMarket(other, p))
           /\ SoundMethod(disableUserHighLeverageMode(other))
           /\ SoundMethod(settleLP(other, p)) /\ SoundMethod(settleExpiredMarket(p))
           /\ SoundMethod(fillPerpOrder(other, other, p))
           /\ SoundMethod(fillSpotOrder(other, other, s))
           /\ SoundMethod(triggerOrder(other, m)) /\ SoundMethod(forceCancelOrders(other))
           /\ SoundMethod(forceDeleteUser(other)) /\ SoundMethod(updateUserIdle(other))
           /\ SoundMethod(logUserBalances(other)) /\ SoundMethod(updateUserFuelBonus(other))
           /\ SoundMethod(updateUserOpenOrdersCount(other))
           /\ SoundMethod(settlePNL(other, p)) /\ SoundMethod(settlePNLs(other, P))
           /\ SoundMethod(settleMultiplePNLs(other, P))
           /\ SoundMethod(setUserStatusToBeingLiquidated(other))
           /\ SoundMethod(settleFundingPayment(other))
<1> USE QuoteAssumption, MethodIs, OpensAre DEF Market
<1> QED
  BY OwnInstructionsAreSound, LiquidationsAreSound, OtherInstructionsAreSound
  DEF placeSwiftTakerOrder, liquidatePerpWithFill, removePerpLpSharesInExpiringMarket,
      disableUserHighLeverageMode, settleLP, settleExpiredMarket, fillPerpOrder,
      fillSpotOrder, triggerOrder, forceCancelOrders, forceDeleteUser, updateUserIdle,
      logUserBalances, updateUserFuelBonus, updateUserOpenOrdersCount, settlePNL,
      settlePNLs, settleMultiplePNLs, setUserStatusToBeingLiquidated, settleFundingPayment

LEMMA OwnSendsAreSound ==
    ASSUME NEW own \in UserAccount, NEW method \in OwnSends[own]
    PROVE  SoundMethod(method)
<1> USE QuoteAssumption, ArgumentsAssumption
<1>1. ASSUME NEW p \in PerpMarket, NEW s \in TradedSpot, method \in OwnMethods(own, p, s)
      PROVE  SoundMethod(method)
  <2>1. s \in SpotMarket /\ {p, s} \in SUBSET Market /\ {p} \in SUBSET Market /\ {s} \in SUBSET Market
    BY DEF Market
  <2>2. \A M \in SUBSET Market : SoundMethod(placeOrders(own, M)) /\ SoundMethod(cancelAndPlaceOrders(own, M))
                                   /\ SoundMethod(cancelOrders(own, M))
    BY <2>1, OwnMethodsAreSound
  <2>3. SoundMethod(swap(own, s, Quote)) /\ SoundMethod(swap(own, Quote, s))
    BY <2>1, OwnMethodsAreSound
  <2>4. \A m \in {s} \ {Quote} : SoundMethod(placeSpotOrder(own, m))
    BY <2>1, OwnMethodsAreSound
  <2>5. {} \in SUBSET Market
    OBVIOUS
  <2> QED
    BY <1>1, <2>1, <2>2, <2>3, <2>4, <2>5, OwnMethodsAreSound DEF OwnMethods
<1>2. ASSUME NEW p \in PerpMarket, NEW s \in TradedSpot, NEW other \in OtherAccount,
             method \in MethodsWithOther(own, other, p, s)
      PROVE  SoundMethod(method)
  <2>1. s \in SpotMarket /\ other \in UserAccount
    OBVIOUS
  <2>2. SoundMethod(liquidateSpot(own, other, s, Quote)) /\ SoundMethod(liquidateSpot(own, other, Quote, s))
    BY <2>1, MethodsWithOtherAreSound
  <2> QED
    BY <1>2, <2>1, <2>2, MethodsWithOtherAreSound DEF MethodsWithOther
<1> QED
  BY <1>1, <1>2 DEF OwnSends

LEMMA OtherSendsAreSound == ASSUME NEW method \in OtherSends PROVE SoundMethod(method)
<1> USE ArgumentsAssumption
<1>1. PICK other \in OtherAccount, p \in PerpMarket, s \in TradedSpot : method \in OtherMethods(other, p, s)
  BY DEF OtherSends
<1>2. s \in SpotMarket /\ other \in UserAccount /\ p \in Market /\ s \in Market /\ {p} \in SUBSET PerpMarket
      /\ PerpMarket \in SUBSET PerpMarket
  BY DEF Market
<1>3. SoundMethod(triggerOrder(other, p)) /\ SoundMethod(triggerOrder(other, s))
  BY <1>2, OtherMethodsAreSound
<1>4. SoundMethod(settlePNLs(other, {p})) /\ SoundMethod(settleMultiplePNLs(other, PerpMarket))
  BY <1>2, OtherMethodsAreSound
<1> QED
  BY <1>1, <1>2, <1>3, <1>4, OtherMethodsAreSound DEF OtherMethods

-----------------------------------------------------------------------------
(* The layers of a list of accounts.  A layer that only reads flags nothing *)
(* as writable (Reading), and laid under another it changes no flag; of the *)
(* markets a list writes exactly those of W (Flagged).                      *)
Reading(list) == \A x \in DOMAIN list : list[x] = FALSE
Flagged(list, W) ==
    /\ W \subseteq DOMAIN list
    /\ \A m \in DOMAIN list : m \in W => list[m] = TRUE
    /\ \A m \in DOMAIN list : m \in Market \ W => list[m] = FALSE

LEMMA ReadingOver == ASSUME NEW f, NEW g, Reading(f), Reading(g) PROVE Reading(f ++ g)
BY DEF Reading, ++

LEMMA FlaggedOver == ASSUME NEW f, NEW g, NEW W, Flagged(f, W), Reading(g) PROVE Flagged(f ++ g, W)
BY DEF Reading, Flagged, ++

LEMMA FlaggedBoth ==
    ASSUME NEW f, NEW g, NEW W, NEW V, Flagged(f, W), Flagged(g, V), DOMAIN f \cap V \subseteq W
    PROVE  Flagged(f ++ g, W \cup V)
BY DEF Reading, Flagged, ++

LEMMA SpotLayerReads == ASSUME NEW S PROVE Reading(SpotLayer(S, FALSE))
<1> DEFINE f == [m \in S |-> FALSE]
           g == [o \in {Oracle[m] : m \in S} \ {DefaultOracle} |-> FALSE]
<1>1. Reading(f) /\ Reading(g)
  BY DEF Reading
<1> HIDE DEF f, g
<1>2. Reading(f ++ g)
  BY <1>1, ReadingOver
<1> QED
  BY <1>2 DEF SpotLayer, f, g

LEMMA PerpLayerReads == ASSUME NEW P PROVE Reading(PerpLayer(P, FALSE))
<1> DEFINE e == SpotLayer(IF P = {} THEN {} ELSE {Quote}, FALSE)
           f == [m \in P |-> FALSE]
           g == [o \in {Oracle[m] : m \in P} |->
                    FALSE /\ \E m \in P \cap Prelaunch : Oracle[m] = o]
<1>1. Reading(e) /\ Reading(f) /\ Reading(g)
  <2>1. Reading(e)
    BY SpotLayerReads
  <2>2. Reading(f) /\ Reading(g)
    BY DEF Reading
  <2> QED
    BY <2>1, <2>2
<1> HIDE DEF e, f, g
<1>2. Reading((e ++ f) ++ g)
  BY <1>1, ReadingOver
<1> QED
  BY <1>2 DEF PerpLayer, e, f, g

LEMMA SpotLayerFlags == ASSUME NEW S \in SUBSET SpotMarket PROVE Flagged(SpotLayer(S, TRUE), S)
<1> DEFINE f == [m \in S |-> TRUE]
           g == [o \in {Oracle[m] : m \in S} \ {DefaultOracle} |-> FALSE]
<1>1. Flagged(f, S) /\ Reading(g)
  BY DEF Reading, Flagged
<1> HIDE DEF f, g
<1>2. Flagged(f ++ g, S)
  BY <1>1, FlaggedOver
<1> QED
  BY <1>2 DEF SpotLayer, f, g

(* The quote market is read with every perp market, and no oracle is a      *)
(* market: a prelaunch oracle is written, too.                              *)
LEMMA PerpLayerFlags == ASSUME NEW P \in SUBSET PerpMarket PROVE Flagged(PerpLayer(P, TRUE), P)
<1> DEFINE e == SpotLayer(IF P = {} THEN {} ELSE {Quote}, FALSE)
           f == [m \in P |-> TRUE]
           g == [o \in {Oracle[m] : m \in P} |->
                    TRUE /\ \E m \in P \cap Prelaunch : Oracle[m] = o]
<1>1. Reading(e) /\ \A m \in DOMAIN e : m \notin P
  <2>1. DOMAIN e \subseteq {Quote} \cup {Oracle[Quote]}
    BY DEF SpotLayer, ++
  <2> QED
    BY <2>1, SpotLayerReads, QuoteAssumption, MarketAssumption
<1>2. Flagged(f, P)
  BY DEF Flagged
<1>3. DOMAIN g \cap Market = {}
  BY MarketAssumption DEF Market
<1> HIDE DEF e, f, g
<1>4. Flagged(e ++ f, P)
  BY <1>1, <1>2 DEF Reading, Flagged, ++
<1>5. Flagged((e ++ f) ++ g, P)
  BY <1>3, <1>4 DEF Flagged, ++
<1> QED
  BY <1>5 DEF PerpLayer, e, f, g

LEMMA UsersLayerReads == ASSUME NEW accounts PROVE Reading(UsersLayer(accounts))
BY SpotLayerReads, PerpLayerReads, ReadingOver DEF UsersLayer

(* Whatever the users hold, and whatever the caches and the caller add, the *)
(* instruction's own flags stay.                                            *)
LEMMA ListIsFlagged ==
    ASSUME NEW ix, Sound(ix), NEW cached, NEW must
    PROVE  Flagged(getRemainingAccounts(ix, cached, must), ix.writableSpot \cup ix.writablePerp)
<1> DEFINE W == ix.writableSpot \cup ix.writablePerp
           l0 == SpotLayer(ix.writableSpot, TRUE)
           l1 == PerpLayer(ix.writablePerp, TRUE)
           l2 == SpotLayer(must \cap SpotMarket, FALSE)
           l3 == SpotLayer(ix.readableSpot, FALSE)
           l4 == PerpLayer(must \cap PerpMarket, FALSE)
           l5 == PerpLayer(ix.readablePerp, FALSE)
           l6 == SpotLayer(cached \cap SpotMarket, FALSE)
           l7 == PerpLayer(cached \cap PerpMarket, FALSE)
           l8 == UsersLayer(ix.users)
<1>1. Flagged(l0, ix.writableSpot) /\ Flagged(l1, ix.writablePerp)
  BY SpotLayerFlags, PerpLayerFlags DEF Sound
<1>2. DOMAIN l0 \cap ix.writablePerp \subseteq ix.writableSpot
  <2>1. DOMAIN l0 \subseteq ix.writableSpot \cup {Oracle[m] : m \in ix.writableSpot}
    BY DEF SpotLayer, ++
  <2> QED
    BY <2>1, MarketAssumption DEF Sound
<1>3. /\ Reading(l2) /\ Reading(l3) /\ Reading(l4) /\ Reading(l5) /\ Reading(l6)
      /\ Reading(l7) /\ Reading(l8)
  BY SpotLayerReads, PerpLayerReads, UsersLayerReads
<1>4. getRemainingAccounts(ix, cached, must) = l0 ++ l1 ++ l2 ++ l3 ++ l4 ++ l5 ++ l6 ++ l7 ++ l8
  BY DEF getRemainingAccounts
<1> HIDE DEF l0, l1, l2, l3, l4, l5, l6, l7, l8
<1>5. Flagged(l0 ++ l1, W)
  BY <1>1, <1>2, FlaggedBoth
<1>6. Flagged(l0 ++ l1 ++ l2 ++ l3 ++ l4, W)
  BY <1>3, <1>5, FlaggedOver
<1>7. Flagged(l0 ++ l1 ++ l2 ++ l3 ++ l4 ++ l5 ++ l6 ++ l7 ++ l8, W)
  BY <1>3, <1>6, FlaggedOver
<1> QED
  BY <1>4, <1>7

(* What the caches add, what the users hold and what is written is named.   *)
LEMMA ListNames ==
    ASSUME NEW ix, NEW cached \in SUBSET Market, NEW must
    PROVE  /\ cached \subseteq Named(getRemainingAccounts(ix, cached, must))
           /\ \A own \in ix.users : MarketsOf(own) \subseteq Named(getRemainingAccounts(ix, cached, must))
           /\ ix.writableSpot \subseteq Named(getRemainingAccounts(ix, cached, must))
<1> DEFINE l0 == SpotLayer(ix.writableSpot, TRUE)
           l1 == PerpLayer(ix.writablePerp, TRUE)
           l2 == SpotLayer(must \cap SpotMarket, FALSE)
           l3 == SpotLayer(ix.readableSpot, FALSE)
           l4 == PerpLayer(must \cap PerpMarket, FALSE)
           l5 == PerpLayer(ix.readablePerp, FALSE)
           l6 == SpotLayer(cached \cap SpotMarket, FALSE)
           l7 == PerpLayer(cached \cap PerpMarket, FALSE)
           l8 == UsersLayer(ix.users)
<1>1. \A S, writable : S \subseteq DOMAIN SpotLayer(S, writable)
  BY DEF SpotLayer, ++
<1>2. \A P, writable : P \subseteq DOMAIN PerpLayer(P, writable)
  BY DEF PerpLayer, ++
<1>3. \A f, g : DOMAIN (f ++ g) = DOMAIN f \cup DOMAIN g
  BY DEF ++
<1>4. ASSUME NEW own \in ix.users PROVE MarketsOf(own) \subseteq DOMAIN l8
  <2> DEFINE P == UNION {a.perp : a \in ix.users}
             S == UNION {a.spot \cup (IF a.orders = {} THEN {} ELSE {Quote}) : a \in ix.users}
  <2>1. own.perp \subseteq P /\ MarketsOf(own) \subseteq P \cup S
    BY DEF MarketsOf
  <2>2. DOMAIN l8 = DOMAIN PerpLayer(P, FALSE) \cup DOMAIN SpotLayer(S, FALSE)
    BY DEF UsersLayer, ++
  <2> QED
    BY <1>1, <1>2, <2>1, <2>2
<1>5. cached \subseteq DOMAIN l6 \cup DOMAIN l7 /\ ix.writableSpot \subseteq DOMAIN l0
  BY <1>1, <1>2 DEF Market
<1>6. getRemainingAccounts(ix, cached, must) = l0 ++ l1 ++ l2 ++ l3 ++ l4 ++ l5 ++ l6 ++ l7 ++ l8
  BY DEF getRemainingAccounts
<1> HIDE DEF l0, l1, l2, l3, l4, l5, l6, l7, l8
<1>7. DOMAIN l0 \cup DOMAIN l6 \cup DOMAIN l7 \cup DOMAIN l8
          \subseteq DOMAIN (l0 ++ l1 ++ l2 ++ l3 ++ l4 ++ l5 ++ l6 ++ l7 ++ l8)
  BY DEF ++
<1> QED
  BY <1>4, <1>5, <1>6, <1>7 DEF Named

-----------------------------------------------------------------------------
(* The instructions of a vault name the vault's user; what they push is the *)
(* protocol's account.                                                      *)
OfVault(ix, own) ==
    /\ own \in ix.users /\ Sound(ix) /\ ix.writablePerp = {}
    /\ ix.pushed \subseteq {VaultProtocol}

LEMMA VaultInstructionsAre ==
    ASSUME NEW own, NEW s \in SpotMarket, NEW ix \in VaultInstructions(own, s)
    PROVE  OfVault(ix, own)
<1>1. OfVault(Reads(own), own) /\ OfVault(Writes(own, s), own)
  BY DEF OfVault, Sound, Reads, Writes
<1>2. \A c \in BOOLEAN : OfVault(Pushing(Reads(own), c), own)
  BY DEF OfVault, Sound, Reads, Pushing
<1>3. \A c \in BOOLEAN : OfVault(Pushing(Writes(own, s), c), own)
  BY DEF OfVault, Sound, Reads, Writes, Pushing
<1>4. TRUE \in BOOLEAN
  OBVIOUS
<1> QED
  BY <1>1, <1>2, <1>3, <1>4
  DEF VaultInstructions, updateMarginTradingEnabled, managerDeposit, managerRequestWithdraw,
      managerCancelWithdrawRequest, managerWithdraw, protocolRequestWithdraw,
      protocolCancelWithdrawRequest, protocolWithdraw, getApplyProfitShareIx,
      getApplyRebaseTokenizedDepositorIx, getApplyRebaseIx, createTokenizeSharesIx,
      createRedeemTokensIx, prepDepositTx, requestWithdraw, withdrawFromVault,
      getForceWithdrawIx, cancelRequestWithdraw, liquidate

LEMMA NoneIsWronglyFlagged ==
    ASSUME NEW own \in UserAccount, NEW cached, NEW must
    PROVE  ~IsWronglyFlagged(own, cached, must)
<1> SUFFICES ASSUME NEW ix \in OwnInstructions[own], NEW list,
                    list = getRemainingAccounts(ix, IF ix.useMarketLastSlotCache THEN cached ELSE {}, must),
                    NEW m \in Named(list) \cap Market
             PROVE  ~(list[m] # (m \in ix.writablePerp \cup ix.writableSpot))
  BY DEF IsWronglyFlagged
<1>1. PICK method \in OwnSends[own] : ix \in method.ixs
  BY DEF OwnInstructions
<1>2. Sound(ix)
  BY <1>1, OwnSendsAreSound DEF SoundMethod
<1>3. Flagged(list, ix.writableSpot \cup ix.writablePerp)
  BY <1>2, ListIsFlagged
<1>4. CASE m \in ix.writablePerp \cup ix.writableSpot
  <2>1. list[m] = TRUE
    BY <1>3, <1>4 DEF Flagged
  <2> QED
    BY <1>4, <2>1, Zenon
<1>5. CASE m \notin ix.writablePerp \cup ix.writableSpot
  <2>1. list[m] = FALSE
    BY <1>3, <1>5 DEF Flagged, Named
  <2>2. (m \in ix.writablePerp \cup ix.writableSpot) = FALSE
    BY <1>5
  <2> QED
    BY <2>1, <2>2
<1> QED
  BY <1>4, <1>5

LEMMA NoVaultIsWronglyNamed ==
    ASSUME NEW own \in UserAccount, NEW must
    PROVE  ~VaultIsWronglyNamed(own, must)
<1> SUFFICES ASSUME NEW s \in TradedSpot, NEW ix \in VaultInstructions(own, s),
                    NEW list, list = VaultAccounts(ix, must)
             PROVE  /\ (MarketsOf(own) \cup ix.writableSpot \cup ix.pushed) \subseteq Named(list)
                    /\ \A m \in Named(list) \cap Market : ~(list[m] # (m \in ix.writableSpot))
  BY DEF VaultIsWronglyNamed
<1> DEFINE accounts == getRemainingAccounts(ix, {}, must)
<1>1. OfVault(ix, own)
  BY VaultInstructionsAre, ArgumentsAssumption
<1>2. MarketsOf(own) \subseteq Named(accounts) /\ ix.writableSpot \subseteq Named(accounts)
  BY <1>1, ListNames DEF OfVault
<1>3. Flagged(accounts, ix.writableSpot)
  <2>1. Flagged(accounts, ix.writableSpot \cup ix.writablePerp)
    BY <1>1, ListIsFlagged DEF OfVault
  <2> QED
    BY <1>1, <2>1 DEF OfVault
<1>4. list = [a \in ix.pushed |-> TRUE] ++ accounts
  BY DEF VaultAccounts
<1> HIDE DEF accounts
<1>5. DOMAIN list = ix.pushed \cup DOMAIN accounts
  BY <1>4 DEF ++
<1>6. \A m \in Market : m \in DOMAIN list => m \in DOMAIN accounts /\ list[m] = accounts[m]
  BY <1>1, <1>4, <1>5, ProtocolAssumption DEF OfVault, ++
<1>7. (MarketsOf(own) \cup ix.writableSpot \cup ix.pushed) \subseteq Named(list)
  BY <1>2, <1>5 DEF Named
<1>8. ASSUME NEW m \in Named(list) \cap Market PROVE ~(list[m] # (m \in ix.writableSpot))
  <2>1. CASE m \in ix.writableSpot
    <3>1. list[m] = TRUE
      BY <1>3, <1>6, <2>1 DEF Flagged, Named
    <3> QED
      BY <2>1, <3>1, Zenon
  <2>2. CASE m \notin ix.writableSpot
    <3>1. list[m] = FALSE
      BY <1>3, <1>6, <2>2 DEF Flagged, Named
    <3>2. (m \in ix.writableSpot) = FALSE
      BY <2>2
    <3> QED
      BY <3>1, <3>2
  <2> QED
    BY <2>1, <2>2
<1> QED
  BY <1>7, <1>8

LEMMA NothingIsWronglyFlagged == WronglyFlagged = {}
BY NoneIsWronglyFlagged, NoVaultIsWronglyNamed DEF WronglyFlagged

-----------------------------------------------------------------------------
(* The inductive invariant.  What an assured market needs is a copy that    *)
(* shows it or a cache entry that is newer than the copy (IsCovered).  To   *)
(* show it when a transaction is confirmed, the invariant says of one that  *)
(* landed and is not confirmed yet (Waiting): what it holds is still held,  *)
(* and a copy from after it landed shows it.                                *)
Held(u)  == MarketsOf(account[u])
Shown(u) == MarketsOf(copy[u].data)

IsSent(t) ==
    /\ t = [id |-> t.id, user |-> t.user, opens |-> t.opens, marks |-> t.marks,
            landed |-> t.landed, parties |-> t.parties, held |-> t.held]
    /\ t.user \in SubAccount /\ t.opens \in UserAccount /\ t.marks \in SUBSET Market
    /\ t.landed \in 0 .. head
    /\ t.held \in [SubAccount -> SUBSET Market]

Waiting(t) ==
    /\ t.landed = 0 => \A u \in SubAccount : t.held[u] = {}
    /\ t.landed # 0 =>
          /\ \A u \in SubAccount : t.held[u] \subseteq Held(u)
          /\ \A u \in SubAccount : copy[u].slot >= t.landed => t.held[u] \subseteq Shown(u)

IsCovered(u) ==
    /\ assured[u] \subseteq Held(u)
    /\ copy[u].slot # undefined =>
          \A m \in assured[u] : lastSlotCache[m] > copy[u].slot \/ m \in Shown(u)

IInv ==
    /\ TypeOK
    /\ \A t \in sent : IsSent(t) /\ Waiting(t)
    /\ \A u \in SubAccount : IsCovered(u)

LEMMA MarketsAre == ASSUME NEW a \in UserAccount PROVE MarketsOf(a) \in SUBSET Market
BY QuoteAssumption DEF UserAccount, MarketsOf, Market

LEMMA InitIInv == Init => IInv
<1> SUFFICES ASSUME Init PROVE IInv
  OBVIOUS
<1>1. NoPositions \in UserAccount
  BY OpensAre
<1>2. TypeOK
  BY <1>1, BoundsAssumption DEF Init, TypeOK, Slot, undefined
<1>3. \A u \in SubAccount : IsCovered(u)
  BY DEF Init, IsCovered
<1> QED
  BY <1>2, <1>3 DEF Init, IInv

(* The accounts change and with them what is held of the transactions;      *)
(* what was seen of the client's side stays.                                *)
LEMMA NewSlotKeeps ==
    ASSUME IInv, NEW next \in [SubAccount -> UserAccount], NEW transactions,
           NewSlot(next, transactions),
           \A t \in transactions :
              /\ IsSent(t)'
              /\ t.landed = 0 => \A u \in SubAccount : t.held[u] = {}
              /\ t.landed # 0 => \A u \in SubAccount :
                    copy[u].slot >= t.landed => t.held[u] \subseteq Shown(u)
    PROVE  IInv'
<1>1. /\ head \in 0 .. MaxSlot /\ head < MaxSlot /\ head' = head + 1 /\ account' = next
      /\ assured' = StillHeld(assured, next)
      /\ sent' = {[t EXCEPT !.held = StillHeld(t.held, next)] : t \in transactions}
      /\ UNCHANGED <<copy, lastSlotCache, mustInclude, activeSubAccountId>>
  BY DEF NewSlot, client, IInv, TypeOK, Slot
<1>2. MaxSlot \in Nat /\ head \in Nat
  BY <1>1, BoundsAssumption
<1>3. \A held \in [SubAccount -> SUBSET Market] : StillHeld(held, next) \in [SubAccount -> SUBSET Market]
  BY DEF StillHeld
<1>4. \A held, u : u \in SubAccount => StillHeld(held, next)[u] = held[u] \cap Held(u)'
  BY <1>1 DEF StillHeld, Held
<1>5. \A u : Shown(u)' = Shown(u)
  BY <1>1 DEF Shown
<1>6. TypeOK'
  <2>1. 0 .. head \subseteq 0 .. head' /\ head' \in 0 .. MaxSlot
    BY <1>1, <1>2
  <2>2. \A t \in sent' : t.user \in SubAccount /\ t.landed \in 0 .. head'
    BY <1>1 DEF IsSent
  <2> QED
    BY <1>1, <1>3, <2>1, <2>2 DEF IInv, TypeOK, Slot
<1>7. ASSUME NEW t \in sent' PROVE IsSent(t)' /\ Waiting(t)'
  <2>1. PICK o \in transactions : t = [o EXCEPT !.held = StillHeld(o.held, next)]
    BY <1>1
  <2>2. /\ t.user = o.user /\ t.opens = o.opens /\ t.marks = o.marks /\ t.landed = o.landed
        /\ t.parties = o.parties /\ t.held = StillHeld(o.held, next)
        /\ t = [id |-> t.id, user |-> t.user, opens |-> t.opens, marks |-> t.marks,
                landed |-> t.landed, parties |-> t.parties, held |-> t.held]
    BY <2>1 DEF IsSent
  <2>3. IsSent(t)'
    BY <1>3, <2>2 DEF IsSent
  <2>4. \A u \in SubAccount : t.held[u] = o.held[u] \cap Held(u)'
    BY <1>4, <2>2
  <2>5. Waiting(t)'
    BY <1>1, <1>5, <2>2, <2>4 DEF Waiting
  <2> QED
    BY <2>3, <2>5
<1>8. ASSUME NEW u \in SubAccount PROVE IsCovered(u)'
  <2>1. assured'[u] = assured[u] \cap Held(u)'
    BY <1>1, <1>4
  <2> QED
    BY <1>1, <1>5, <2>1 DEF IsCovered, IInv
<1> QED
  BY <1>6, <1>7, <1>8 DEF IInv

(* The transactions stay as they are when others act on an account.         *)
LEMMA OthersAct ==
    ASSUME IInv, NEW next \in [SubAccount -> UserAccount], NewSlot(next, sent)
    PROVE  IInv'
<1>1. head' = head + 1 /\ head \in Nat
  BY BoundsAssumption DEF NewSlot, IInv, TypeOK, Slot
<1>2. 0 .. head \subseteq 0 .. head'
  BY <1>1
<1>3. \A t \in sent : IsSent(t)'
  BY <1>2 DEF IsSent, IInv
<1> QED
  BY <1>3, NewSlotKeeps DEF IInv, Waiting

LEMMA PositionClosesKeeps ==
    ASSUME IInv, NEW u \in SubAccount, NEW m \in Market, PositionCloses(u, m)
    PROVE  IInv'
<1> DEFINE next == [account EXCEPT ![u] =
                       [perp |-> @.perp \ {m}, spot |-> @.spot \ {m}, orders |-> @.orders \ {m}]]
<1>1. next \in [SubAccount -> UserAccount]
  BY DEF IInv, TypeOK, UserAccount
<1>2. NewSlot(next, sent)
  BY DEF PositionCloses
<1> HIDE DEF next
<1> QED
  BY <1>1, <1>2, OthersAct

LEMMA PositionOpensKeeps ==
    ASSUME IInv, NEW u \in SubAccount, NEW p \in PerpMarket, PositionOpens(u, p)
    PROVE  IInv'
<1> DEFINE next == [account EXCEPT ![u].perp = @ \cup {p}]
<1>1. next \in [SubAccount -> UserAccount]
  BY DEF IInv, TypeOK, UserAccount
<1>2. NewSlot(next, sent)
  BY DEF PositionOpens
<1> HIDE DEF next
<1> QED
  BY <1>1, <1>2, OthersAct

(* A transaction lands: the copies are older, and so are the entries of the *)
(* caches.                                                                  *)
LEMMA LandsKeeps == ASSUME IInv, NEW t \in sent, Lands(t) PROVE IInv'
<1> DEFINE next == [u \in SubAccount |->
                       IF u \in Parties(t)
                       THEN [perp   |-> account[u].perp \cup t.opens.perp,
                             spot   |-> account[u].spot \cup t.opens.spot,
                             orders |-> account[u].orders \cup t.opens.orders]
                       ELSE account[u]]
           marked == [u \in SubAccount |-> IF u \in Parties(t) THEN t.marks ELSE {}]
<1> SUFFICES ASSUME NEW landed, landed = [t EXCEPT !.landed = head + 1, !.held = marked] PROVE IInv'
  OBVIOUS
<1> DEFINE transactions == (sent \ {t}) \cup {landed}
<1>1. next \in [SubAccount -> UserAccount]
  BY DEF IInv, IsSent, TypeOK, UserAccount
<1>2. NewSlot(next, transactions)
  BY DEF Lands
<1>3. IsSent(t) /\ marked \in [SubAccount -> SUBSET Market]
  BY DEF IInv, IsSent
<1> HIDE DEF next, marked, transactions
<1>4. /\ landed.user = t.user /\ landed.opens = t.opens /\ landed.marks = t.marks
      /\ landed.landed = head + 1 /\ landed.parties = t.parties /\ landed.held = marked
      /\ landed = [id |-> landed.id, user |-> landed.user, opens |-> landed.opens, marks |-> landed.marks,
                   landed |-> landed.landed, parties |-> landed.parties, held |-> landed.held]
  BY <1>3 DEF IsSent
<1>5. head' = head + 1 /\ head \in Nat
  BY <1>2, BoundsAssumption DEF NewSlot, IInv, TypeOK, Slot
<1>6. 0 .. head \subseteq 0 .. head' /\ head + 1 \in 0 .. head'
  BY <1>5
<1>7. \A o \in sent : IsSent(o)' /\ o.marks \in SUBSET Market
  BY <1>6 DEF IsSent, IInv
<1>8. IsSent(landed)'
  <2>1. landed.user \in SubAccount /\ landed.opens \in UserAccount /\ landed.marks \in SUBSET Market
    BY <1>3, <1>4 DEF IsSent
  <2>2. landed.landed \in 0 .. head' /\ landed.held \in [SubAccount -> SUBSET Market]
    BY <1>3, <1>4, <1>6
  <2> QED
    BY <1>4, <2>1, <2>2 DEF IsSent
<1>9. /\ landed.landed # 0
      /\ \A u \in SubAccount : ~(copy[u].slot >= landed.landed)
  BY <1>4, <1>5, <1>7 DEF IInv, TypeOK, undefined
<1>10. ASSUME NEW o \in transactions
       PROVE  /\ IsSent(o)'
              /\ o.landed = 0 => \A u \in SubAccount : o.held[u] = {}
              /\ o.landed # 0 => \A u \in SubAccount :
                    copy[u].slot >= o.landed => o.held[u] \subseteq Shown(u)
  <2>1. CASE o = landed
    BY <1>8, <1>9, <2>1
  <2>2. CASE o \in sent
    BY <1>7, <2>2 DEF IInv, Waiting
  <2> QED
    BY <2>1, <2>2 DEF transactions
<1> QED
  BY <1>1, <1>2, <1>10, NewSlotKeeps

-----------------------------------------------------------------------------
(* The client.                                                              *)
LEMMA CopyUpdatedKeeps == ASSUME IInv, NEW u \in SubAccount, CopyUpdated(u) PROVE IInv'
<1>1. /\ copy' = [copy EXCEPT ![u] = [slot |-> head, data |-> account[u]]]
      /\ UNCHANGED <<head, account, lastSlotCache, mustInclude, activeSubAccountId, sent, assured>>
  BY DEF CopyUpdated, chain
<1>2. head \in 0 .. head
  BY DEF IInv, TypeOK, Slot
<1>3. TypeOK'
  BY <1>1, <1>2 DEF IInv, TypeOK, Slot
<1>4. \A v \in SubAccount : Held(v)' = Held(v)
  BY <1>1 DEF Held
<1>5. \A v \in SubAccount : IF v = u THEN Shown(v)' = Held(v)
                            ELSE Shown(v)' = Shown(v) /\ copy'[v] = copy[v]
  BY <1>1 DEF Shown, Held, IInv, TypeOK
<1>6. \A t \in sent : IsSent(t)'
  BY <1>1 DEF IInv, IsSent
<1>7. \A t \in sent : Waiting(t)'
  BY <1>1, <1>4, <1>5 DEF IInv, Waiting
<1>8. \A v \in SubAccount : IsCovered(v)'
  BY <1>1, <1>4, <1>5 DEF IInv, IsCovered
<1> QED
  BY <1>1, <1>3, <1>6, <1>7, <1>8 DEF IInv

(* What a switch to another sub-account or to another choice of markets     *)
(* changes is not in the invariant but for its type.                        *)
LEMMA ChoiceKeeps ==
    ASSUME IInv, UNCHANGED <<chain, copy, lastSlotCache, sent, assured>>,
           mustInclude' \subseteq Market, activeSubAccountId' \in SubAccount
    PROVE  IInv'
<1>1. UNCHANGED <<head, account, copy, lastSlotCache, sent, assured>>
  BY DEF chain
<1>2. TypeOK'
  BY <1>1 DEF IInv, TypeOK, Slot
<1>3. \A t \in sent : IsSent(t)' /\ Waiting(t)'
  BY <1>1 DEF IInv, IsSent, Waiting, Held, Shown
<1>4. \A u \in SubAccount : IsCovered(u)'
  BY <1>1 DEF IInv, IsCovered, Held, Shown
<1> QED
  BY <1>1, <1>2, <1>3, <1>4 DEF IInv

(* Building evicts an entry only if the active copy is as new as it, and    *)
(* then that copy shows the market; the sub-accounts whose copies may be    *)
(* older lose the assurance.                                                *)
LEMMA EvictedIsShown ==
    ASSUME IInv, NEW method, EvictStale(method, copy[activeSubAccountId].slot)
    PROVE  /\ lastSlotCache' \in [Market -> 0 .. head]
           /\ assured' \in [SubAccount -> SUBSET Market]
           /\ \A u \in SubAccount : assured'[u] \subseteq assured[u]
           /\ \A u \in SubAccount : copy[u].slot # undefined => \A m \in assured'[u] :
                 lastSlotCache'[m] > copy[u].slot \/ m \in Shown(u)
<1> DEFINE gone == IF UsesCache(method) THEN Evicted(copy[activeSubAccountId].slot) ELSE {}
<1>1. /\ lastSlotCache' = [m \in Market |-> IF m \in gone THEN 0 ELSE lastSlotCache[m]]
      /\ assured' = [u \in SubAccount |->
             IF u = activeSubAccountId THEN assured[u] ELSE assured[u] \ gone]
  BY DEF EvictStale
<1>2. \A m \in gone : m \in Market /\ (copy[activeSubAccountId].slot # undefined
                                      => ~(lastSlotCache[m] > copy[activeSubAccountId].slot))
  BY DEF Evicted, Cached, IsGreater
<1> HIDE DEF gone
<1>3. /\ head \in Nat /\ lastSlotCache \in [Market -> 0 .. head]
      /\ assured \in [SubAccount -> SUBSET Market]
  BY DEF IInv, TypeOK, Slot
<1>4. 0 \in 0 .. head
  BY <1>3
<1>5. lastSlotCache' \in [Market -> 0 .. head] /\ assured' \in [SubAccount -> SUBSET Market]
  BY <1>1, <1>3, <1>4
<1>6. \A u \in SubAccount : assured'[u] \subseteq assured[u]
  BY <1>1
<1>7. ASSUME NEW u \in SubAccount, copy[u].slot # undefined, NEW m \in assured'[u]
      PROVE  lastSlotCache'[m] > copy[u].slot \/ m \in Shown(u)
  <2>1. m \in assured[u] /\ m \in Market
    BY <1>3, <1>6
  <2>2. lastSlotCache[m] > copy[u].slot \/ m \in Shown(u)
    BY <1>7, <2>1 DEF IInv, IsCovered
  <2>3. CASE m \in gone
    <3>1. u = activeSubAccountId
      BY <1>1, <2>3
    <3> QED
      BY <1>2, <1>7, <2>2, <2>3, <3>1
  <2>4. CASE m \notin gone
    BY <1>1, <2>1, <2>2, <2>4
  <2> QED
    BY <2>3, <2>4
<1> QED
  BY <1>5, <1>6, <1>7

(* What is sent next holds nothing yet.                                     *)
LEMMA TrackKeeps ==
    ASSUME IInv, NEW u \in SubAccount, NEW method, NEW parties, SoundMethod(method),
           Track(u, method, parties), head' = head
    PROVE  \A t \in sent' : IsSent(t)' /\ (t \in sent \/ (t.landed = 0 /\
                  \A v \in SubAccount : t.held[v] = {}))
<1> DEFINE t == [id |-> FreeId, user |-> u, opens |-> method.opens, marks |-> method.marks,
                 landed |-> 0, parties |-> parties, held |-> [v \in SubAccount |-> {}]]
<1>1. sent' = sent \/ sent' = sent \cup {t}
  BY DEF Track
<1>2. \A o \in sent : IsSent(o)'
  BY DEF IInv, IsSent
<1> SUFFICES ASSUME NEW o, o = t PROVE IsSent(o)' /\ o.landed = 0 /\ \A v \in SubAccount : o.held[v] = {}
  BY <1>1, <1>2
<1>3. IsSent(o)'
  BY BoundsAssumption DEF SoundMethod, IsSent, IInv, TypeOK, Slot
<1> QED
  BY <1>3

LEMMA SendKeeps ==
    ASSUME IInv, NEW u \in SubAccount, NEW method, NEW parties, SoundMethod(method),
           Send(u, method, parties)
    PROVE  IInv'
<1>1. /\ UNCHANGED <<head, account, copy, mustInclude, activeSubAccountId>>
      /\ Track(u, method, parties)
      /\ EvictStale(method, copy[activeSubAccountId].slot)
  BY DEF Send, chain
<1>2. /\ lastSlotCache' \in [Market -> 0 .. head]
      /\ assured' \in [SubAccount -> SUBSET Market]
      /\ \A v \in SubAccount : assured'[v] \subseteq assured[v]
      /\ \A v \in SubAccount : copy[v].slot # undefined => \A m \in assured'[v] :
            lastSlotCache'[m] > copy[v].slot \/ m \in Shown(v)
  BY <1>1, EvictedIsShown
<1>3. \A t \in sent' : IsSent(t)' /\ (t \in sent \/ (t.landed = 0 /\
             \A v \in SubAccount : t.held[v] = {}))
  BY <1>1, TrackKeeps
<1>4. \A v : Held(v)' = Held(v) /\ Shown(v)' = Shown(v)
  BY <1>1 DEF Held, Shown
<1>5. TypeOK'
  BY <1>1, <1>2, <1>3 DEF IInv, TypeOK, Slot, IsSent
<1>6. ASSUME NEW t \in sent' PROVE Waiting(t)'
  <2>1. CASE t \notin sent
    BY <1>3, <2>1 DEF Waiting
  <2>2. CASE t \in sent
    BY <1>1, <1>4, <2>2 DEF IInv, Waiting
  <2> QED
    BY <2>1, <2>2
<1>7. \A v \in SubAccount : IsCovered(v)'
  BY <1>1, <1>2, <1>4 DEF IInv, IsCovered
<1> QED
  BY <1>3, <1>5, <1>6, <1>7 DEF IInv

(* A deposit fetches the active account first: it is a delivery of that     *)
(* account and a send.                                                      *)
LEMMA SendDepositKeeps ==
    ASSUME IInv, NEW u \in SubAccount, NEW s \in TradedSpot, SendDeposit(u, s)
    PROVE  IInv'
<1> SUFFICES ASSUME NEW a, a = activeSubAccountId PROVE IInv'
  OBVIOUS
<1> DEFINE method == deposit(account[activeSubAccountId], s)
<1>1. /\ copy' = [copy EXCEPT ![a] = [slot |-> head, data |-> account[a]]]
      /\ UNCHANGED <<head, account, mustInclude, activeSubAccountId>>
      /\ Track(u, method, {}) /\ EvictStale(method, head)
  BY DEF SendDeposit, chain
<1>2. SoundMethod(method)
  BY DepositsAreSound DEF IInv, TypeOK
<1> DEFINE gone == IF UsesCache(method) THEN Evicted(head) ELSE {}
<1>3. /\ lastSlotCache' = [m \in Market |-> IF m \in gone THEN 0 ELSE lastSlotCache[m]]
      /\ assured' = [v \in SubAccount |-> IF v = a THEN assured[v] ELSE assured[v] \ gone]
  BY <1>1 DEF EvictStale
<1> HIDE DEF method, gone
<1>4. /\ head \in Nat /\ lastSlotCache \in [Market -> 0 .. head] /\ a \in SubAccount
      /\ assured \in [SubAccount -> SUBSET Market] /\ account[a] \in UserAccount
  BY DEF IInv, TypeOK, Slot
<1>5. head \in 0 .. head /\ 0 \in 0 .. head
  BY <1>4
<1>6. \A t \in sent' : IsSent(t)' /\ (t \in sent \/ (t.landed = 0 /\
             \A v \in SubAccount : t.held[v] = {}))
  BY <1>1, <1>2, TrackKeeps
<1>7. TypeOK'
  <2>1. copy' \in [SubAccount -> [slot : {undefined} \cup 0 .. head, data : UserAccount]]
    BY <1>1, <1>4, <1>5 DEF IInv, TypeOK
  <2>2. lastSlotCache' \in [Market -> 0 .. head] /\ assured' \in [SubAccount -> SUBSET Market]
    BY <1>3, <1>4, <1>5
  <2> QED
    BY <1>1, <1>6, <2>1, <2>2 DEF IInv, TypeOK, Slot, IsSent
<1>8. /\ \A v \in SubAccount : Held(v)' = Held(v)
      /\ \A v \in SubAccount : v # a => Shown(v)' = Shown(v) /\ copy'[v] = copy[v]
      /\ Shown(a)' = Held(a)
  BY <1>1, <1>4 DEF Held, Shown, IInv, TypeOK
<1>9. ASSUME NEW t \in sent' PROVE Waiting(t)'
  <2>1. CASE t \notin sent
    BY <1>6, <2>1 DEF Waiting
  <2>2. CASE t \in sent
    <3>1. Waiting(t) /\ IsSent(t)
      BY <2>2 DEF IInv
    <3>2. ASSUME t.landed # 0, NEW v \in SubAccount
          PROVE  /\ t.held[v] \subseteq Held(v)'
                 /\ copy'[v].slot >= t.landed => t.held[v] \subseteq Shown(v)'
      <4>1. CASE v = a
        BY <1>8, <3>1, <3>2, <4>1 DEF Waiting
      <4>2. CASE v # a
        BY <1>8, <3>1, <3>2, <4>2 DEF Waiting
      <4> QED
        BY <4>1, <4>2
    <3> QED
      BY <3>1, <3>2 DEF Waiting
  <2> QED
    BY <2>1, <2>2
<1>10. ASSUME NEW v \in SubAccount PROVE IsCovered(v)'
  <2>1. IsCovered(v)
    BY DEF IInv
  <2>2. CASE v = a
    <3>1. assured'[a] = assured[a] /\ assured[a] \subseteq Held(a)
      BY <1>3, <1>4, <2>1, <2>2 DEF IsCovered
    <3> QED
      BY <1>8, <2>2, <3>1 DEF IsCovered
  <2>3. CASE v # a
    <3>1. \A m \in assured'[v] : m \in assured[v] /\ lastSlotCache'[m] = lastSlotCache[m]
      BY <1>3, <1>4, <2>3
    <3> QED
      BY <1>8, <2>1, <2>3, <3>1 DEF IsCovered
  <2> QED
    BY <2>2, <2>3
<1> QED
  BY <1>6, <1>7, <1>9, <1>10 DEF IInv

LEMMA ClientSendsKeeps == ASSUME IInv, ClientSends PROVE IInv'
<1>1. activeSubAccountId \in SubAccount /\ \A u \in SubAccount : copy[u].data \in UserAccount
  BY DEF IInv, TypeOK
<1>2. CASE \E u \in SubAccount : \E method \in OwnSends[copy[u].data] : Send(u, method, {})
  BY <1>1, <1>2, OwnSendsAreSound, SendKeeps
<1>3. CASE \E u \in SubAccount, to \in SubAccount, s \in TradedSpot :
              u # to /\ Send(u, transferDeposit(copy[u].data, s), {u, to})
  <2>1. PICK u \in SubAccount, to \in SubAccount, s \in TradedSpot :
                Send(u, transferDeposit(copy[u].data, s), {u, to})
    BY <1>3
  <2>2. SoundMethod(transferDeposit(copy[u].data, s))
    BY <1>1, DepositsAreSound
  <2> QED
    BY <2>1, <2>2, SendKeeps
<1>4. CASE \E u \in SubAccount, s \in TradedSpot : SendDeposit(u, s)
  BY <1>4, SendDepositKeeps
<1>5. CASE \E method \in OtherSends : Send(activeSubAccountId, method, {})
  BY <1>1, <1>5, OtherSendsAreSound, SendKeeps
<1> QED
  BY <1>2, <1>3, <1>4, <1>5 DEF ClientSends

(* A sender that throws leaves a transaction without marks, or none.        *)
LEMMA SendFailsKeeps == ASSUME IInv, NEW t \in sent, SendFails(t) PROVE IInv'
<1>1. UNCHANGED <<head, account, copy, lastSlotCache, mustInclude, activeSubAccountId, assured>>
  BY DEF SendFails, chain, client
<1> SUFFICES ASSUME NEW failed, failed = [t EXCEPT !.marks = {}] PROVE IInv'
  OBVIOUS
<1>2. \/ sent' = sent \ {t}
      \/ t.landed = 0 /\ sent' = (sent \ {t}) \cup {failed}
  BY DEF SendFails
<1>3. IsSent(t)
  BY DEF IInv
<1>4. /\ failed.user = t.user /\ failed.opens = t.opens /\ failed.marks = {}
      /\ failed.landed = t.landed /\ failed.parties = t.parties /\ failed.held = t.held
      /\ failed = [id |-> failed.id, user |-> failed.user, opens |-> failed.opens, marks |-> failed.marks,
                   landed |-> failed.landed, parties |-> failed.parties, held |-> failed.held]
  BY <1>3 DEF IsSent
<1>5. IsSent(failed)'
  BY <1>1, <1>3, <1>4 DEF IsSent
<1>6. \A o \in sent : IsSent(o)' /\ Waiting(o)'
  BY <1>1 DEF IInv, IsSent, Waiting, Held, Shown
<1>7. t.landed = 0 => Waiting(failed)'
  BY <1>4 DEF IInv, Waiting
<1>8. \A o \in sent' : IsSent(o)' /\ Waiting(o)'
  BY <1>2, <1>5, <1>6, <1>7
<1>9. TypeOK'
  BY <1>1, <1>8 DEF IInv, TypeOK, Slot, IsSent
<1>10. \A u \in SubAccount : IsCovered(u)'
  BY <1>1 DEF IInv, IsCovered, Held, Shown
<1> QED
  BY <1>8, <1>9, <1>10 DEF IInv

(* The entries that are marked become those of a slot after the transaction *)
(* landed: a copy from before is older than its entry, one from after shows *)
(* what the transaction still holds.  What was assured before stays so if   *)
(* the entry does not become older.                                         *)
LEMMA ConfirmedKeeps ==
    ASSUME IInv, NEW t \in sent, NEW slot \in Slot, Confirmed(t, slot) PROVE IInv'
<1> SUFFICES ASSUME NEW marked, marked = Marked(t) PROVE IInv'
  OBVIOUS
<1>1. /\ UNCHANGED <<head, account, copy, mustInclude, activeSubAccountId>>
      /\ t.landed # 0 /\ slot \in t.landed .. head
      /\ lastSlotCache' = [m \in Market |-> IF m \in marked THEN slot ELSE lastSlotCache[m]]
      /\ assured' = [u \in SubAccount |->
             (assured[u] \ {m \in marked : lastSlotCache[m] > slot}) \cup (t.held[u] \cap marked)]
      /\ sent' = sent \ {t}
  BY DEF Confirmed, chain
<1>2. /\ head \in Nat /\ lastSlotCache \in [Market -> 0 .. head]
      /\ assured \in [SubAccount -> SUBSET Market]
      /\ copy \in [SubAccount -> [slot : {undefined} \cup 0 .. head, data : UserAccount]]
  BY DEF IInv, TypeOK, Slot
<1>3. IsSent(t) /\ Waiting(t) /\ marked \subseteq t.marks /\ t.marks \in SUBSET Market
  BY DEF IInv, IsSent, Marked
<1>4. t.landed \in Nat /\ slot \in Nat /\ t.landed <= slot /\ slot \in 0 .. head
  BY <1>1, <1>2, <1>3 DEF IsSent
<1>5. \A u : Held(u)' = Held(u) /\ Shown(u)' = Shown(u)
  BY <1>1 DEF Held, Shown
<1>6. TypeOK'
  <2>1. lastSlotCache' \in [Market -> 0 .. head]
    BY <1>1, <1>2, <1>4
  <2>2. assured' \in [SubAccount -> SUBSET Market]
    BY <1>1, <1>2, <1>3
  <2> QED
    BY <1>1, <2>1, <2>2 DEF IInv, TypeOK, Slot
<1>7. ASSUME NEW o \in sent' PROVE IsSent(o)' /\ Waiting(o)'
  <2>1. o \in sent /\ o # t /\ IsSent(o) /\ Waiting(o)
    BY <1>1 DEF IInv
  <2>2. IsSent(o)'
    BY <1>1, <2>1 DEF IsSent
  <2>3. Waiting(o)'
    BY <1>1, <1>5, <2>1 DEF Waiting
  <2> QED
    BY <2>2, <2>3
<1>8. ASSUME NEW u \in SubAccount PROVE IsCovered(u)'
  <2>1. IsCovered(u) /\ t.held[u] \subseteq Held(u)
        /\ (copy[u].slot >= t.landed => t.held[u] \subseteq Shown(u))
    BY <1>1, <1>3 DEF IInv, Waiting
  <2>2. /\ \A m \in assured'[u] : m \in assured[u] \/ (m \in t.held[u] /\ m \in marked)
        /\ \A m \in assured'[u] \cap marked : m \in t.held[u] \/ ~(lastSlotCache[m] > slot)
    BY <1>1
  <2>3. copy'[u].slot = copy[u].slot /\ copy[u].slot \in Int
    BY <1>1, <1>2 DEF undefined
  <2>4. ASSUME copy[u].slot # undefined, NEW m \in assured'[u]
        PROVE  lastSlotCache'[m] > copy[u].slot \/ m \in Shown(u)
    <3>1. m \in Market
      BY <1>2, <1>3, <2>2, <2>4
    <3>2. CASE m \notin marked
      <4>1. m \in assured[u] /\ lastSlotCache'[m] = lastSlotCache[m]
        BY <1>1, <2>2, <2>4, <3>1, <3>2
      <4> QED
        BY <2>1, <2>4, <4>1 DEF IsCovered
    <3>3. CASE m \in marked
      <4>1. lastSlotCache'[m] = slot
        BY <1>1, <3>1, <3>3
      <4>2. lastSlotCache[m] \in Nat
        BY <1>2, <3>1
      <4>3. CASE m \in assured[u] /\ ~(lastSlotCache[m] > slot)
        <5>1. lastSlotCache[m] > copy[u].slot \/ m \in Shown(u)
          BY <2>1, <2>4, <4>3 DEF IsCovered
        <5> QED
          BY <1>4, <2>3, <4>1, <4>2, <4>3, <5>1
      <4>4. CASE m \in t.held[u]
        BY <1>4, <2>1, <2>3, <4>1, <4>4
      <4> QED
        BY <2>2, <2>4, <3>3, <4>3, <4>4
    <3> QED
      BY <3>2, <3>3
  <2> QED
    BY <1>5, <2>1, <2>2, <2>3, <2>4 DEF IsCovered
<1> QED
  BY <1>6, <1>7, <1>8 DEF IInv

LEMMA NextKeeps == IInv /\ [Next]_vars => IInv'
<1> SUFFICES ASSUME IInv, [Next]_vars PROVE IInv'
  OBVIOUS
<1>1. CASE \E u \in SubAccount, m \in Market : PositionCloses(u, m)
  BY <1>1, PositionClosesKeeps
<1>2. CASE \E u \in SubAccount, p \in PerpMarket : PositionOpens(u, p)
  BY <1>2, PositionOpensKeeps
<1>3. CASE \E u \in SubAccount : CopyUpdated(u)
  BY <1>3, CopyUpdatedKeeps
<1>4. CASE \E u \in SubAccount : switchActiveUser(u)
  BY <1>4, ChoiceKeeps DEF switchActiveUser, IInv, TypeOK
<1>5. CASE \E m \in MustInclude : mustIncludeMarketsInIx({m})
  BY <1>5, ChoiceKeeps, ArgumentsAssumption DEF mustIncludeMarketsInIx, IInv, TypeOK
<1>6. CASE ClientSends
  BY <1>6, ClientSendsKeeps
<1>7. CASE \E t \in sent : Lands(t)
  BY <1>7, LandsKeeps
<1>8. CASE \E t \in sent : SendFails(t)
  BY <1>8, SendFailsKeeps
<1>9. CASE \E t \in sent, slot \in Slot : Confirmed(t, slot)
  BY <1>9, ConfirmedKeeps
<1>10. CASE UNCHANGED vars
  <2>1. UNCHANGED <<chain, copy, lastSlotCache, sent, assured>> /\ UNCHANGED <<mustInclude, activeSubAccountId>>
    BY <1>10 DEF vars, client
  <2> QED
    BY <2>1, ChoiceKeeps DEF IInv, TypeOK
<1> QED
  BY <1>1, <1>2, <1>3, <1>4, <1>5, <1>6, <1>7, <1>8, <1>9, <1>10 DEF Next

-----------------------------------------------------------------------------
(* No copy, cache entry or assured market is of a slot the chain has not    *)
(* reached, and all of them are of their types.                             *)
THEOREM TypeCorrect == Spec => []TypeOK
<1>1. IInv => TypeOK
  BY DEF IInv
<1> QED
  BY <1>1, InitIInv, NextKeeps, PTL DEF Spec

LEMMA InvNames == IInv => OwnPositionsAreNamed
<1> SUFFICES ASSUME IInv, NEW ix,
                    NEW u, u = activeSubAccountId, NEW own, own = copy[u].data,
                    copy[u].slot # undefined, ix.useMarketLastSlotCache, own \in ix.users
             PROVE  assured[u] \subseteq Named(AccountsOf(ix, copy[u].slot))
  BY DEF OwnPositionsAreNamed
<1>1. u \in SubAccount
  BY DEF IInv, TypeOK
<1>2. \A m \in assured[u] : lastSlotCache[m] > copy[u].slot \/ m \in MarketsOf(own)
  BY <1>1 DEF IInv, IsCovered, Shown
<1>3. assured[u] \subseteq Market
  BY <1>1 DEF IInv, TypeOK
<1>4. assured[u] \subseteq Cached(copy[u].slot) \cup MarketsOf(own)
  BY <1>2, <1>3 DEF Cached, IsGreater
<1>5. AccountsOf(ix, copy[u].slot) = getRemainingAccounts(ix, Cached(copy[u].slot), mustInclude)
  BY DEF AccountsOf
<1>6. Cached(copy[u].slot) \in SUBSET Market
  BY DEF Cached
<1>7. /\ Cached(copy[u].slot) \subseteq Named(AccountsOf(ix, copy[u].slot))
      /\ MarketsOf(own) \subseteq Named(AccountsOf(ix, copy[u].slot))
  BY <1>5, <1>6, ListNames
<1> QED
  BY <1>4, <1>7

(* Read your own writes, for any number of sub-accounts, markets, slots and *)
(* transactions in flight: what the active sub-account has held since one   *)
(* of the client's confirmed transactions is named by every instruction     *)
(* that uses the caches, however old the copy of the account is, unless it  *)
(* is the one that was given to addUser() and has no slot                   *)
(* (getRemainingAccounts and the methods that mark the caches).             *)
THEOREM ConfirmedPositionsAreNamed == Spec => []OwnPositionsAreNamed
BY InvNames, InitIInv, NextKeeps, PTL DEF Spec

(* Every list of accounts of every instruction, the client's and a vault's, *)
(* has a market writable exactly when the instruction writes it, whatever   *)
(* positions, cache entries and chosen markets are merged into it, and a    *)
(* vault's list names all that its user holds.                              *)
THEOREM FlagsAreTheInstructions == Spec => []WritableIffWritten
<1>1. WritableIffWritten
  BY NothingIsWronglyFlagged DEF WritableIffWritten
<1> QED
  BY <1>1, PTL
=============================================================================
