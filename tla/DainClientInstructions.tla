----------------------- MODULE DainClientInstructions -----------------------
(***************************************************************************)
(* dainClient.ts: the accounts a program instruction names after its fixed  *)
(* ones; what each instruction of the client asks of getRemainingAccounts   *)
(* for them, and what each sending method adds to it.                       *)
(*                                                                         *)
(* A list of accounts is a function from accounts to their isWritable flag: *)
(* the three Maps of the code, keyed by market index and by oracle, joined. *)
(* The maps are filled layer by layer and a later layer overwrites the      *)
(* flags of an earlier one: f ++ g is f laid over g.                        *)
(*                                                                         *)
(* In the parameters, own is the account of the client's sub-account that   *)
(* the instruction acts for, as the client's copy has it, other an account  *)
(* the caller passes (or the method fetches), p a perp and s a spot market. *)
(* An instruction is what it passes to getRemainingAccounts; its fixed      *)
(* accounts, arguments and data are left out.                               *)
(***************************************************************************)
CONSTANTS
    PerpMarket, SpotMarket,     \* market indexes (disjoint here)
    Quote,                      \* QUOTE_SPOT_MARKET_INDEX
    Oracle,                     \* Oracle[m]: the oracle account of market m
    DefaultOracle,              \* PublicKey.default: a spot market without oracle
    Prelaunch                   \* perp markets whose oracle is a prelaunch oracle

ASSUME QuoteAssumption == Quote \in SpotMarket
ASSUME MarketAssumption ==
    /\ PerpMarket \cap SpotMarket = {}
    /\ Prelaunch \subseteq PerpMarket
    /\ DOMAIN Oracle = PerpMarket \cup SpotMarket
    /\ \A m \in PerpMarket \cup SpotMarket : Oracle[m] \notin PerpMarket \cup SpotMarket

Market == PerpMarket \cup SpotMarket

(* What a User account holds: markets with an unavailable perp position,    *)
(* with an unavailable spot position, and with open spot orders.            *)
UserAccount == [perp : SUBSET PerpMarket, spot : SUBSET SpotMarket, orders : SUBSET SpotMarket]
NoPositions == [perp |-> {}, spot |-> {}, orders |-> {}]
MarketsOf(user) ==
    user.perp \cup user.spot \cup (IF user.orders = {} THEN {} ELSE {Quote})

f ++ g == [x \in DOMAIN f \cup DOMAIN g |-> IF x \in DOMAIN f THEN f[x] ELSE g[x]]

(* addSpotMarketToRemainingAccountMaps for each market of S.                *)
SpotLayer(S, writable) ==
    [m \in S |-> writable] ++
    [o \in {Oracle[m] : m \in S} \ {DefaultOracle} |-> FALSE]

(* addPerpMarketToRemainingAccountMaps for each market of P: the market, its *)
(* oracle, written only for a prelaunch market, and the quote market to read. *)
PerpLayer(P, writable) ==
    SpotLayer(IF P = {} THEN {} ELSE {Quote}, FALSE) ++
    [m \in P |-> writable] ++
    [o \in {Oracle[m] : m \in P} |->
        writable /\ \E m \in P \cap Prelaunch : Oracle[m] = o]

(* getRemainingAccountMapsForUsers.                                         *)
UsersLayer(accounts) ==
    PerpLayer(UNION {a.perp : a \in accounts}, FALSE) ++
    SpotLayer(UNION {a.spot \cup (IF a.orders = {} THEN {} ELSE {Quote}) : a \in accounts}, FALSE)

(* Mutant: the writable markets are added before the readable ones.         *)
WritableFirst(params, cached, must) ==
    UsersLayer(params.users)
    ++ PerpLayer(params.readablePerp \cup (must \cap PerpMarket), FALSE)
    ++ SpotLayer(params.readableSpot \cup (must \cap SpotMarket), FALSE)
    ++ SpotLayer(params.writableSpot, TRUE)
    ++ PerpLayer(params.writablePerp, TRUE)

(* getRemainingAccounts: params are the arguments, cached the markets that  *)
(* the last-slot caches add, must the markets of mustIncludeMarketsInIx.    *)
getRemainingAccounts(params, cached, must) ==
    SpotLayer(params.writableSpot, TRUE)
    ++ PerpLayer(params.writablePerp, TRUE)
    ++ SpotLayer(must \cap SpotMarket, FALSE)
    ++ SpotLayer(params.readableSpot, FALSE)
    ++ PerpLayer(must \cap PerpMarket, FALSE)
    ++ PerpLayer(params.readablePerp, FALSE)
    ++ SpotLayer(cached \cap SpotMarket, FALSE)
    ++ PerpLayer(cached \cap PerpMarket, FALSE)
    ++ UsersLayer(params.users)

Named(list) == DOMAIN list

-----------------------------------------------------------------------------
(* What instructions ask for.                                               *)
Names(accounts) ==
    [users |-> accounts, useMarketLastSlotCache |-> FALSE, readablePerp |-> {},
     readableSpot |-> {}, writablePerp |-> {}, writableSpot |-> {}]
NamesAndCached(accounts) == [Names(accounts) EXCEPT !.useMarketLastSlotCache = TRUE]

-----------------------------------------------------------------------------
(* Instructions of the account's owner.                                     *)

getUpdateUserMarginTradingEnabledIx(own) == Names({own})

getDepositInstruction(own, s) == [NamesAndCached({own}) EXCEPT !.writableSpot = {s}]
getDepositInstructionNewUser(s) == [Names({}) EXCEPT !.writableSpot = {s}]
getWithdrawIx(own, s) ==
    [NamesAndCached({own}) EXCEPT !.writableSpot = {s}, !.readableSpot = {Quote}]
getTransferDepositIx(from, s) == [NamesAndCached({from}) EXCEPT !.writableSpot = {s}]

getRemovePerpLpSharesIx(own, p) == [NamesAndCached({own}) EXCEPT !.writablePerp = {p}]
getAddPerpLpSharesIx(own, p) == [NamesAndCached({own}) EXCEPT !.writablePerp = {p}]

(* Without the cache: an order may be the first of a new account.           *)
getPlacePerpOrderIx(own, p) == [Names({own}) EXCEPT !.readablePerp = {p}]
getPlacePerpOrderIxNewUser(p, s) ==
    [Names({}) EXCEPT !.readablePerp = {p}, !.readableSpot = {s}]
getEnableHighLeverageModeIx(own) == Names({own})
getEnableHighLeverageModeIxNewUser(p, s) ==
    [Names({}) EXCEPT !.readablePerp = {p}, !.readableSpot = {s}]

getCancelOrderIx(own) == NamesAndCached({own})
getCancelOrderByUserIdIx(own) == NamesAndCached({own})
getCancelOrdersByIdsIx(own) == NamesAndCached({own})
getCancelOrdersIx(own, M) ==
    [NamesAndCached({own}) EXCEPT !.readablePerp = M \cap PerpMarket,
                                  !.readableSpot = M \cap SpotMarket]
getPlaceOrdersIx(own, M) ==
    [NamesAndCached({own}) EXCEPT !.readablePerp = M \cap PerpMarket,
                                  !.readableSpot = M \cap SpotMarket]
getModifyOrderIx(own) == NamesAndCached({own})
getModifyOrderByUserIdIx(own) == NamesAndCached({own})

getPlaceSpotOrderIx(own, s) ==
    [NamesAndCached({own}) EXCEPT !.readableSpot = {s, Quote}]
getSwapIx(own, out, in) ==
    [Names({own}) EXCEPT !.writableSpot = {out, in}, !.readableSpot = {Quote}]

getPlaceAndTakePerpOrderIx(own, maker, p) ==
    [NamesAndCached({own, maker}) EXCEPT !.writablePerp = {p}]
getPlaceAndMakePerpOrderIx(own, taker, p) ==
    [NamesAndCached({own, taker}) EXCEPT !.writablePerp = {p}]
getPlaceSwiftTakerPerpOrderIxs(taker, p) ==
    [NamesAndCached({taker}) EXCEPT !.readablePerp = {p}]
getPlaceAndMakeSwiftPerpOrderIxs(own, taker, p) ==
    [NamesAndCached({own, taker}) EXCEPT !.writablePerp = {p}]
getPlaceAndMatchRFQOrdersIxs(own, p) == [NamesAndCached({own}) EXCEPT !.writablePerp = {p}]
getPlaceAndTakeSpotOrderIx(own, maker, s) ==
    [NamesAndCached({own, maker}) EXCEPT !.writableSpot = {s, Quote}]
getPlaceAndMakeSpotOrderIx(own, taker, s) ==
    [NamesAndCached({own, taker}) EXCEPT !.writableSpot = {s, Quote}]

(* Liquidations name the liquidator's account, which takes over positions,  *)
(* and the account being liquidated.                                        *)
getLiquidatePerpIx(own, other, p) == [NamesAndCached({own, other}) EXCEPT !.writablePerp = {p}]
getLiquidatePerpWithFillIx(other, maker, p) ==
    [NamesAndCached({other, maker}) EXCEPT !.writablePerp = {p}]
getLiquidateSpotIx(own, other, asset, liability) ==
    [NamesAndCached({own, other}) EXCEPT !.writableSpot = {liability, asset}]
getLiquidateBorrowForPerpPnlIx(own, other, p, liability) ==
    [Names({own, other}) EXCEPT !.writablePerp = {p}, !.writableSpot = {liability}]
getLiquidatePerpPnlForDepositIx(own, other, p, asset) ==
    [Names({own, other}) EXCEPT !.writablePerp = {p}, !.writableSpot = {asset}]
getResolvePerpBankruptcyIx(own, other, p) ==
    [Names({own, other}) EXCEPT !.writablePerp = {p}, !.writableSpot = {Quote}]
getResolveSpotBankruptcyIx(own, other, s) ==
    [Names({own, other}) EXCEPT !.writableSpot = {s}]
getResolvePerpPnlDeficitIx(own, p, s) ==
    [NamesAndCached({own}) EXCEPT !.writablePerp = {p}, !.writableSpot = {s}]

-----------------------------------------------------------------------------
(* Instructions about an account of somebody else.                          *)

getForceDeleteUserIx(other) == [Names({other}) EXCEPT !.writableSpot = other.spot]
settleLPIx(other, p) == [Names({other}) EXCEPT !.writablePerp = {p}]
getRemovePerpLpSharesInExpiringMarket(other, p) ==
    [NamesAndCached({other}) EXCEPT !.writablePerp = {p}]
getSettleExpiredMarketIx(p) ==
    [Names({}) EXCEPT !.writablePerp = {p}, !.writableSpot = {Quote}]
getFillPerpOrderIx(other, maker, p) == [Names({other, maker}) EXCEPT !.writablePerp = {p}]
getFillSpotOrderIx(other, maker, s) ==
    [Names({other, maker}) EXCEPT !.writableSpot = {s, Quote}]
getTriggerOrderIx(other, m) ==
    [Names({other}) EXCEPT !.writablePerp = {m} \cap PerpMarket,
                           !.writableSpot = IF m \in SpotMarket THEN {m, Quote} ELSE {}]
getForceCancelOrdersIx(other) == [Names({other}) EXCEPT !.writableSpot = {Quote}]
getUpdateUserIdleIx(other) == Names({other})
getLogUserBalancesIx(other) == Names({other})
getUpdateUserFuelBonusIx(other) == Names({other})
getUpdateUserOpenOrdersCountIx(other) == Names({other})
settlePNLIx(other, p) ==
    [Names({other}) EXCEPT !.writablePerp = {p}, !.writableSpot = {Quote}]
settleMultiplePNLsIx(other, P) ==
    [Names({other}) EXCEPT !.writablePerp = P, !.writableSpot = {Quote}]
getSetUserStatusToBeingLiquidatedIx(other) == Names({other})
getSettleFundingPaymentIx(other) == [Names({other}) EXCEPT !.writablePerp = other.perp]
getDisableHighLeverageModeIx(other) == Names({other})
=============================================================================
