----------------------------- MODULE DainClient -----------------------------
(***************************************************************************)
(* dainClient.ts: the client sends transactions for its sub-accounts.  The  *)
(* program rejects an instruction that does not name every market in which  *)
(* the account holds something, and the client's copy of the account lags   *)
(* behind the chain.  So the client remembers, per market, the slot at      *)
(* which its own transactions were confirmed (the two last-slot caches) and *)
(* names those markets too while the copy is older.                         *)
(*                                                                         *)
(* An action is the code between two awaits: a method builds and sends, and *)
(* records the slot when the sender reports the confirmation.               *)
(***************************************************************************)
EXTENDS VaultClientInstructions, Integers, FiniteSets

CONSTANTS
    SubAccount,     \* sub-accounts of the client, all in its users map
    TradedSpot,     \* bound: the spot markets callers name
    OtherAccount,   \* accounts of others that callers pass
    MustInclude,    \* bound: the markets callers pass to mustIncludeMarketsInIx
    MaxSlot,        \* bound: the last slot of the chain
    MaxInFlight     \* bound: transactions sent and not settled

ASSUME BoundsAssumption == MaxSlot \in Nat \ {0} /\ MaxInFlight \in Nat \ {0}
ASSUME ArgumentsAssumption ==
    OtherAccount \subseteq UserAccount /\ TradedSpot \subseteq SpotMarket /\ MustInclude \subseteq Market

VARIABLES
    head,               \* the chain's slot
    account,            \* account[u]: the sub-account's positions on chain
    copy,               \* copy[u]: the client's copy and its slot
    lastSlotCache,      \* perpMarketLastSlotCache and spotMarketLastSlotCache, 0: no entry
    mustInclude,        \* markets of mustIncludeMarketsInIx
    activeSubAccountId,
    sent,               \* transactions that may still land or be confirmed
    assured             \* history: assured[u], the markets u has held ever since a
                        \* transaction that marked them landed, confirmed by now;
                        \* less those another sub-account's instruction evicted,
                        \* or whose entry a later answer about an earlier
                        \* transaction made older

chain  == <<head, account>>
client == <<copy, lastSlotCache, mustInclude, activeSubAccountId>>
vars   == <<chain, client, sent, assured>>

Slot == 0 .. MaxSlot

(* The slot of a copy that addUser() was given with the account, until the  *)
(* first update of it.  No comparison with undefined holds.                 *)
undefined == -1
IsGreater(slot, other) == other # undefined /\ slot > other
-----------------------------------------------------------------------------
(* The sending methods: the instructions of the transaction, what it opens  *)
(* in the account when it lands, the markets marked in the caches when it   *)
(* is confirmed.                                                            *)
Method(ixs, opens, marks) == [ixs |-> ixs, opens |-> opens, marks |-> marks]
Perp(p)   == [NoPositions EXCEPT !.perp = {p}]
Spot(S)   == [NoPositions EXCEPT !.spot = S]
Orders(M) == [perp |-> M \cap PerpMarket, spot |-> M \cap SpotMarket, orders |-> M \cap SpotMarket]
Both(p, s) == [NoPositions EXCEPT !.perp = {p}, !.spot = {s}]

deposit(fresh, s) == Method({getDepositInstruction(fresh, s)}, Spot({s}), {s})
initializeUserAccountAndDepositCollateral(s) ==
    Method({getDepositInstructionNewUser(s)}, Spot({s}), {s})
withdraw(own, s) == Method({getWithdrawIx(own, s)}, Spot({s}), {s})
withdrawAllDustPositions(own) == Method({getWithdrawIx(own, s) : s \in own.spot}, NoPositions, {})
transferDeposit(from, s) == Method({getTransferDepositIx(from, s)}, Spot({s}), {s})

addPerpLpShares(own, p) == Method({getAddPerpLpSharesIx(own, p)}, Perp(p), {p})
removePerpLpShares(own, p) == Method({getRemovePerpLpSharesIx(own, p)}, NoPositions, {})
removePerpLpSharesInExpiringMarket(other, p) ==
    Method({getRemovePerpLpSharesInExpiringMarket(other, p)}, NoPositions, {})

placePerpOrder(own, p) == Method({getPlacePerpOrderIx(own, p)}, Perp(p), {p})
placeSpotOrder(own, s) == Method({getPlaceSpotOrderIx(own, s)}, Orders({s}), {s, Quote})

(* The market order is sent; the fill, cancel and settle transactions are   *)
(* signed with it and returned to the caller.                               *)
sendMarketOrderAndGetSignedFillTx(own, maker, p) ==
    Method({getPlaceOrdersIx(own, {p}), getCancelOrdersIx(own, {p}), settlePNLIx(own, p),
            getFillPerpOrderIx(own, maker, p)}, Perp(p), {p})
placeAndTakePerpWithAdditionalOrders(own, maker, p) ==
    Method({getPlaceAndTakePerpOrderIx(own, maker, p), getPlaceOrdersIx(own, {p}),
            getCancelOrdersIx(own, {p}), settlePNLIx(own, p)}, Perp(p), {p})

(* placeOrders and cancelAndPlaceOrders mark nothing.                       *)
placeOrders(own, M) == Method({getPlaceOrdersIx(own, M)}, Orders(M), {})
cancelAndPlaceOrders(own, M) ==
    Method({getCancelOrdersIx(own, M), getPlaceOrdersIx(own, M)}, Orders(M), {})
cancelOrder(own) == Method({getCancelOrderIx(own)}, NoPositions, {})
cancelOrderByUserId(own) == Method({getCancelOrderByUserIdIx(own)}, NoPositions, {})
cancelOrdersByIds(own) == Method({getCancelOrdersByIdsIx(own)}, NoPositions, {})
cancelOrders(own, M) == Method({getCancelOrdersIx(own, M)}, NoPositions, {})
modifyOrder(own) == Method({getModifyOrderIx(own)}, NoPositions, {})
modifyOrderByUserOrderId(own) == Method({getModifyOrderByUserIdIx(own)}, NoPositions, {})

swap(own, out, in) == Method({getSwapIx(own, out, in)}, Spot({out, in}), {out, in})

placeAndTakePerpOrder(own, maker, p) ==
    Method({getPlaceAndTakePerpOrderIx(own, maker, p)}, Perp(p), {p})
placeAndMakePerpOrder(own, taker, p) ==
    Method({getPlaceAndMakePerpOrderIx(own, taker, p)}, Perp(p), {p})
placeAndMakeSwiftPerpOrder(own, taker, p) ==
    Method({getPlaceSwiftTakerPerpOrderIxs(taker, p),
            getPlaceAndMakeSwiftPerpOrderIxs(own, taker, p)}, Perp(p), {p})
placeSwiftTakerOrder(taker, p) ==
    Method({getPlaceSwiftTakerPerpOrderIxs(taker, p)}, NoPositions, {})
placeAndMatchRFQOrders(own, p) == Method({getPlaceAndMatchRFQOrdersIxs(own, p)}, Perp(p), {})
placeAndTakeSpotOrder(own, maker, s) ==
    Method({getPlaceAndTakeSpotOrderIx(own, maker, s)}, Spot({s, Quote}), {s, Quote})
placeAndMakeSpotOrder(own, taker, s) ==
    Method({getPlaceAndMakeSpotOrderIx(own, taker, s)}, Spot({s, Quote}), {s, Quote})

liquidatePerp(own, other, p) == Method({getLiquidatePerpIx(own, other, p)}, Perp(p), {p})
liquidatePerpWithFill(other, maker, p) ==
    Method({getLiquidatePerpWithFillIx(other, maker, p)}, NoPositions, {p})
liquidateSpot(own, other, asset, liability) ==
    Method({getLiquidateSpotIx(own, other, asset, liability)},
           Spot({asset, liability}), {asset, liability})
liquidateBorrowForPerpPnl(own, other, p, liability) ==
    Method({getLiquidateBorrowForPerpPnlIx(own, other, p, liability)},
           Both(p, liability), {p, liability})
liquidatePerpPnlForDeposit(own, other, p, asset) ==
    Method({getLiquidatePerpPnlForDepositIx(own, other, p, asset)}, Both(p, asset), {p, asset})
resolvePerpBankruptcy(own, other, p) ==
    Method({getResolvePerpBankruptcyIx(own, other, p)}, NoPositions, {})
resolveSpotBankruptcy(own, other, s) ==
    Method({getResolveSpotBankruptcyIx(own, other, s)}, NoPositions, {})
resolvePerpPnlDeficit(own, p, s) == Method({getResolvePerpPnlDeficitIx(own, p, s)}, NoPositions, {})

updateUserMarginTradingEnabled(own) ==
    Method({getUpdateUserMarginTradingEnabledIx(own)}, NoPositions, {})
enableUserHighLeverageMode(own) == Method({getEnableHighLeverageModeIx(own)}, NoPositions, {})
disableUserHighLeverageMode(other) ==
    Method({getDisableHighLeverageModeIx(other)}, NoPositions, {})

settleLP(other, p) == Method({settleLPIx(other, p)}, NoPositions, {})
settleExpiredMarket(p) == Method({getSettleExpiredMarketIx(p)}, NoPositions, {})
fillPerpOrder(other, maker, p) == Method({getFillPerpOrderIx(other, maker, p)}, NoPositions, {})
fillSpotOrder(other, maker, s) == Method({getFillSpotOrderIx(other, maker, s)}, NoPositions, {})
triggerOrder(other, m) == Method({getTriggerOrderIx(other, m)}, NoPositions, {})
forceCancelOrders(other) == Method({getForceCancelOrdersIx(other)}, NoPositions, {})
forceDeleteUser(other) == Method({getForceDeleteUserIx(other)}, NoPositions, {})
updateUserIdle(other) == Method({getUpdateUserIdleIx(other)}, NoPositions, {})
logUserBalances(other) == Method({getLogUserBalancesIx(other)}, NoPositions, {})
updateUserFuelBonus(other) == Method({getUpdateUserFuelBonusIx(other)}, NoPositions, {})
updateUserOpenOrdersCount(other) == Method({getUpdateUserOpenOrdersCountIx(other)}, NoPositions, {})
settlePNL(other, p) == Method({settlePNLIx(other, p)}, NoPositions, {})
settlePNLs(other, P) == Method({settlePNLIx(other, p) : p \in P}, NoPositions, {})
settleMultiplePNLs(other, P) == Method({settleMultiplePNLsIx(other, P)}, NoPositions, {})
setUserStatusToBeingLiquidated(other) ==
    Method({getSetUserStatusToBeingLiquidatedIx(other)}, NoPositions, {})
settleFundingPayment(other) == Method({getSettleFundingPaymentIx(other)}, NoPositions, {})

OwnMethods(own, p, s) ==
    {withdraw(own, s), withdrawAllDustPositions(own), addPerpLpShares(own, p),
     removePerpLpShares(own, p), placePerpOrder(own, p), placeOrders(own, {p, s}),
     cancelAndPlaceOrders(own, {p}), cancelOrder(own), cancelOrderByUserId(own),
     cancelOrdersByIds(own), cancelOrders(own, {p}), cancelOrders(own, {s}),
     cancelOrders(own, {}), modifyOrder(own), modifyOrderByUserOrderId(own),
     swap(own, s, Quote), swap(own, Quote, s), placeAndMatchRFQOrders(own, p),
     resolvePerpPnlDeficit(own, p, s), updateUserMarginTradingEnabled(own),
     enableUserHighLeverageMode(own)}
    \cup {placeSpotOrder(own, m) : m \in {s} \ {Quote}}
    \cup {initializeUserAccountAndDepositCollateral(s) : a \in {own} \cap {NoPositions}}
MethodsWithOther(own, other, p, s) ==
    {sendMarketOrderAndGetSignedFillTx(own, other, p),
     placeAndTakePerpWithAdditionalOrders(own, other, p), placeAndTakePerpOrder(own, other, p),
     placeAndMakePerpOrder(own, other, p), placeAndMakeSwiftPerpOrder(own, other, p),
     placeAndTakeSpotOrder(own, other, s), placeAndMakeSpotOrder(own, other, s),
     liquidatePerp(own, other, p), liquidateSpot(own, other, s, Quote),
     liquidateSpot(own, other, Quote, s), liquidateBorrowForPerpPnl(own, other, p, s),
     liquidatePerpPnlForDeposit(own, other, p, s), resolvePerpBankruptcy(own, other, p),
     resolveSpotBankruptcy(own, other, s)}
OtherMethods(other, p, s) ==
    {placeSwiftTakerOrder(other, p), liquidatePerpWithFill(other, other, p),
     removePerpLpSharesInExpiringMarket(other, p), disableUserHighLeverageMode(other), settleLP(other, p), settleExpiredMarket(p),
     fillPerpOrder(other, other, p), fillSpotOrder(other, other, s), triggerOrder(other, p),
     triggerOrder(other, s), forceCancelOrders(other), forceDeleteUser(other),
     updateUserIdle(other), logUserBalances(other), updateUserFuelBonus(other),
     updateUserOpenOrdersCount(other), settlePNL(other, p), settlePNLs(other, {p}),
     settleMultiplePNLs(other, PerpMarket), setUserStatusToBeingLiquidated(other),
     settleFundingPayment(other)}

-----------------------------------------------------------------------------
Init ==
    /\ head = 0
    /\ account = [u \in SubAccount |-> NoPositions]
    /\ copy \in [SubAccount -> [slot : {0, undefined}, data : {NoPositions}]]
    /\ lastSlotCache = [m \in Market |-> 0]
    /\ mustInclude = {}
    /\ activeSubAccountId \in SubAccount
    /\ sent = {}
    /\ assured = [u \in SubAccount |-> {}]

StillHeld(held, accounts) == [u \in SubAccount |-> held[u] \cap MarketsOf(accounts[u])]

(* A new slot of the chain, in which the accounts become `next`.            *)
NewSlot(next, transactions) ==
    /\ head < MaxSlot
    /\ head' = head + 1
    /\ account' = next
    /\ assured' = StillHeld(assured, next)
    /\ sent' = {[t EXCEPT !.held = StillHeld(t.held, next)] : t \in transactions}
    /\ UNCHANGED client

(* Others act on the account: it is filled, settled, liquidated.            *)
PositionCloses(u, m) ==
    /\ m \in account[u].perp \cup account[u].spot
    /\ NewSlot([account EXCEPT ![u] =
          [perp |-> @.perp \ {m}, spot |-> @.spot \ {m}, orders |-> @.orders \ {m}]], sent)
PositionOpens(u, p) ==
    /\ p \notin account[u].perp
    /\ NewSlot([account EXCEPT ![u].perp = @ \cup {p}], sent)

(* The subscription of sub-account u delivers its account.                  *)
CopyUpdated(u) ==
    /\ copy' = [copy EXCEPT ![u] = [slot |-> head, data |-> account[u]]]
    /\ UNCHANGED <<chain, lastSlotCache, mustInclude, activeSubAccountId, sent, assured>>

mustIncludeMarketsInIx(M) ==
    /\ mustInclude' = mustInclude \cup M
    /\ UNCHANGED <<chain, copy, lastSlotCache, activeSubAccountId, sent, assured>>

switchActiveUser(u) ==
    /\ activeSubAccountId' = u
    /\ UNCHANGED <<chain, copy, lastSlotCache, mustInclude, sent, assured>>

-----------------------------------------------------------------------------
(* Mutant: the comparison of the slots is the wrong way round.              *)
CachedIfOlder(userSlot) == {m \in Market : lastSlotCache[m] # 0 /\ lastSlotCache[m] < userSlot}

(* The cache entries that getRemainingAccounts adds, and those it deletes:  *)
(* userSlot is the slot of the ACTIVE sub-account's copy.                   *)
Cached(userSlot)  == {m \in Market : IsGreater(lastSlotCache[m], userSlot)}
Evicted(userSlot) == {m \in Market : lastSlotCache[m] # 0} \ Cached(userSlot)

AccountsOf(ix, userSlot) ==
    getRemainingAccounts(ix, IF ix.useMarketLastSlotCache THEN Cached(userSlot) ELSE {},
                         mustInclude)

UsesCache(method) == \E ix \in method.ixs : ix.useMarketLastSlotCache

(* The effects of building: stale cache entries are deleted.                *)
EvictStale(method, userSlot) ==
    LET gone == IF UsesCache(method) THEN Evicted(userSlot) ELSE {} IN
    /\ lastSlotCache' = [m \in Market |-> IF m \in gone THEN 0 ELSE lastSlotCache[m]]
    /\ assured' = [u \in SubAccount |->
          IF u = activeSubAccountId THEN assured[u] ELSE assured[u] \ gone]

(* A transaction that opens and marks nothing needs no following.           *)
FreeId == CHOOSE id \in 1 .. MaxInFlight : \A t \in sent : t.id # id
Track(u, method, parties) ==
    sent' = IF method.opens = NoPositions /\ method.marks = {} THEN sent
            ELSE sent \cup {[id |-> FreeId, user |-> u, opens |-> method.opens,
                             marks |-> method.marks, landed |-> 0, parties |-> parties,
                             held |-> [v \in SubAccount |-> {}]]}

Send(u, method, parties) ==
    /\ EvictStale(method, copy[activeSubAccountId].slot)
    /\ Track(u, method, parties)
    /\ UNCHANGED <<chain, copy, mustInclude, activeSubAccountId>>

(* deposit: getDepositInstruction first fetches the active user's account.  *)
SendDeposit(u, s) ==
    LET method == deposit(account[activeSubAccountId], s) IN
    /\ copy' = [copy EXCEPT ![activeSubAccountId] =
                   [slot |-> head, data |-> account[activeSubAccountId]]]
    /\ EvictStale(method, head)
    /\ Track(u, method, {})
    /\ UNCHANGED <<chain, mustInclude, activeSubAccountId>>

Parties(t) == {t.user} \cup t.parties

(* The program runs a transaction.  It may reject it for any reason, a       *)
(* market that is missing among its accounts being one: SendFails.          *)
Lands(t) ==
    /\ t.landed = 0
    /\ NewSlot([u \in SubAccount |->
                  IF u \in Parties(t)
                  THEN [perp   |-> account[u].perp \cup t.opens.perp,
                        spot   |-> account[u].spot \cup t.opens.spot,
                        orders |-> account[u].orders \cup t.opens.orders]
                  ELSE account[u]],
               (sent \ {t}) \cup
                  {[t EXCEPT !.landed = head + 1,
                             !.held = [u \in SubAccount |->
                                          IF u \in Parties(t) THEN t.marks ELSE {}]]})

(* The sender throws: the transaction was rejected, timed out or expired.   *)
(* One that timed out may still land.                                       *)
SendFails(t) ==
    /\ \/ sent' = sent \ {t}
       \/ t.landed = 0 /\ t.marks # {} /\ sent' = (sent \ {t}) \cup {[t EXCEPT !.marks = {}]}
    /\ UNCHANGED <<chain, client, assured>>

(* After the await of sendTransaction: the markets are marked with the slot *)
(* of the confirmation; transferDeposit does so only if one of its two      *)
(* sub-accounts is the active one by then.  The slot replaces a later one,  *)
(* if the confirmations of two transactions come in the other order.        *)
Marked(t) == IF t.parties = {} \/ activeSubAccountId \in t.parties THEN t.marks ELSE {}
Confirmed(t, slot) ==
    /\ t.landed # 0
    /\ slot \in t.landed .. head
    /\ lastSlotCache' = [m \in Market |-> IF m \in Marked(t) THEN slot ELSE lastSlotCache[m]]
    /\ assured' = [u \in SubAccount |->
          (assured[u] \ {m \in Marked(t) : lastSlotCache[m] > slot}) \cup (t.held[u] \cap Marked(t))]
    /\ sent' = sent \ {t}
    /\ UNCHANGED <<chain, copy, mustInclude, activeSubAccountId>>

-----------------------------------------------------------------------------
(* Every method, by the account of its sub-account as the copy has it.      *)
OwnSends == [own \in UserAccount |->
    (UNION {OwnMethods(own, p, s) : p \in PerpMarket, s \in TradedSpot})
    \cup (UNION {MethodsWithOther(own, other, p, s) :
                 other \in OtherAccount, p \in PerpMarket, s \in TradedSpot})]
OtherSends == UNION {OtherMethods(other, p, s) :
                 other \in OtherAccount, p \in PerpMarket, s \in TradedSpot}

ClientSends ==
    \/ \E u \in SubAccount : \E method \in OwnSends[copy[u].data] : Send(u, method, {})
    \/ \E u \in SubAccount, to \in SubAccount, s \in TradedSpot :
          u # to /\ Send(u, transferDeposit(copy[u].data, s), {u, to})
    \/ \E u \in SubAccount, s \in TradedSpot : SendDeposit(u, s)
    \/ \E method \in OtherSends : Send(activeSubAccountId, method, {})

Next ==
    \/ \E u \in SubAccount, m \in Market : PositionCloses(u, m)
    \/ \E u \in SubAccount, p \in PerpMarket : PositionOpens(u, p)
    \/ \E u \in SubAccount : CopyUpdated(u) \/ switchActiveUser(u)
    \/ \E m \in MustInclude : mustIncludeMarketsInIx({m})
    \/ Cardinality(sent) < MaxInFlight /\ ClientSends
    \/ \E t \in sent : Lands(t) \/ SendFails(t)
    \/ \E t \in sent, slot \in Slot : Confirmed(t, slot)

Spec == Init /\ [][Next]_vars

-----------------------------------------------------------------------------
(* Every variable has its type, and no copy or cache entry is from a slot   *)
(* the chain has not reached.                                               *)
TypeOK ==
    /\ head \in Slot
    /\ account \in [SubAccount -> UserAccount]
    /\ copy \in [SubAccount -> [slot : {undefined} \cup 0 .. head, data : UserAccount]]
    /\ lastSlotCache \in [Market -> 0 .. head]
    /\ mustInclude \subseteq Market
    /\ activeSubAccountId \in SubAccount
    /\ \A t \in sent : t.user \in SubAccount /\ t.landed \in 0 .. head
    /\ assured \in [SubAccount -> SUBSET Market]

(* The instructions that the methods build from a copy of an account.       *)
OwnInstructions == [own \in UserAccount |-> UNION {method.ixs : method \in OwnSends[own]}]

(* Read your own writes: whatever the active sub-account has held since one *)
(* of the client's confirmed transactions is named by every instruction     *)
(* that uses the caches, although the client's copy of the account may be   *)
(* older than that transaction (getRemainingAccounts, 1940-1978).  But for  *)
(* a copy that was given to addUser() and has not been updated since: it    *)
(* has no slot, `slot > lastUserSlot` is false of every entry, and the      *)
(* client forgets what it marked.                                           *)
OwnPositionsAreNamed ==
    LET u == activeSubAccountId
        own == copy[u].data
        held == assured[u]
    IN  held # {} /\ copy[u].slot # undefined =>
            \A ix \in OwnInstructions[own] :
                ix.useMarketLastSlotCache /\ own \in ix.users =>
                    held \subseteq Named(AccountsOf(ix, copy[u].slot))

(* The copies, cache entries and sets of mustIncludeMarketsInIx for which   *)
(* an instruction names a market with the wrong flag.                       *)
IsWronglyFlagged(own, cached, must) ==
    \E ix \in OwnInstructions[own] :
        LET list == getRemainingAccounts(ix, IF ix.useMarketLastSlotCache THEN cached ELSE {}, must)
        IN  \E m \in Named(list) \cap Market :
                list[m] # (m \in ix.writablePerp \cup ix.writableSpot)

(* A vault's user, by the client that its manager constructs with the same  *)
(* market subscription.                                                     *)
VaultIsWronglyNamed(own, must) ==
    \E s \in TradedSpot : \E ix \in VaultInstructions(own, s) :
        LET list == VaultAccounts(ix, must) IN
        \/ ~ (MarketsOf(own) \cup ix.writableSpot \cup ix.pushed) \subseteq Named(list)
        \/ \E m \in Named(list) \cap Market : list[m] # (m \in ix.writableSpot)

WronglyFlagged == UNION {UNION {
    {<<own, cached, must>> : wrong \in {TRUE} \cap {IsWronglyFlagged(own, cached, must)
                                                     \/ VaultIsWronglyNamed(own, must)}} :
        cached \in SUBSET Market, must \in SUBSET Market} : own \in UserAccount}

(* However a market gets into the list, by a position, a cache entry,       *)
(* mustIncludeMarketsInIx or as the quote market of a perp market, it is    *)
(* writable exactly when the instruction writes it: the layers never undo   *)
(* each other's flags, and never lock a market that is only read.  The      *)
(* instructions of a vault, for the vault's user, name all it holds, too.   *)
WritableIffWritten ==
    \A u \in SubAccount :
        <<copy[u].data, Cached(copy[activeSubAccountId].slot), mustInclude>> \notin WronglyFlagged
=============================================================================
