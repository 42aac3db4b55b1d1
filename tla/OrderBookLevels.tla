-------------------------- MODULE OrderBookLevels --------------------------
(* The order book that is shown (dlob/orderBookLevels.ts, getL2 of DLOB.ts): *)
(* the resting orders of the DLOB and the liquidity of the virtual AMM as    *)
(* price levels, merged, cut off and grouped; and uncrossL2, which moves     *)
(* crossing levels apart, level by level.  A request is one input of one of  *)
(* them.  The orders come from DLOB, best first.                             *)
EXTENDS AmmMath, Sequences, SequencesExt

CONSTANT None

VARIABLES
    request,            \* what is asked for; its kind says of which function
    uncross             \* uncrossL2: the levels left, the new ones, the bounds

levelVars == <<request, uncross>>

Source == {"dlob", "vamm"}
Side == {"bids", "asks"}
Better(side, p, q) == IF side = "bids" THEN p > q ELSE p < q

-----------------------------------------------------------------------------
(* Levels.                                                                  *)
Level(price, size, source) ==
    [price |-> price, size |-> size, sources |-> [s \in Source |-> IF s = source THEN size ELSE 0]]
Joined(a, b) ==
    [a EXCEPT !.size = @ + b.size, !.sources = [s \in Source |-> @[s] + b.sources[s]]]
AtLast(levels, price) == levels # <<>> /\ Last(levels).price = price
updateLevels(price, level, levels) ==
    IF AtLast(levels, price) THEN [levels EXCEPT ![Len(levels)] = Joined(@, level)]
    ELSE Append(levels, [level EXCEPT !.price = price])

getL2GeneratorFromDLOBNodes(orders) ==
    [i \in DOMAIN orders |-> Level(orders[i].price, orders[i].size, "dlob")]

(* The best of the next levels; of equal ones that of the first generator.  *)
RECURSIVE mergeL2LevelGenerators(_, _)
mergeL2LevelGenerators(side, generators) ==
    LET live == {g \in DOMAIN generators : generators[g] # <<>>}
        best == Min({g \in live : \A h \in live :
                        ~Better(side, Head(generators[h]).price, Head(generators[g]).price)})
    IN IF live = {} THEN <<>>
       ELSE <<Head(generators[best])>>
            \o mergeL2LevelGenerators(side, [generators EXCEPT ![best] = Tail(@)])

RECURSIVE createL2Levels(_, _, _)
createL2Levels(levels, generator, depth) ==
    IF \/ generator = <<>>
       \/ Len(levels) = depth /\ ~AtLast(levels, Head(generator).price)
    THEN levels
    ELSE createL2Levels(updateLevels(Head(generator).price, Head(generator), levels),
                        Tail(generator), depth)
getL2(side, orders, fallbackL2Generators, depth) ==
    createL2Levels(<<>>, mergeL2LevelGenerators(side,
        <<getL2GeneratorFromDLOBNodes(orders)>> \o fallbackL2Generators), depth)

(* The group that is the depth'th is left with its first level.             *)
GroupPrice(side, price, grouping) ==
    standardizePrice(price, grouping, IF side = "bids" THEN "long" ELSE "short")
RECURSIVE groupL2Levels(_, _, _, _, _)
groupL2Levels(side, grouped, levels, grouping, depth) ==
    IF levels = <<>> \/ Len(grouped) = depth THEN grouped
    ELSE groupL2Levels(side,
             updateLevels(GroupPrice(side, Head(levels).price, grouping), Head(levels), grouped),
             Tail(levels), grouping, depth)

(* The AMM's levels: first so much quote each, then equal parts of the base *)
(* that is left.  at holds the curve, the levels so far and the base taken. *)
BaseSwap(side) == IF side = "bids" THEN "add" ELSE "remove"
QuoteSwap(side) == IF side = "bids" THEN "remove" ELSE "add"
EqualPart(at) ==
    LET after == calculateAmmReservesAfterSwap(at.amm, "base", at.part, BaseSwap(at.side))
    IN [amm |-> after, base |-> at.part, quote |-> QuoteSwapped(at.amm, after, BaseSwap(at.side))]
TopOfBook(vamm, at) ==
    LET quote == vamm.topOfBookQuoteAmounts[at.count + 1]
        after == calculateAmmReservesAfterSwap(at.amm, "quote", quote, QuoteSwap(at.side))
        base == Abs(at.amm.baseAssetReserve - after.baseAssetReserve)
        left == at.open - at.taken
    IN IF left < base THEN EqualPart([at EXCEPT !.part = left])
       ELSE [amm |-> after, base |-> base, quote |-> quote]
RECURSIVE VammLevels(_, _)
VammLevels(vamm, at) ==
    LET tops == Len(vamm.topOfBookQuoteAmounts)
        Then(swap) ==
            IF swap.base = 0 THEN <<>>
            ELSE <<Level(Div(swap.quote * BASE_PRECISION, swap.base), swap.base, "vamm")>>
                 \o VammLevels(vamm, [at EXCEPT
                        !.amm = swap.amm, !.count = @ + 1,
                        !.taken = IF at.count < tops THEN @ + swap.base ELSE @,
                        !.part = IF at.count < tops
                                 THEN Div(at.open - at.taken - swap.base, vamm.numOrders - tops) ELSE @])
    IN CASE at.count >= vamm.numOrders \/ at.part =< 0 -> <<>>
         [] at.count < vamm.numOrders /\ at.part > 0 /\ at.count < tops -> Then(TopOfBook(vamm, at))
         [] OTHER -> Then(EqualPart(at))
VammOpen(vamm, side) ==
    LET open == calculateMarketOpenBidAsk(vamm.amm.baseAssetReserve, vamm.minBaseAssetReserve,
                                          vamm.maxBaseAssetReserve, vamm.orderStepSize)[side]
    IN IF vamm.paused \/ open < 2 * vamm.minOrderSize THEN 0 ELSE open
VammCurve(vamm, side) == calculateSpreadReserves(vamm.amm, vamm.longSpread, vamm.shortSpread)[side]
getVammL2Generator(vamm, side) ==
    VammLevels(vamm, [side |-> side, amm |-> VammCurve(vamm, side), count |-> 0, taken |-> 0,
                      open |-> VammOpen(vamm, side),
                      part |-> Div(VammOpen(vamm, side),
                                   vamm.numOrders - Len(vamm.topOfBookQuoteAmounts))])

(* What a trade of so much base costs in the book, and the first makers.    *)
RECURSIVE QuoteOf(_, _)
QuoteOf(orders, base) ==
    IF orders = <<>> \/ base = 0 THEN 0
    ELSE LET filled == Lesser(Head(orders).size, base)
         IN filled * Head(orders).price + QuoteOf(Tail(orders), base - filled)
estimateFillExactBaseAmountInForSide(orders, base) ==
    Div(QuoteOf(orders, base) * PRICE_PRECISION, BASE_PRECISION * PRICE_PRECISION)
RECURSIVE getBestMakers(_, _, _)
getBestMakers(makers, orders, numMakers) ==
    IF orders = <<>> \/ Cardinality(makers) = numMakers THEN makers
    ELSE getBestMakers(makers \cup {Head(orders).maker}, Tail(orders), numMakers)

-----------------------------------------------------------------------------
(* uncrossL2.  The prices of the user's own levels are left alone.          *)
BidsAndAsks(bids, asks) == [bids |-> bids, asks |-> asks]
Crossed(book) ==
    book.bids # <<>> /\ book.asks # <<>> /\ Head(book.bids).price >= Head(book.asks).price
referencePrice == request.oraclePrice + (request.markTwap5Min - request.oracleTwap5Min)
Start(input) ==
    [left |-> BidsAndAsks(input.bids, input.asks), new |-> BidsAndAsks(<<>>, <<>>), maxBid |-> None, minAsk |-> None]

nextBid == Head(uncross.left.bids)
nextAsk == Head(uncross.left.asks)
Working == request.kind = "uncross" /\ Crossed(request)
Both == Working /\ uncross.left.bids # <<>> /\ uncross.left.asks # <<>>
NoUsers == /\ Both /\ nextBid.price \notin request.userBids /\ nextAsk.price \notin request.userAsks

(* getPriceAndSetBound: a shifted price goes no closer than one before it.  *)
BidBound(price) == IF uncross.maxBid = None THEN price ELSE Lesser(uncross.maxBid, price)
AskBound(price) == IF uncross.minAsk = None THEN price ELSE Greater(uncross.minAsk, price)

Pushed(u, side, levels) == [u EXCEPT !.left[side] = Tail(@), !.new[side] = levels]
KeptAt(u, side) == Pushed(u, side, Append(u.new[side], Head(u.left[side])))
BidAt(u, price) == [Pushed(u, "bids", updateLevels(price, nextBid, u.new.bids)) EXCEPT !.maxBid = price]
AskAt(u, price) == [Pushed(u, "asks", updateLevels(price, nextAsk, u.new.asks)) EXCEPT !.minAsk = price]

KeepRest(side) ==
    /\ Working /\ uncross.left[side] # <<>>
    /\ \A other \in Side \ {side} : uncross.left[other] = <<>>
    /\ uncross' = KeptAt(uncross, side)
KeepUserBid ==
    /\ Both /\ nextBid.price \in request.userBids
    /\ uncross' = KeptAt(uncross, "bids")
KeepUserAsk ==
    /\ Both /\ nextBid.price \notin request.userBids /\ nextAsk.price \in request.userAsks
    /\ uncross' = KeptAt(uncross, "asks")
ShiftBid ==
    /\ NoUsers /\ nextBid.price >= nextAsk.price /\ nextAsk.price > referencePrice
    /\ uncross' = BidAt(uncross, BidBound(nextAsk.price - request.grouping))
ShiftAsk ==
    /\ NoUsers /\ nextBid.price >= nextAsk.price /\ nextBid.price < referencePrice
    /\ uncross' = AskAt(uncross, AskBound(nextBid.price + request.grouping))
ShiftBoth ==
    /\ NoUsers /\ nextBid.price >= referencePrice /\ referencePrice >= nextAsk.price
    /\ uncross' = AskAt(BidAt(uncross, BidBound(referencePrice - request.grouping)),
                        AskBound(referencePrice + request.grouping))
(* Levels that no longer cross stay, but no closer than the shifted ones.   *)
KeepBoth ==
    /\ NoUsers /\ nextBid.price < nextAsk.price
    /\ LET asked == IF uncross.minAsk # None /\ nextAsk.price =< uncross.minAsk
                    THEN AskAt(uncross, uncross.minAsk) ELSE KeptAt(uncross, "asks")
       IN uncross' = IF uncross.maxBid # None /\ nextBid.price >= uncross.maxBid
                     THEN BidAt(asked, uncross.maxBid) ELSE KeptAt(asked, "bids")

LevelStep ==
    /\ \/ \E side \in Side : KeepRest(side)
       \/ KeepUserBid \/ KeepUserAsk \/ ShiftBid \/ ShiftAsk \/ ShiftBoth \/ KeepBoth
    /\ UNCHANGED request

(* Sorted, and merged by price (mergeByPrice).                              *)
OfPrice(levels, price) == SelectSeq(levels, LAMBDA l : l.price = price)
MergedAt(levels, price) ==
    FoldLeft(Joined, Head(OfPrice(levels, price)), Tail(OfPrice(levels, price)))
SortedLevels(side, levels) ==
    LET prices == SetToSortSeq({levels[i].price : i \in DOMAIN levels}, LAMBDA p, q : Better(side, p, q))
    IN [i \in DOMAIN prices |-> MergedAt(levels, prices[i])]
uncrossL2 ==
    IF ~Crossed(request) THEN BidsAndAsks(request.bids, request.asks)
    ELSE [side \in Side |-> SortedLevels(side, uncross.new[side])]
UncrossDone == request.kind = "uncross" /\ (Crossed(request) => uncross.left = BidsAndAsks(<<>>, <<>>))

-----------------------------------------------------------------------------
(* What the views promise.                                                  *)
SizeOf(levels, test(_)) ==
    LET In == {i \in DOMAIN levels : test(levels[i])}
    IN MapThenSumSet(LAMBDA i : levels[i].size, In)
SourceSize(levels, source) == MapThenSumSet(LAMBDA i : levels[i].sources[source], DOMAIN levels)
Monotone(side, levels) ==
    \A i, j \in DOMAIN levels : i < j => ~Better(side, levels[j].price, levels[i].price)
Strictly(side, levels) ==
    \A i, j \in DOMAIN levels : i < j => Better(side, levels[i].price, levels[j].price)

(* uncrossL2 moves liquidity away from the other side and loses none: of    *)
(* each source there is as much as before, level by level it is never at a  *)
(* better price, the user's own prices stay, and the levels come out sorted,*)
(* one to a price.                                                          *)
UncrossKeepsLiquidity ==
    UncrossDone => \A side \in Side :
        LET before == request[side]
            after == uncrossL2[side]
            own == IF side = "bids" THEN request.userBids ELSE request.userAsks
            AtLeast(price, l) == ~Better(side, price, l.price)
        IN /\ Strictly(side, after)
           /\ \A source \in Source : SourceSize(after, source) = SourceSize(before, source)
           /\ \A i \in DOMAIN after :
                 SizeOf(after, LAMBDA l : AtLeast(after[i].price, l))
                     =< SizeOf(before, LAMBDA l : AtLeast(after[i].price, l))
           /\ \A i \in DOMAIN before : before[i].price \in own =>
                 \E j \in DOMAIN after : /\ after[j].price = before[i].price
                                         /\ after[j].size >= before[i].size

(* "uncross the L2 orderbook by modifying the bid/ask price at the top of   *)
(* the book" (orderBookLevels.ts): without levels of the user's, the best   *)
(* bid that comes out is below the best ask.                                *)
Uncrossed ==
    UncrossDone /\ request.userBids = {} /\ request.userAsks = {} => ~Crossed(uncrossL2)
=============================================================================
