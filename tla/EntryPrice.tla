----------------------------- MODULE EntryPrice -----------------------------
(* What a trade will cost (math/trade.ts): the estimates of entry price and  *)
(* price impact against resting orders with the virtual AMM ("perp"), with  *)
(* the levels of another exchange ("spot"), or in an order book that was    *)
(* made before ("l2").  One action is a part of a loop's turn: what comes    *)
(* from the AMM, from the orders or from the other exchange.  The orders    *)
(* are those of the side that the trade meets, best first; those of an order *)
(* book made before have no maker.                                          *)
EXTENDS OrderBookLevels

CONSTANTS
    BN_MAX,
    Rounding,           \* units by which truncation may change a cost or an amount
    Grain               \* bound: divisions of a trade are compared in steps of this

VARIABLE fill           \* where the loop is, what is left and what was taken

entryVars == <<levelVars, fill>>

EntryKind == {"perp", "spot", "l2"}
takerIsLong == request.direction = "long"
entrySide == IF takerIsLong THEN "asks" ELSE "bids"
swapDirection == getSwapDirection(request.assetType, request.direction)

(* A user of the DLOB is named by a string, one to skip by its PublicKey:   *)
(* has() compares a string with keys, and finds none.                       *)
PublicKey(user) == [publicKey |-> user]
IsSkipped(order) == order.maker \in request.usersToSkip

-----------------------------------------------------------------------------
(* What the AMM has to give, in base or in quote.                           *)
ammBase(r, side) ==
    calculateMarketOpenBidAsk(r.vamm.amm.baseAssetReserve, r.vamm.minBaseAssetReserve,
                              r.vamm.maxBaseAssetReserve, r.vamm.orderStepSize)[side]
SwapOfBase(curve, side, base) == calculateAmmReservesAfterSwap(curve, "base", base, BaseSwap(side))
ammLiquidity(r, side, curve) ==
    IF r.assetType = "base" THEN ammBase(r, side)
    ELSE QuoteSwapped(curve, SwapOfBase(curve, side, ammBase(r, side)), QuoteSwap(side))

(* Until the next order's price; not positive if that is better.            *)
ToPriceInBase(amm, price) ==
    LET after == squareRootBN(Div(Div(amm.sqrtK * amm.sqrtK * PRICE_PRECISION * amm.pegMultiplier, price),
                                  PEG_PRECISION))
    IN IF takerIsLong THEN amm.baseAssetReserve - after ELSE after - amm.baseAssetReserve
ToPriceInQuote(amm, price) ==
    LET after == squareRootBN(Div(Div(amm.sqrtK * amm.sqrtK * PEG_PRECISION * price, amm.pegMultiplier),
                                  PRICE_PRECISION))
    IN IF takerIsLong THEN after - amm.quoteAssetReserve ELSE amm.quoteAssetReserve - after

remaining == request.amount - (IF request.assetType = "base" THEN fill.base ELSE fill.quote)

(* Mutant: the AMM is not left for the orders when they have the better price. *)
maxAmmFillOfAll == Lesser(fill.liquidity, remaining)

maxAmmFill ==
    Lesser(fill.liquidity,
           IF fill.orders = <<>> THEN remaining
           ELSE IF request.assetType = "base" THEN ToPriceInBase(fill.amm, Head(fill.orders).price)
           ELSE ToPriceInQuote(fill.amm, Head(fill.orders).price))

-----------------------------------------------------------------------------
(* The loop.                                                                *)
FirstPrices(r, curve) ==
    {l[1].price : l \in {r.orders, r.serum} \ {<<>>}}
        \cup (IF r.kind = "perp" THEN {calculatePrice(curve)} ELSE {})
bestPrice(r, curve) ==
    LET prices == FirstPrices(r, curve)
        none == IF r.direction = "long" THEN BN_MAX ELSE 0
    IN IF prices = {} THEN none ELSE IF r.direction = "long" THEN Min(prices) ELSE Max(prices)
Begin(r, side, curve) ==
    [at |-> IF r.kind = "perp" THEN "amm" ELSE "order", base |-> 0, quote |-> 0,
     amm |-> curve, liquidity |-> IF r.kind = "perp" THEN ammLiquidity(r, side, curve) ELSE 0,
     orders |-> r.orders, serum |-> r.serum, makers |-> {},
     best |-> bestPrice(r, curve), worst |-> bestPrice(r, curve)]

Estimating == request.kind \in EntryKind /\ remaining # 0
Plus(base, quote, price) ==
    [fill EXCEPT !.base = @ + base, !.quote = @ + quote, !.worst = price]

FillFromAmm ==
    /\ Estimating /\ fill.at = "amm" /\ maxAmmFill > 0
    /\ \E amount \in {Lesser(remaining, maxAmmFill)} :
       \E after \in {calculateAmmReservesAfterSwap(fill.amm, request.assetType, amount, swapDirection)} :
          LET base == IF request.assetType = "base" THEN amount
                      ELSE Abs(after.baseAssetReserve - fill.amm.baseAssetReserve)
              quote == IF request.assetType = "base" THEN QuoteSwapped(fill.amm, after, swapDirection)
                       ELSE amount
          IN fill' = [Plus(base, quote, calculatePrice(after)) EXCEPT
                         !.at = "order", !.amm = after, !.liquidity = @ - amount]
PassAmm ==
    /\ Estimating /\ fill.at = "amm" /\ maxAmmFill =< 0 /\ fill.orders # <<>>
    /\ fill' = [fill EXCEPT !.at = "order"]

(* Serum only with the better price; the orders' turn also ends the loop's. *)
UseSerum ==
    /\ fill.serum # <<>>
    /\ fill.orders # <<>> => Better(entrySide, Head(fill.serum).price, Head(fill.orders).price)
Taken(order) ==
    LET value == Div(order.size * order.price, BASE_PRECISION)
        quote == Lesser(value, remaining)
        base == Lesser(order.size, remaining)
    IN IF request.assetType = "base"
       THEN Plus(base, Div(base * order.price, BASE_PRECISION), order.price)
       ELSE Plus(Div(quote * BASE_PRECISION, order.price), quote, order.price)
AfterOrder == IF request.kind = "perp" THEN "amm" ELSE "order"
FillFromOrder ==
    /\ Estimating /\ fill.at = "order" /\ fill.orders # <<>> /\ ~UseSerum
    /\ ~IsSkipped(Head(fill.orders))
    /\ fill' = [Taken(Head(fill.orders)) EXCEPT !.at = AfterOrder, !.orders = Tail(@),
                                                !.makers = @ \cup {Head(fill.orders).maker}]
FillFromSerum ==
    /\ Estimating /\ fill.at = "order" /\ UseSerum
    /\ fill' = [Taken(Head(fill.serum)) EXCEPT !.serum = Tail(@)]
(* continue: without an order, or with one to skip, which stays the next.   *)
Continue ==
    /\ Estimating /\ fill.at = "order" /\ request.kind = "perp"
    /\ fill.orders # <<>> => IsSkipped(Head(fill.orders))
    /\ fill' = [fill EXCEPT !.at = "amm"]

EntryStep ==
    /\ FillFromAmm \/ PassAmm \/ FillFromOrder \/ FillFromSerum \/ Continue
    /\ UNCHANGED levelVars

EstimateDone ==
    /\ request.kind \in EntryKind
    /\ \/ remaining = 0
       \/ fill.orders = <<>> /\ fill.serum = <<>> /\ fill.liquidity =< 0

entryPrice == IF fill.base > 0 THEN Div(fill.quote * BASE_PRECISION, fill.base) ELSE 0

-----------------------------------------------------------------------------
(* An order book that is read, uncrossed, or walked for an estimate.        *)
NoFill == [at |-> "none"]
Init(requests) ==
    /\ request \in requests
    /\ uncross = IF request.kind = "uncross" THEN Start(request) ELSE None
    /\ fill = IF request.kind \notin EntryKind THEN NoFill
              ELSE Begin(request, entrySide, VammCurve(request.vamm, entrySide))
Returned ==
    /\ request.kind = "view" \/ UncrossDone \/ EstimateDone
    /\ UNCHANGED entryVars
Next == (LevelStep /\ UNCHANGED fill) \/ EntryStep \/ Returned

-----------------------------------------------------------------------------
(* What an estimate promises.                                               *)

(* What so much base costs in the orders alone, each after all better ones. *)
Ahead(orders, i, side) ==
    MapThenSumSet(LAMBDA j : orders[j].size,
        {j \in DOMAIN orders : \/ Better(side, orders[j].price, orders[i].price)
                               \/ orders[j].price = orders[i].price /\ j < i})
CostInOrders(orders, side, base) ==
    MapThenSumSet(LAMBDA i : orders[i].price *
                      Greater(0, Lesser(orders[i].size, base - Ahead(orders, i, side))),
                  DOMAIN orders) \div BASE_PRECISION
CostInAmm(curve, side, base) ==
    IF base = 0 THEN 0 ELSE QuoteSwapped(curve, SwapOfBase(curve, side, base), BaseSwap(side))

(* An estimate is the best execution there is: no division of the base      *)
(* between AMM and orders costs less (or, for a short, pays more) than the  *)
(* estimate by more than the rounding, and all of the amount is filled      *)
(* unless nothing is left.  The mean price lies between the best and the    *)
(* worst that are reported.                                                 *)
AllOrders == request.orders \o request.serum
OrdersHave == MapThenSumSet(LAMBDA i : AllOrders[i].size, DOMAIN AllOrders)
AmmHas == IF request.kind = "perp" THEN ammBase(request, entrySide) + Rounding ELSE 0
BestExecution ==
    EstimateDone =>
        LET curve == VammCurve(request.vamm, entrySide)
            Cost(x) == CostInAmm(curve, entrySide, x) + CostInOrders(AllOrders, entrySide, fill.base - x)
            least == Greater(0, fill.base - OrdersHave)
            Value(price) == (fill.base * price) \div BASE_PRECISION
            slack == Rounding + Value(1) + 1
            NoBetter(p, q) == IF takerIsLong THEN Value(p) >= Value(q) - slack
                              ELSE Value(p) =< Value(q) + slack
            Splits == {x \in least .. Lesser(fill.base, AmmHas) : (x - least) % Grain = 0}
        IN /\ fill.base =< AmmHas + OrdersHave
           /\ \A x \in Splits : IF takerIsLong THEN fill.quote =< Cost(x) + Rounding
                                ELSE fill.quote >= Cost(x) - Rounding
           /\ Splits # {}
           /\ remaining = 0 \/ fill.orders \o fill.serum = <<>>
           /\ NoBetter(entryPrice, fill.best) /\ NoBetter(fill.worst, entryPrice)

(* The views of an order book show what there is.  The levels are the best  *)
(* prices of orders and AMM, sorted, each with all that there is at its      *)
(* price; only the last group of grouped levels may lack some; what the AMM *)
(* shows is open and not cheaper than its curve; and an estimate without    *)
(* the AMM takes the orders in turn, as the best makers are theirs.         *)
SizeAt(levels, Price(_)) == [p \in {Price(levels[i].price) : i \in DOMAIN levels} |->
    MapThenSumSet(LAMBDA i : levels[i].size, {i \in DOMAIN levels : Price(levels[i].price) = p})]
ShowsBest(side, levels, all, depth) ==
    LET there == SizeAt(all, LAMBDA p : p)
        shown == SizeAt(levels, LAMBDA p : p)
    IN /\ Strictly(side, levels)
       /\ Len(levels) = Min({depth, Cardinality(DOMAIN there)})
       /\ \A p \in DOMAIN shown : p \in DOMAIN there /\ shown[p] = there[p]
       /\ \A p \in DOMAIN shown, q \in DOMAIN there \ DOMAIN shown : Better(side, p, q)
       /\ \A source \in Source, i \in DOMAIN levels :
             levels[i].sources[source] =
                 SourceSize(SelectSeq(all, LAMBDA l : l.price = levels[i].price), source)
ShowsGroups(side, grouped, levels, grouping, depth) ==
    LET there == SizeAt(levels, LAMBDA p : GroupPrice(side, p, grouping))
    IN /\ Strictly(side, grouped)
       /\ Len(grouped) = Min({depth, Cardinality(DOMAIN there)})
       /\ \A i \in DOMAIN grouped : grouped[i].size = there[grouped[i].price] \/ i = depth
ShowsCurve(side, levels, vamm) ==
    LET open == VammOpen(vamm, side)
        Sized(n) == MapThenSumSet(LAMBDA i : levels[i].size, 1 .. n)
        Quote(n) == MapThenSumSet(LAMBDA i : levels[i].size * levels[i].price, 1 .. n) \div BASE_PRECISION
        Curve(n) == CostInAmm(VammCurve(vamm, side), side, Sized(n))
    IN /\ Sized(Len(levels)) =< open /\ Len(levels) =< vamm.numOrders
       /\ open > vamm.numOrders => levels # <<>>
       /\ \A n \in DOMAIN levels : Abs(Quote(n) - Curve(n)) =< Rounding
ShowsMakers(makers, orders, numMakers) ==
    LET first == [m \in {orders[i].maker : i \in DOMAIN orders} |->
                     Min({i \in DOMAIN orders : orders[i].maker = m})]
    IN /\ Cardinality(makers) = Min({numMakers, Cardinality(DOMAIN first)})
       /\ \A m \in makers, n \in DOMAIN first \ makers : first[m] < first[n]
ViewsShowTheBook ==
    request.kind = "view" => \A side \in Side :
        \E orders \in {request[side]}, vamm \in {getVammL2Generator(request.vamm, side)} :
        \E levels \in {getL2(side, orders, <<vamm>>, request.depth)} :
            /\ ShowsBest(side, levels, getL2GeneratorFromDLOBNodes(orders) \o vamm, request.depth)
            /\ ShowsGroups(side, groupL2Levels(side, <<>>, levels, request.grouping, request.depth),
                           levels, request.grouping, request.depth)
            /\ ShowsCurve(side, vamm, request.vamm)
            /\ \A base \in 0 .. SizeOf(orders, LAMBDA o : TRUE) + 1 :
                  base % Grain < 2 =>
                     estimateFillExactBaseAmountInForSide(orders, base) = CostInOrders(orders, side, base)
            /\ ShowsMakers(getBestMakers({}, orders, request.depth), orders, request.depth)

(* No view loses liquidity, shows too much of it or promises a better price *)
(* for it than the book and the AMM give.                                   *)
LiquidityIsKept == UncrossKeepsLiquidity /\ ViewsShowTheBook
=============================================================================
