------------------------------ MODULE AmmMath ------------------------------
(* The curve of a virtual AMM (math/amm.ts): base and quote reserves whose   *)
(* product is sqrtK squared, and a peg that turns quote reserves into quote. *)
(* An amm is a record of baseAssetReserve, quoteAssetReserve, sqrtK and      *)
(* pegMultiplier.  A spread is given: how it follows from volatility and     *)
(* inventory is not modelled.  The powers of ten are parameters.             *)
EXTENDS BigNumbers

CONSTANTS
    PRICE_PRECISION,
    PEG_PRECISION,
    BASE_PRECISION,
    AMM_TIMES_PEG_TO_QUOTE_PRECISION_RATIO,
    BID_ASK_SPREAD_PRECISION

(* Each is a positive number.                                               *)
PrecisionsArePositive ==
    {PRICE_PRECISION, PEG_PRECISION, BASE_PRECISION, AMM_TIMES_PEG_TO_QUOTE_PRECISION_RATIO,
     BID_ASK_SPREAD_PRECISION} \subseteq Nat \ {0}

calculatePrice(amm) ==
    IF amm.baseAssetReserve = 0 THEN 0
    ELSE Div(Div(amm.quoteAssetReserve * PRICE_PRECISION * amm.pegMultiplier, PEG_PRECISION),
             amm.baseAssetReserve)

(* Taking base out of the curve is a long trade.                            *)
getSwapDirection(assetType, direction) ==
    IF (direction = "long") = (assetType = "base") THEN "remove" ELSE "add"
calculateSwapOutput(reserve, amount, swap, invariant) ==
    LET after == IF swap = "add" THEN reserve + amount ELSE reserve - amount
    IN [input |-> after, output |-> Div(invariant, after)]

(* The amm after a swap of so much base, or so much quote.                  *)
calculateAmmReservesAfterSwap(amm, assetType, amount, swap) ==
    LET invariant == amm.sqrtK * amm.sqrtK
        scaled == Div(amount * AMM_TIMES_PEG_TO_QUOTE_PRECISION_RATIO, amm.pegMultiplier)
        OfQuote(out) == [amm EXCEPT !.quoteAssetReserve = out.input, !.baseAssetReserve = out.output]
        OfBase(out) == [amm EXCEPT !.baseAssetReserve = out.input, !.quoteAssetReserve = out.output]
    IN IF assetType = "quote"
       THEN OfQuote(calculateSwapOutput(amm.quoteAssetReserve, scaled, swap, invariant))
       ELSE OfBase(calculateSwapOutput(amm.baseAssetReserve, amount, swap, invariant))

(* What is paid for reserves taken from the curve is rounded up.            *)
calculateQuoteAssetAmountSwapped(reserves, peg, swap) ==
    LET up == IF swap = "remove" THEN 1 ELSE 0
    IN Div((reserves + up) * peg, AMM_TIMES_PEG_TO_QUOTE_PRECISION_RATIO) + up
QuoteSwapped(amm, after, swap) ==
    calculateQuoteAssetAmountSwapped(Abs(amm.quoteAssetReserve - after.quoteAssetReserve),
                                     amm.pegMultiplier, swap)

(* How far the base reserve may move; too little for two steps is nothing.  *)
Open(room, stepSize) == IF room =< 0 \/ room \div 2 < stepSize THEN 0 ELSE room
calculateMarketOpenBidAsk(base, minBase, maxBase, stepSize) ==
    [bids |-> Open(maxBase - base, stepSize), asks |-> Open(base - minBase, stepSize)]

(* The curve an order of this direction meets, moved by half the spread.    *)
HalfSpread(spread) ==
    IF Div(spread, 2) # 0 THEN Div(spread, 2) ELSE IF spread >= 0 THEN 1 ELSE -1
calculateSpreadReserve(amm, spread) ==
    LET quote == amm.quoteAssetReserve
                 + Div(amm.quoteAssetReserve, Div(BID_ASK_SPREAD_PRECISION, HalfSpread(spread)))
    IN IF spread = 0 THEN amm
       ELSE [amm EXCEPT !.quoteAssetReserve = quote,
                        !.baseAssetReserve = Div(amm.sqrtK * amm.sqrtK, quote)]
calculateSpreadReserves(amm, longSpread, shortSpread) ==
    [asks |-> calculateSpreadReserve(amm, longSpread), bids |-> calculateSpreadReserve(amm, -shortSpread)]

standardizePrice(price, tickSize, direction) ==
    LET remainder == price % tickSize
    IN IF remainder = 0 THEN price
       ELSE IF direction = "long" THEN price - remainder ELSE price + tickSize - remainder
=============================================================================
