---------------------------- MODULE MCOrderBook ----------------------------
(* Small instances for TLC of the order book: one list of it ("list"), the  *)
(* book as the orders of the chain come and go ("book"), the search for     *)
(* orders to fill ("search"), and what is shown and estimated ("levels").   *)
(* They share nothing: one of them runs, the others stay as they begin.     *)
EXTENDS OrderBook, TLC

CONSTANTS
    Systems,            \* those of the four that may run
    Requests,           \* of the fourth
    o1, o2, o3, o4, o5, limit, atMarket, stop, m1, m2, m3, u1, u2

VARIABLES running, request, uncross, fill

-----------------------------------------------------------------------------
(* The list: o1 and o2 tie on the sort value and the slot, o3 ties on the   *)
(* sort value, o4 is worse in ascending order and o5 better.  They are two  *)
(* users' who both count from 1: o1, o2 and o4 are the one's.               *)
MCSortValue == (o1 :> 5) @@ (o2 :> 5) @@ (o3 :> 5) @@ (o4 :> 6) @@ (o5 :> 4)
MCListSlot  == (o1 :> 2) @@ (o2 :> 2) @@ (o3 :> 1) @@ (o4 :> 1) @@ (o5 :> 3)
TwoUsers    == (o1 :> 1) @@ (o2 :> 2) @@ (o3 :> 1) @@ (o4 :> 3) @@ (o5 :> 2)

(* The book.  limit: a limit order with an auction of one slot; atMarket: a *)
(* market order; stop: a floating trigger order; all placed in slot 1.      *)
(* The book also handles records of before the snapshot: of two orders for  *)
(* callers that know the slot, of limit and of stop for callers with slots  *)
(* that are up to two old.  And without such records, with those callers.   *)
MCOrderType == (limit :> "limit") @@ (atMarket :> "market") @@ (stop :> "triggerLimit")
MCOrderSlot == [o \in Order |-> 1]
NotPostOnly == [o \in Order |-> FALSE]
StopFloats  == [o \in Order |-> o = stop]
MCDuration  == [o \in Order |-> IF o = stop THEN 0 ELSE 1]
MCSettings  ==
    {[orders |-> {limit, atMarket}, lag |-> 0, overlap |-> TRUE],
     [orders |-> {stop}, lag |-> 2, overlap |-> TRUE],
     [orders |-> {limit}, lag |-> 2, overlap |-> TRUE],
     [orders |-> {limit, stop}, lag |-> 2, overlap |-> FALSE]}

(* The search: every book of three orders, of sizes 2, 1 and 1 and slots 2, *)
(* 1 and 3, made of resting orders at two prices, post-only or not, the two *)
(* small ones also floating in an auction, and takers with and without a    *)
(* price.  A list is sorted by price, or by the other price in an auction.  *)
Kinds(o) ==
    [list : {"restingLimit"}, price : {3, 4}, postOnly : BOOLEAN] \cup
    [list : {"taking"}, price : {4, None}, postOnly : {FALSE}] \cup
    [list : IF o = m1 THEN {} ELSE {"floatingLimit"}, price : {3, 4}, postOnly : {FALSE}]
Users(o) == IF o = m1 THEN {u1} ELSE {u1, u2}
MCOrder(o, k, side, user) ==
    LET index == CASE o = m1 -> 2 [] o = m2 -> 1 [] o = m3 -> 3
        sortValue == IF k.list = "floatingLimit" THEN 7 - k.price ELSE k.price
    IN  [side |-> side, kind |-> IF k.list = "taking" THEN "taking" ELSE "resting", list |-> k.list,
         place |-> IF k.list = "taking" THEN 0
                   ELSE 10 * (IF side = "ask" THEN sortValue ELSE 7 - sortValue) + index,
         user |-> user, price |-> k.price, postOnly |-> k.postOnly, slot |-> index,
         auctionDuration |-> IF k.list = "restingLimit" THEN 0 ELSE 5,
         auctionPrices |-> k.list # "restingLimit",
         base |-> IF o = m1 THEN 2 ELSE 1,
         expired |-> o = m3]
Orders(o) == {MCOrder(o, k, side, user) : k \in Kinds(o), side \in {"bid", "ask"}, user \in Users(o)}
MCBook == {(m1 :> a) @@ (m2 :> b) @@ (m3 :> c) : a \in Orders(m1), b \in Orders(m2), c \in Orders(m3)}

MCMarket ==
    {[marketType |-> type, fallbackBid |-> IF fallback THEN 4 ELSE None,
      fallbackAsk |-> IF fallback THEN 3 ELSE None, fillPaused |-> FALSE, ammPaused |-> FALSE] :
        type \in {"perp", "spot"}, fallback \in BOOLEAN}
    \cup {[marketType |-> "perp", fallbackBid |-> 4, fallbackAsk |-> 3,
           fillPaused |-> paused, ammPaused |-> ~paused] : paused \in BOOLEAN}

-----------------------------------------------------------------------------
(* Levels and estimates, at prices around 100.                              *)
Shown == INSTANCE EntryPrice WITH
    PRICE_PRECISION <- 10, PEG_PRECISION <- 1, BASE_PRECISION <- 100,
    AMM_TIMES_PEG_TO_QUOTE_PRECISION_RATIO <- 10, BID_ASK_SPREAD_PRECISION <- 1000,
    BN_MAX <- 100000, Rounding <- 8, Grain <- 20

InOrder(side, prices, lengths) ==
    {s \in UNION {[1 .. n -> prices] : n \in lengths} :
        \A i, j \in DOMAIN s : i < j => ~Shown!Better(side, s[j], s[i])}
Different(prices) == {p \in prices : \A i, j \in DOMAIN p : i # j => p[i] # p[j]}
LevelsAt(prices) ==
    [i \in DOMAIN prices |-> Shown!Level(prices[i], i, IF i = 2 THEN "vamm" ELSE "dlob")]
OrdersAt(prices, sizes) ==
    [i \in DOMAIN prices |-> [price |-> prices[i], size |-> sizes[i], maker |-> <<u1, u1, u2>>[i]]]
Sizes == <<200, 500, 300>>

(* Crossing, touching and uncrossed books, with and without the user's own. *)
UncrossPrices == {98, 100, 101, 103, 105}
UncrossOf(lengths, owns) ==
    {[kind |-> "uncross", bids |-> LevelsAt(b), asks |-> LevelsAt(a), oraclePrice |-> oracle,
      oracleTwap5Min |-> 100, markTwap5Min |-> 101, grouping |-> grouping,
      userBids |-> own \cap {103}, userAsks |-> own \cap {100}] :
        b \in Different(InOrder("bids", UncrossPrices, lengths)),
        a \in Different(InOrder("asks", UncrossPrices, lengths)),
        oracle \in {100, 101}, grouping \in {1, 3}, own \in owns}

(* An AMM that has much, little or nothing to give.                         *)
Vamm(spread, room, tops, paused) ==
    [amm |-> [baseAssetReserve |-> 4000, quoteAssetReserve |-> 4000, sqrtK |-> 4000, pegMultiplier |-> 10],
     longSpread |-> spread, shortSpread |-> spread, paused |-> paused,
     minBaseAssetReserve |-> 4000 - room, maxBaseAssetReserve |-> 4000 + room,
     orderStepSize |-> 20, minOrderSize |-> 30, topOfBookQuoteAmounts |-> tops, numOrders |-> 4]
Vamms ==
    {Vamm(spread, room, tops, FALSE) : spread \in {0, 20}, room \in {48, 800}, tops \in {<<>>, <<200, 300>>}}
    \cup {Vamm(0, 800, <<>>, TRUE)}

AskPrices == {103, 108, 115}
BidPrices == {97, 92, 85}
Mirrored(prices) == [i \in DOMAIN prices |-> 200 - prices[i]]
ViewRequests ==
    {[kind |-> "view", bids |-> OrdersAt(Mirrored(p), Sizes), asks |-> OrdersAt(p, Sizes), vamm |-> vamm,
      depth |-> depth, grouping |-> 5] :
        p \in InOrder("asks", AskPrices, 0 .. 3), vamm \in Vamms, depth \in {1, 2, 6}}

Entry(kind, assetType, amount, direction, vamm, orders, serum, skip) ==
    [kind |-> kind, assetType |-> assetType, amount |-> amount, direction |-> direction, vamm |-> vamm,
     orders |-> orders, serum |-> serum, usersToSkip |-> skip]
EntryOf(kind, amounts, vamms, books, serums, skip) ==
    UNION {{Entry(kind, asset, amount, d, vamm, orders, serum, skip) :
                asset \in {"base", "quote"}, amount \in amounts, vamm \in vamms,
                orders \in books[d], serum \in serums[d]} : d \in {"long", "short"}}
PerDirection(lengths, sizes) ==
    [long |-> {OrdersAt(p, sizes) : p \in InOrder("asks", AskPrices, lengths)},
     short |-> {OrdersAt(p, sizes) : p \in InOrder("bids", BidPrices, lengths)}]
Nothing == [long |-> {<<>>}, short |-> {<<>>}]
BookMade(vamm, side, orders) ==
    LET levels == Shown!getL2(side, orders, <<Shown!getVammL2Generator(vamm, side)>>, 6)
    IN [i \in DOMAIN levels |-> [price |-> levels[i].price, size |-> levels[i].size, maker |-> None]]
BooksMade ==
    LET Made(side, orders) == {BookMade(vamm, side, o) : vamm \in Vamms, o \in orders}
        all == PerDirection({0, 3}, Sizes)
    IN [long |-> Made("asks", all.long), short |-> Made("bids", all.short)]

MCRequests ==
    UncrossOf(0 .. 3, {{}, {103}, {100, 103}}) \cup ViewRequests
    \cup EntryOf("perp", {400, 900, 1500}, {Vamm(spread, room, <<>>, FALSE) : spread \in {0, 20}, room \in {48, 800}},
                 PerDirection(0 .. 3, Sizes), Nothing, {})
    \cup EntryOf("perp", {900}, {Vamm(0, 800, <<>>, FALSE)}, PerDirection(0 .. 2, Sizes), Nothing,
                 {Shown!PublicKey(u1)})
    \cup EntryOf("spot", {100, 600, 2000}, {Vamm(0, 48, <<>>, FALSE)},
                 PerDirection(0 .. 2, Sizes), PerDirection(0 .. 2, <<150, 250>>), {})
    \cup EntryOf("l2", {100, 600}, {Vamm(0, 48, <<>>, FALSE)}, BooksMade, Nothing, {})

(* Books without levels of the user's.                                      *)
CrossingRequests == UncrossOf(1 .. 2, {{}})

-----------------------------------------------------------------------------
ASSUME Assumptions ==
    /\ BookAssumption
    /\ List!ListAssumption
    /\ Search!BookAssumption /\ Shown!PrecisionsArePositive

shownVars == <<request, uncross, fill>>
MCvars == <<running, listVars, vars, searchVars, shownVars>>

(* Those that do not run have one beginning only.                           *)
MCInit ==
    /\ running \in Systems
    /\ List!Init
    /\ Init /\ (running = "book" \/ setting = (CHOOSE s \in MCSettings : TRUE))
    /\ IF running = "search" THEN Search!Init
       ELSE Search!Init /\ order = (CHOOSE b \in MCBook : TRUE) /\ market = (CHOOSE m \in MCMarket : TRUE)
    /\ IF running = "levels" THEN Shown!Init(Requests)
       ELSE request = None /\ uncross = None /\ fill = None
MCNext ==
    \/ running = "list" /\ UNCHANGED <<running, vars, searchVars, shownVars>> /\ List!Next
    \/ running = "book" /\ UNCHANGED <<running, listVars, searchVars, shownVars>> /\ Next
    \/ running = "search" /\ UNCHANGED <<running, listVars, vars, shownVars>> /\ Search!Next
    \/ running = "levels" /\ UNCHANGED <<running, listVars, vars, searchVars>> /\ Shown!Next
MCSpec == MCInit /\ [][MCNext]_MCvars

-----------------------------------------------------------------------------
(* Levels and estimates: what is shown is what there is, and no estimate    *)
(* beats or misses it.                                                      *)
LiquidityIsKept == running = "levels" => Shown!LiquidityIsKept /\ Shown!BestExecution
Uncrossed       == running = "levels" => Shown!Uncrossed
=============================================================================
