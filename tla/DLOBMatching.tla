---------------------------- MODULE DLOBMatching ----------------------------
(***************************************************************************)
(* dlob/DLOB.ts, findNodesToFill: the search of one market for orders that  *)
(* can be filled.  It runs without interruption and changes the book: what  *)
(* a match would fill is added to the filled amounts, so that it is not     *)
(* offered twice.  One step is one step of the nested loops.                *)
(*                                                                         *)
(* The book is given by the orders in its lists, each with its place in its *)
(* list and with the price that getPrice computes for the slot of the call. *)
(* A resting order's place follows the price or the oracle offset it was    *)
(* given, its price follows its auction as long as that lasts: only the     *)
(* orders that are in no auction are sure to be in the order of their       *)
(* prices.  Takers are walked oldest first, with ties left open.            *)
(***************************************************************************)
EXTENDS Integers, FiniteSets, FiniteSetsExt

CONSTANTS
    Order,
    Book,               \* the books to search
    Market,             \* the markets and fallback prices to search with
    User,
    Slot,               \* the slot of the call
    minAuctionDuration,
    makerRebateNumerator, makerRebateDenominator,
    None

VARIABLES
    order,      \* the orders: side, kind, user, price, ...
    market,     \* marketType, fallbackBid, fallbackAsk, fillPaused, ammPaused
    filled,     \* baseAssetAmountFilled of each order
    phase,      \* which part of the search is running
    outer,      \* the node of the outer loop, or None
    visited,    \* what the outer and the inner generator have yielded
    nodesToFill,\* pairs of a node and its maker, None for the fallback
    expired     \* nodes of findExpiredNodesToFill

vars == <<order, market, filled, phase, outer, visited, nodesToFill, expired>>
loop == <<filled, outer, visited>>

(* A taking order, one of market or takingLimit, may have no price.         *)
OrderFields ==
    [side : {"bid", "ask"}, kind : {"resting", "taking"}, list : {"restingLimit", "floatingLimit", "taking"},
     place : Nat, user : User, price : Nat \cup {None}, postOnly : BOOLEAN,
     slot : Nat, auctionDuration : Nat, auctionPrices : BOOLEAN, base : Nat \ {0}, expired : BOOLEAN]
MarketType ==
    [marketType : {"perp", "spot"}, fallbackBid : Nat \cup {None}, fallbackAsk : Nat \cup {None},
     fillPaused : BOOLEAN, ammPaused : BOOLEAN]

(* Whether getLimitPrice takes the price of the auction.                    *)
hasAuctionPrice(r) ==
    r.auctionPrices /\ r.auctionDuration # 0 /\ Slot - r.slot <= r.auctionDuration
BetterPrice(r, s) == IF r.side = "ask" THEN r.price < s.price ELSE r.price > s.price

(* One list, and what NodeList does for it.                                 *)
SameList(r, s) == r.kind = "resting" /\ s.kind = "resting" /\ r.side = s.side /\ r.list = s.list
InTurn(r, s) ==
    SameList(r, s) => /\ r.place # s.place
                      /\ r.place < s.place /\ ~hasAuctionPrice(r) /\ ~hasAuctionPrice(s) => ~BetterPrice(s, r)
BookAssumption ==
    /\ IsFiniteSet(Order) /\ Book \subseteq [Order -> OrderFields]
    /\ \A book \in Book : \A o \in Order :
          /\ book[o].kind = "resting" => book[o].price # None /\ book[o].list # "taking"
          /\ \A q \in Order \ {o} : InTurn(book[o], book[q])
    /\ Market \subseteq MarketType /\ None \notin Nat /\ None \notin Order
    /\ makerRebateNumerator \in Nat /\ makerRebateDenominator \in Nat \ {0}

Nothing == [outer |-> {}, inner |-> {}]

Init ==
    /\ order \in Book
    /\ market \in Market
    /\ filled = [o \in Order |-> 0]
    /\ phase = IF market.fillPaused THEN "done" ELSE "restingCross"
    /\ outer = None
    /\ visited = Nothing
    /\ nodesToFill = {}
    /\ expired = {}

-----------------------------------------------------------------------------
(* The lists and their generators.                                          *)

Spot == market.marketType = "spot"
isBaseFilled(o) == filled[o] = order[o].base
Resting(side) == {o \in Order : order[o].kind = "resting" /\ order[o].side = side}
Taking(side) == {o \in Order : order[o].kind = "taking" /\ order[o].side = side}

Better(o, q) == BetterPrice(order[o], order[q])

(* What the list generators stand at: the first of each list.               *)
heads(nodes) ==
    {o \in nodes : \A q \in nodes : SameList(order[o], order[q]) => order[o].place <= order[q].place}

(* Mutant: the worst price first.                                           *)
worstPrice(nodes) == {o \in nodes : \A q \in nodes : ~Better(o, q)}

(* Of two heads with one price the floating order's goes first.             *)
bestPrice(nodes) ==
    {o \in nodes : \A q \in nodes :
        ~Better(q, o) /\ (order[q].price = order[o].price => q = o \/ order[o].list = "floatingLimit")}
oldest(nodes) == {o \in nodes : \A q \in nodes : order[o].slot <= order[q].slot}

(* The node that getBestNode comes to next; a filled one it does not yield. *)
getRestingLimit(side, seen) == bestPrice(heads(Resting(side) \ seen))
getTaking(side, seen) == oldest(Taking(side) \ seen)

-----------------------------------------------------------------------------
(* The matching loops.  In each phase an outer node meets makers or resting *)
(* orders of the other side.                                                *)

InnerSide == IF phase = "takingBids" THEN "ask" ELSE "bid"
OuterNodes ==
    CASE phase = "restingCross" -> getRestingLimit("ask", visited.outer)
      [] phase = "takingAsks"   -> getTaking("ask", visited.outer)
      [] phase = "takingBids"   -> getTaking("bid", visited.outer)
InnerNodes == getRestingLimit(InnerSide, visited.inner)

SameUser(o, q) == order[o].user = order[q].user
BothPostOnly(o, q) == order[o].postOnly /\ order[q].postOnly

(* A taker with no price crosses on a perp market and not on a spot market, *)
(* where a maker worse than the fallback does not count either.             *)
doesCross(taker, maker) ==
    LET p == order[taker].price  m == order[maker].price IN
    IF order[taker].side = "ask"
    THEN /\ Spot => p # None /\ (market.fallbackBid # None => m >= market.fallbackBid)
         /\ p # None => p <= m
    ELSE /\ Spot => p # None /\ (market.fallbackAsk # None => m <= market.fallbackAsk)
         /\ p # None => p >= m

(* What the loop over the other side goes on for.                           *)
PricesCross(o, q) ==
    IF order[o].kind = "resting" THEN order[o].price <= order[q].price ELSE doesCross(o, q)

(* Mutant: in case of doubt the older order is the taker.                   *)
olderTaker(ask, bid) ==
    LET taker == IF order[ask].slot <= order[bid].slot THEN ask ELSE bid
    IN  [node |-> taker, maker |-> IF taker = ask THEN bid ELSE ask]

AuctionEnd(o) == order[o].slot + order[o].auctionDuration
determineMakerAndTaker(ask, bid) ==
    LET taker == IF order[bid].postOnly THEN ask
                 ELSE IF order[ask].postOnly THEN bid
                 ELSE IF AuctionEnd(ask) <= AuctionEnd(bid) THEN bid ELSE ask
    IN  [node |-> taker, maker |-> IF taker = ask THEN bid ELSE ask]

Pair(inner) ==
    IF phase = "restingCross" THEN determineMakerAndTaker(outer, inner)
    ELSE [node |-> outer, maker |-> inner]

(* Mutant: an order of the same user ends the inner loop.                   *)
BreaksAtOwn(inner) ==
    ~isBaseFilled(inner) /\ (SameUser(outer, inner) \/ ~PricesCross(outer, inner))

(* The loop over the resting orders of the other side leaves at this one.   *)
Breaks(inner) ==
    /\ ~isBaseFilled(inner) /\ ~PricesCross(outer, inner)
    /\ phase = "restingCross" \/ ~SameUser(outer, inner)
Skips(inner) ==
    \/ isBaseFilled(inner)
    \/ /\ ~Breaks(inner)
       /\ SameUser(outer, inner) \/ (phase = "restingCross" /\ BothPostOnly(outer, inner))

Remaining(o) == order[o].base - filled[o]

(* The smaller remainder.                                                   *)
BaseFilled(inner) == IF Remaining(outer) <= Remaining(inner) THEN Remaining(outer) ELSE Remaining(inner)

FilledWith(inner) ==
    [o \in Order |-> IF o \in {outer, inner} THEN filled[o] + BaseFilled(inner) ELSE filled[o]]

Looping == phase \in {"restingCross", "takingAsks", "takingBids"}

NextOuter ==
    /\ Looping /\ outer = None
    /\ \E o \in OuterNodes :
          /\ outer' = IF isBaseFilled(o) THEN None ELSE o
          /\ visited' = [outer |-> visited.outer \cup {o}, inner |-> {}]
    /\ UNCHANGED <<order, market, filled, phase, nodesToFill, expired>>

SkipInner ==
    /\ Looping /\ outer # None
    /\ \E inner \in InnerNodes :
          /\ Skips(inner)
          /\ visited' = [visited EXCEPT !.inner = visited.inner \cup {inner}]
    /\ UNCHANGED <<order, market, filled, phase, outer, nodesToFill, expired>>

(* The outer node stays unless it is completely filled.                     *)
Match ==
    /\ Looping /\ outer # None
    /\ \E inner \in InnerNodes :
          /\ ~Breaks(inner) /\ ~Skips(inner)
          /\ nodesToFill' = nodesToFill \cup {Pair(inner)}
          /\ filled' = FilledWith(inner)
          /\ outer' = IF filled'[outer] = order[outer].base THEN None ELSE outer
          /\ visited' = [visited EXCEPT !.inner = visited.inner \cup {inner}]
    /\ UNCHANGED <<order, market, phase, expired>>

LeaveInner ==
    /\ Looping /\ outer # None
    /\ InnerNodes = {} \/ \E inner \in InnerNodes : Breaks(inner)
    /\ outer' = None
    /\ UNCHANGED <<order, market, filled, phase, visited, nodesToFill, expired>>

-----------------------------------------------------------------------------
(* Fallback liquidity: the AMM, or the external book of a spot market.      *)

isFallbackAvailableLiquiditySource(o) ==
    minAuctionDuration = 0 \/ Slot - order[o].slot > minAuctionDuration

CrossingFallback(nodes, crosses) ==
    {o \in nodes :
        /\ ~isBaseFilled(o)
        /\ ~(Spot /\ order[o].postOnly)
        /\ o \in crosses
        /\ Spot \/ isFallbackAvailableLiquiditySource(o)}

(* A resting order pays the maker rebate's worth for the fallback.          *)
Rebate(price) == (price * makerRebateNumerator) \div makerRebateDenominator
AsksUpTo(price) == {o \in Order : order[o].price = None \/ order[o].price <= price}
BidsDownTo(price) == {o \in Order : order[o].price = None \/ order[o].price >= price}

Usable(price) == price # None /\ ~market.ammPaused
FallbackOf(side, kind) ==
    LET bid == market.fallbackBid  ask == market.fallbackAsk IN
    CASE side = "ask" /\ kind = "resting" /\ Usable(bid) ->
            CrossingFallback(Resting("ask"), AsksUpTo(bid - Rebate(bid)))
      [] side = "bid" /\ kind = "resting" /\ Usable(ask) ->
            CrossingFallback(Resting("bid"), BidsDownTo(ask + Rebate(ask)))
      [] side = "ask" /\ kind = "taking" /\ Usable(bid) ->
            CrossingFallback(Taking("ask"), AsksUpTo(bid))
      [] side = "bid" /\ kind = "taking" /\ Usable(ask) ->
            CrossingFallback(Taking("bid"), BidsDownTo(ask))
      [] OTHER -> {}

(* A loop is over: the fallback for what it left, and on to the next loop.  *)
SentToFallback ==
    CASE phase = "restingCross" -> FallbackOf("ask", "resting") \cup FallbackOf("bid", "resting")
      [] phase = "takingAsks"   -> FallbackOf("ask", "taking")
      [] phase = "takingBids"   -> FallbackOf("bid", "taking")
NextPhase ==
    CASE phase = "restingCross" -> "takingAsks"
      [] phase = "takingAsks"   -> "takingBids"
      [] phase = "takingBids"   -> "expired"

LeaveOuter ==
    /\ Looping /\ outer = None
    /\ OuterNodes = {}
    /\ nodesToFill' = nodesToFill \cup {[node |-> o, maker |-> None] : o \in SentToFallback}
    /\ phase' = NextPhase
    /\ visited' = Nothing
    /\ UNCHANGED <<order, market, filled, outer, expired>>

(* Expired orders are reported whether or not they were matched.            *)
findExpiredNodesToFill ==
    /\ phase = "expired"
    /\ expired' = {o \in Order : order[o].expired}
    /\ phase' = "done"
    /\ UNCHANGED <<order, market, filled, outer, visited, nodesToFill>>

(* mergeNodesToFill: one entry for each node, with all of its makers.       *)
mergeNodesToFill == {p.node : p \in nodesToFill}
makerNodes(node) == {p.maker : p \in {q \in nodesToFill : q.node = node}} \ {None}

(* The search has returned; any other state without a step is a deadlock.   *)
Returned == phase = "done" /\ UNCHANGED vars

Next ==
    \/ NextOuter \/ SkipInner \/ Match \/ LeaveInner \/ LeaveOuter
    \/ findExpiredNodesToFill
    \/ Returned

Spec == Init /\ [][Next]_vars

-----------------------------------------------------------------------------
(* Every variable has its type; nothing is filled beyond its size.          *)
TypeOK ==
    /\ order \in [Order -> OrderFields] /\ market \in MarketType
    /\ \A o \in Order : filled[o] \in 0 .. order[o].base
    /\ phase \in {"restingCross", "takingAsks", "takingBids", "expired", "done"}
    /\ outer \in Order \cup {None}
    /\ visited \in [outer : SUBSET Order, inner : SUBSET Order]
    /\ nodesToFill \in SUBSET [node : Order, maker : Order \cup {None}]
    /\ expired \in SUBSET Order

(* Every unit that an ask sells is bought by a bid: the amounts that are    *)
(* put on the two nodes of all matches balance.                             *)
MatchesBalance ==
    LET sum(side) == MapThenSumSet(LAMBDA o : filled[o], {o \in Order : order[o].side = side})
    IN  sum("bid") = sum("ask")

(* A maker was resting, of another user, at a price the taker accepts; no   *)
(* post-only order takes; of two resting orders that are not post-only, the *)
(* maker is the one that finished its auction first.                        *)
Accepts(taker, maker) ==
    LET p == order[taker].price  m == order[maker].price IN
    p # None => IF order[taker].side = "ask" THEN p <= m ELSE p >= m
MatchesAreLegal ==
    \A p \in nodesToFill : p.maker # None =>
        /\ order[p.maker].kind = "resting"
        /\ order[p.node].side # order[p.maker].side
        /\ ~SameUser(p.node, p.maker)
        /\ Accepts(p.node, p.maker)
        /\ order[p.node].kind = "resting" =>
              /\ ~order[p.node].postOnly
              /\ order[p.maker].postOnly \/ AuctionEnd(p.maker) <= AuctionEnd(p.node)

(* x is before q in the list although q has the better price: one of them   *)
(* is in its auction, which the list does not sort by (DLOBNode.ts:108).    *)
Overtakes(q, x) ==
    /\ SameList(order[x], order[q]) /\ order[x].place < order[q].place /\ Better(q, x)
    /\ hasAuctionPrice(order[x]) \/ hasAuctionPrice(order[q])

(* Where the loop for o ends before it comes to q.                          *)
Hidden(q, o) == \E x \in Order : Overtakes(q, x) /\ ~PricesCross(o, x)

(* When the search is over, no ask and bid that rest and no taker and maker *)
(* that could fill each other both have something left, but for makers and  *)
(* bids that an auction hides behind an order with no cross.                *)
NoCrossLeft ==
    phase = "done" /\ ~market.fillPaused =>
        \A o, q \in Order :
            /\ order[o].side # order[q].side /\ ~SameUser(o, q)
            /\ order[q].kind = "resting"
            /\ order[o].kind = "resting" => order[o].side = "ask" /\ ~BothPostOnly(o, q)
            /\ PricesCross(o, q)
            => isBaseFilled(o) \/ isBaseFilled(q) \/ Hidden(q, o)

(* A match takes the best price there is: each maker of that side with a    *)
(* better price, which the node could have been matched with, is filled.    *)
(* Not if an auction has put it behind the maker or a worse order, or its   *)
(* own loop ended before the node, a bid that an auction has put there.     *)
Behind(q, maker) == \E x \in Order : Overtakes(q, x) /\ ~Better(x, maker)
PricePriority ==
    [][\A p \in nodesToFill' \ nodesToFill : p.maker # None =>
        \A q \in Resting(order[p.maker].side) :
            Better(q, p.maker) /\ ~SameUser(q, p.node) /\ ~BothPostOnly(q, p.node)
            => \/ isBaseFilled(q) \/ Behind(q, p.maker)
               \/ order[q].side = "ask" /\ order[p.node].kind = "resting" /\ Hidden(p.node, q)]_vars
=============================================================================
