------------------------------ MODULE OrderBook ------------------------------
(***************************************************************************)
(* dlob/: the order book, from three sides.  Which orders it has as they    *)
(* come and go on chain (DLOB, this module's own variables), how one of its *)
(* lists is linked and sorted (List), and the search for orders to fill     *)
(* (Search).  DLOB takes its lists for sets, the search takes them to be in *)
(* the order of their sort values, which is what List promises; each side   *)
(* has its own orders here.                                                 *)
(***************************************************************************)
EXTENDS DLOB

CONSTANTS
    ListOrder, OrderId, SortValue, ListSlot, Descending, Version,
    SearchOrder, Book, Market, User, Slot, minAuctionDuration,
    makerRebateNumerator, makerRebateDenominator
VARIABLES
    nodeMap, head, next, previous, length, object, mistaken,
    order, market, filled, phase, outer, visited, nodesToFill, expired

List == INSTANCE NodeList WITH Order <- ListOrder, OrderSlot <- ListSlot
Search == INSTANCE DLOBMatching WITH Order <- SearchOrder

listVars == <<nodeMap, head, next, previous, length, object, mistaken>>
searchVars == <<order, market, filled, phase, outer, visited, nodesToFill, expired>>

(* Once its records are handled, an order is in the book exactly if it is   *)
(* open, with what is filled of it, in the one list that its contents, its  *)
(* kind and its auction call for.  Its contents say what it was inserted    *)
(* with: an order that is triggered later stays in trigger.  Two orders may *)
(* be elsewhere: one for which a method was called with an older slot than  *)
(* before, with the end of the auction in between (misjudged), and one that *)
(* a record and the snapshot inserted, before and after it was triggered,   *)
(* which may be in trigger besides (InsertedAsBoth).                        *)
BookIsTheChains == BookIsTheOpenOrders /\ ListsAgreeWithAuctions

(* The list is linked in both directions and in price-time priority, and    *)
(* what its generator yields is the sorted list, until remove takes another *)
(* user's order of the same id for the head.                                *)
ListSound == List!ListSound
ImplementsSortedList == List!ImplementsSortedList

(* Every match is one that a fill may make, and what is matched balances;   *)
(* no cross is left when the search is over, and a match takes the best     *)
(* price, but for what an auction puts behind an order of a worse price.    *)
MatchesAreLegal == Search!TypeOK /\ Search!MatchesBalance /\ Search!MatchesAreLegal
NoCrossLeft     == Search!NoCrossLeft
PricePriority   == Search!PricePriority
=============================================================================
