-------------------------------- MODULE DLOB --------------------------------
(***************************************************************************)
(* dlob/DLOB.ts: the decentralised limit order book of one market.  Orders  *)
(* come from a snapshot of the user accounts and from the records that the  *)
(* program logs; every order belongs in one of five kinds of lists, and a   *)
(* limit order moves from takingLimit to restingLimit when its auction is   *)
(* over.  The caller of a method says which slot it is.                     *)
(*                                                                         *)
(* A list is a map from orders to nodes; its links and its order are in     *)
(* module NodeList.  The side of an order never changes, so the two lists   *)
(* of a kind are taken as one.                                              *)
(***************************************************************************)
EXTENDS Integers, Sequences, FiniteSets

CONSTANTS
    Order,              \* order signatures
    OrderType, PostOnly, Floating, OrderSlot, AuctionDuration,
                        \* fields of each order that never change
    ProtectedUser,      \* orders of users that are protected makers
    Base,               \* base asset amount of every order
    None,               \* no order or no node
    Undefined,          \* JavaScript's undefined
    MaxSlot,            \* bound: last slot
    MaxPending,         \* bound: records logged and not handled yet
    Settings            \* what to consider: the orders that are placed, how old a slot
                        \*   a method may be called with, and whether the book also
                        \*   handles records logged before the snapshot it begins with

Contents == [filled : 0 .. Base, triggered : BOOLEAN]
Node == [order : Contents, isUserProtectedMaker : BOOLEAN \cup {Undefined}]

BookAssumption ==
    /\ OrderType \in [Order -> {"market", "oracle", "limit", "triggerMarket", "triggerLimit"}]
    /\ PostOnly \in [Order -> BOOLEAN] /\ Floating \in [Order -> BOOLEAN]
    /\ OrderSlot \in [Order -> 1 .. MaxSlot] /\ AuctionDuration \in [Order -> Nat]
    /\ ProtectedUser \subseteq Order /\ None \notin Order /\ None \notin Node
    /\ Base \in Nat \ {0} /\ MaxSlot \in Nat \ {0} /\ MaxPending \in Nat
    /\ Settings \subseteq [orders : SUBSET Order, lag : Nat, overlap : BOOLEAN]

VARIABLES
    setting,
    lists,      \* lists[kind][o]: the node of o in that list, or None
    maxSlotForRestingLimitOrders,
    initialized,
    told,       \* history, since the book was last cleared: the values of triggered
                \*   that an order was inserted with, the newest slot that a method
    newest,     \*   was called with, and the orders that a method looked for in
    misjudged,  \*   another list than the one this slot calls for
    now,        \* the chain: its slot, the state of its orders, and the
    chain,      \*   records it logged that the book has not handled yet
    log

book == <<lists, maxSlotForRestingLimitOrders>>
history == <<told, newest, misjudged>>
vars == <<setting, lists, maxSlotForRestingLimitOrders, initialized, history, now, chain, log>>

Kind == {"restingLimit", "takingLimit", "floatingLimit", "market", "trigger"}
NoLists == [kind \in Kind |-> [o \in Order |-> None]]

Init ==
    /\ setting \in Settings
    /\ lists = NoLists
    /\ maxSlotForRestingLimitOrders = 0
    /\ initialized = FALSE
    /\ told = [o \in Order |-> {}]
    /\ newest = 0 /\ misjudged = {}
    /\ now = 1
    /\ chain = [o \in Order |-> [status |-> "absent", filled |-> 0, triggered |-> FALSE]]
    /\ log = <<>>

-----------------------------------------------------------------------------
(* Where an order belongs.                                                  *)

mustBeTriggered(o) == OrderType[o] \in {"triggerMarket", "triggerLimit"}
isLimitOrder(o) == OrderType[o] \in {"limit", "triggerLimit"}

isAuctionComplete(o, slot) ==
    AuctionDuration[o] # 0 => slot - OrderSlot[o] > AuctionDuration[o]

isRestingLimitOrder(o, slot) ==
    isLimitOrder(o) /\ (PostOnly[o] \/ isAuctionComplete(o, slot))

(* getListForOrder: decided from the order's contents and the caller's slot. *)
getListForOrder(o, contents, slot) ==
    IF mustBeTriggered(o) /\ ~contents.triggered THEN "trigger"
    ELSE IF ~isLimitOrder(o) THEN "market"
    ELSE IF Floating[o] THEN "floatingLimit"
    ELSE IF isRestingLimitOrder(o, slot) THEN "restingLimit"
    ELSE "takingLimit"

(* getOrder: the contents held by the first list that has the order.        *)
KindsInSearchOrder == <<"restingLimit", "takingLimit", "market", "floatingLimit", "trigger">>
Listed(ls, o) == \E kind \in Kind : ls[kind][o] # None
getOrder(ls, o) ==
    LET first == CHOOSE i \in 1 .. 5 :
            /\ ls[KindsInSearchOrder[i]][o] # None
            /\ \A j \in 1 .. i - 1 : ls[KindsInSearchOrder[j]][o] = None
    IN  ls[KindsInSearchOrder[first]][o].order

-----------------------------------------------------------------------------
(* The methods, as functions from lists to lists.                           *)

(* NodeList.insert keeps the node that is already there.                    *)
InsertNode(ls, kind, o, node) ==
    IF ls[kind][o] # None THEN ls ELSE [ls EXCEPT ![kind][o] = node]

RemoveNode(ls, kind, o) == [ls EXCEPT ![kind][o] = None]

(* NodeList.update                                                          *)
UpdateNode(ls, kind, o, contents) ==
    IF ls[kind][o] = None THEN ls ELSE [ls EXCEPT ![kind][o].order = contents]

insertOrder(ls, o, contents, slot, protected) ==
    InsertNode(ls, getListForOrder(o, contents, slot), o,
               [order |-> contents, isUserProtectedMaker |-> protected])

(* updateRestingLimitOrders does nothing for a slot that is not newer.      *)
NowResting(slot) ==
    {o \in Order : /\ lists["takingLimit"][o] # None
                   /\ slot > maxSlotForRestingLimitOrders
                   /\ isRestingLimitOrder(o, slot)}

NotTaking(moving) ==
    [o \in Order |-> IF o \in moving THEN None ELSE lists["takingLimit"][o]]

(* The new nodes are made without the last argument of insert.              *)
MovedNode(o) ==
    [order |-> lists["takingLimit"][o].order, isUserProtectedMaker |-> Undefined]
updateRestingLimitOrders(slot) ==
    [lists EXCEPT !["takingLimit"]  = NotTaking(NowResting(slot)),
                  !["restingLimit"] = [o \in Order |->
                        IF o \in NowResting(slot) /\ lists["restingLimit"][o] = None
                        THEN MovedNode(o) ELSE lists["restingLimit"][o]]]
maxSlotAfter(slot) ==
    IF slot > maxSlotForRestingLimitOrders THEN slot ELSE maxSlotForRestingLimitOrders

(* Mutant: the order is taken from restingLimit only.                       *)
DeletedIfResting(ls, o, contents, slot) == RemoveNode(ls, "restingLimit", o)

(* delete, after updateRestingLimitOrders.                                  *)
Deleted(ls, o, contents, slot) == RemoveNode(ls, getListForOrder(o, contents, slot), o)

(* updateOrder, after updateRestingLimitOrders.                             *)
Updated(ls, o, slot, filled) ==
    LET order == getOrder(ls, o) IN
    IF filled = Base THEN Deleted(ls, o, order, slot)
    ELSE UpdateNode(ls, getListForOrder(o, order, slot), o, [order EXCEPT !.filled = filled])

(* trigger, after updateRestingLimitOrders: the order is inserted with the  *)
(* contents it had, not triggered, so getListForOrder finds the trigger list. *)
Triggered(ls, o, slot) ==
    LET order == getOrder(ls, o) IN
    IF order.triggered THEN ls
    ELSE insertOrder(RemoveNode(ls, "trigger", o), o, order, slot, FALSE)

(* What a record does for one of its orders, which may be absent from the   *)
(* record or unknown to the book.                                           *)
HandleFor(ls, record, o, filled, slot) ==
    IF o = None \/ ~Listed(ls, o) THEN ls
    ELSE CASE record.action = "trigger" -> Triggered(ls, o, slot)
           [] record.action = "fill"    -> Updated(ls, o, slot, filled)
           [] record.action = "cancel"  -> Deleted(ls, o, getOrder(ls, o), slot)

-----------------------------------------------------------------------------
(* The chain: orders are placed in their slot, triggered, filled one unit   *)
(* at a time against another order or the AMM, cancelled or expired.        *)

Record(action, taker, maker, after) ==
    [action |-> action, taker |-> taker, maker |-> maker,
     takerFilled |-> IF taker = None THEN 0 ELSE after[taker].filled,
     makerFilled |-> IF maker = None THEN 0 ELSE after[maker].filled]

Logs == Len(log) < MaxPending
Open(o) == chain[o].status = "open"
Active(o) == Open(o) /\ (mustBeTriggered(o) => chain[o].triggered)

AdvanceSlot ==
    /\ now < MaxSlot
    /\ now' = now + 1
    /\ UNCHANGED <<setting, book, initialized, history, chain, log>>

Place(o) ==
    /\ o \in setting.orders /\ chain[o].status = "absent" /\ now = OrderSlot[o]
    /\ Logs
    /\ chain' = [chain EXCEPT ![o].status = "open"]
    /\ log' = Append(log, [action |-> "order", order |-> o])
    /\ UNCHANGED <<setting, book, initialized, history, now>>

TriggerOnChain(o) ==
    /\ Open(o) /\ mustBeTriggered(o) /\ ~chain[o].triggered
    /\ Logs
    /\ chain' = [chain EXCEPT ![o].triggered = TRUE]
    /\ log' = Append(log, Record("trigger", o, None, chain'))
    /\ UNCHANGED <<setting, book, initialized, history, now>>

(* A taker is filled by a maker, or by the AMM when there is none.          *)
OneUnit(order) ==
    [order EXCEPT !.filled = order.filled + 1,
                  !.status = IF order.filled + 1 = Base THEN "closed" ELSE "open"]
FillOnChain(taker, maker) ==
    /\ taker # maker /\ Active(taker)
    /\ Logs
    /\ maker # None => Active(maker)
    /\ chain' = [o \in Order |-> IF o \in {taker, maker} THEN OneUnit(chain[o]) ELSE chain[o]]
    /\ log' = Append(log, Record("fill", taker, maker, chain'))
    /\ UNCHANGED <<setting, book, initialized, history, now>>

CancelOnChain(o) ==
    /\ Open(o)
    /\ Logs
    /\ chain' = [chain EXCEPT ![o].status = "closed"]
    /\ \/ log' = Append(log, Record("cancel", o, None, chain'))
       \/ log' = Append(log, Record("cancel", None, o, chain'))
    /\ UNCHANGED <<setting, book, initialized, history, now>>

ExpireOnChain(o) ==
    /\ Open(o)
    /\ Logs
    /\ chain' = [chain EXCEPT ![o].status = "expired"]
    /\ log' = Append(log, Record("expire", o, None, chain'))
    /\ UNCHANGED <<setting, book, initialized, history, now>>

-----------------------------------------------------------------------------
(* The book.  CallSlot: the slot a caller may pass.                         *)
CallSlot == {s \in 1 .. MaxSlot : s <= now /\ s >= now - setting.lag}
newestAfter(slot) == IF slot > newest THEN slot ELSE newest

(* The slot is older than one that was used before, and between the two the *)
(* auction of the order ends.                                               *)
Misjudges(o, contents, slot) ==
    slot < newest /\ getListForOrder(o, contents, slot) # getListForOrder(o, contents, newest)

ContentsOnChain(o) == [filled |-> chain[o].filled, triggered |-> chain[o].triggered]

(* initFromUserMap: every order of every user; initialized is never reset.  *)
initFromUserMap(slot) ==
    /\ ~initialized
    /\ lists' = [kind \in Kind |-> [o \in Order |->
          IF Open(o) THEN insertOrder(lists, o, ContentsOnChain(o), slot, o \in ProtectedUser)[kind][o]
          ELSE lists[kind][o]]]
    /\ told' = [o \in Order |-> told[o] \cup (IF Open(o) THEN {chain[o].triggered} ELSE {})]
    /\ newest' = newestAfter(slot)
    /\ misjudged' = misjudged \cup {o \in Order : Open(o) /\ Misjudges(o, ContentsOnChain(o), slot)}
    /\ initialized' = TRUE
    /\ log' = IF setting.overlap THEN log ELSE <<>>
    /\ UNCHANGED <<setting, maxSlotForRestingLimitOrders, now, chain>>

Listening == initialized \/ setting.overlap

(* handleOrderRecord, for the oldest record, which has the order as it was  *)
(* placed.                                                                  *)
AsPlaced == [filled |-> 0, triggered |-> FALSE]
handleOrderRecord(slot) ==
    /\ Listening
    /\ log # <<>> /\ Head(log).action = "order"
    /\ lists' = insertOrder(lists, Head(log).order, AsPlaced, slot, FALSE)
    /\ told' = [told EXCEPT ![Head(log).order] = @ \cup {FALSE}]
    /\ newest' = newestAfter(slot)
    /\ misjudged' = misjudged \cup {o \in {Head(log).order} : Misjudges(o, AsPlaced, slot)}
    /\ log' = Tail(log)
    /\ UNCHANGED <<setting, maxSlotForRestingLimitOrders, initialized, now, chain>>

(* The orders of the book that the record names: a method is called if      *)
(* there are any.                                                           *)
Named(record) == {o \in {record.taker, record.maker} \ {None} : Listed(lists, o)}

(* The taker's order, then the maker's.                                     *)
BothHandled(record, slot) ==
    HandleFor(HandleFor(updateRestingLimitOrders(slot), record, record.taker, record.takerFilled, slot),
              record, record.maker, record.makerFilled, slot)

handleOrderActionRecord(slot) ==
    /\ Listening
    /\ log # <<>> /\ Head(log).action \in {"trigger", "fill", "cancel"}
    /\ IF Named(Head(log)) # {}
       THEN /\ lists' = BothHandled(Head(log), slot)
            /\ maxSlotForRestingLimitOrders' = maxSlotAfter(slot)
            /\ newest' = newestAfter(slot)
            /\ misjudged' = misjudged \cup
                  {o \in Named(Head(log)) : Misjudges(o, getOrder(lists, o), slot)}
       ELSE UNCHANGED <<book, newest, misjudged>>
    /\ log' = Tail(log)
    /\ UNCHANGED <<setting, initialized, told, now, chain>>

(* Records of the actions place and expire are ignored.                     *)
IgnoreActionRecord ==
    /\ Listening
    /\ log # <<>> /\ Head(log).action = "expire"
    /\ log' = Tail(log)
    /\ UNCHANGED <<setting, book, initialized, history, now, chain>>

(* getTakingBids, getRestingLimitAsks, getL2 and the others look at the book *)
(* after this.                                                              *)
View(slot) ==
    /\ lists' = updateRestingLimitOrders(slot)
    /\ maxSlotForRestingLimitOrders' = maxSlotAfter(slot)
    /\ newest' = newestAfter(slot)
    /\ UNCHANGED <<setting, initialized, told, misjudged, now, chain, log>>

clear ==
    /\ lists' = NoLists
    /\ maxSlotForRestingLimitOrders' = 0
    /\ told' = [o \in Order |-> {}]
    /\ newest' = 0 /\ misjudged' = {}
    /\ UNCHANGED <<setting, initialized, now, chain, log>>

Next ==
    \/ AdvanceSlot
    \/ \E o \in Order : Place(o) \/ TriggerOnChain(o) \/ CancelOnChain(o) \/ ExpireOnChain(o)
    \/ \E taker \in Order, maker \in Order \cup {None} : FillOnChain(taker, maker)
    \/ \E slot \in CallSlot :
          \/ initFromUserMap(slot) \/ handleOrderRecord(slot) \/ handleOrderActionRecord(slot)
          \/ View(slot)
    \/ IgnoreActionRecord
    \/ clear

Spec == Init /\ [][Next]_vars

-----------------------------------------------------------------------------
(* Every variable has its type.                                             *)
TypeOK ==
    /\ lists \in [Kind -> [Order -> Node \cup {None}]]
    /\ maxSlotForRestingLimitOrders \in 0 .. MaxSlot
    /\ initialized \in BOOLEAN
    /\ told \in [Order -> SUBSET BOOLEAN]
    /\ newest \in 0 .. MaxSlot /\ misjudged \in SUBSET Order
    /\ now \in 1 .. MaxSlot
    /\ chain \in [Order -> [status : {"absent", "open", "closed", "expired"},
                            filled : 0 .. Base, triggered : BOOLEAN]]

Concerned(o, record) ==
    IF record.action = "order" THEN record.order = o ELSE o \in {record.taker, record.maker}
UpToDate(o) == \A i \in 1 .. Len(log) : ~Concerned(o, log[i])

(* A trigger order was inserted by a record as it was placed and by the     *)
(* snapshot as it is, triggered: it may have a node in trigger besides.     *)
InsertedAsBoth(o) == told[o] = BOOLEAN

KindsWith(o) == {kind \in Kind : lists[kind][o] # None}

(* Once its records are handled, an order that was cancelled or filled is   *)
(* in no list, wherever it was when the record came.  What may stay is an   *)
(* order that a caller's old slot made a method look for in the wrong list, *)
(* and the second node of one that was inserted as both.                    *)
ClosedOrdersLeave ==
    \A o \in Order :
        chain[o].status = "closed" /\ UpToDate(o) /\ Listed(lists, o) =>
            \/ o \in misjudged /\ KindsWith(o) \subseteq {"restingLimit", "takingLimit", "trigger"}
            \/ InsertedAsBoth(o) /\ KindsWith(o) = {"trigger"}

(* Once its records are handled, an order that is still open is in a list,  *)
(* with the amount that is filled unless it was looked for in a wrong one.  *)
(* It is triggered if it was when it was inserted: one that is triggered    *)
(* later stays as it was.  (So does an expired order.)                      *)
OpenOrdersStay ==
    \A o \in Order : told[o] # {} /\ Open(o) /\ UpToDate(o) =>
        /\ Listed(lists, o)
        /\ o \notin misjudged => getOrder(lists, o).filled = chain[o].filled
        /\ getOrder(lists, o).triggered <=> TRUE \in told[o]

(* Once its records are handled, the book has the order exactly if it is    *)
(* open on the chain.                                                       *)
BookIsTheOpenOrders == ClosedOrdersLeave /\ OpenOrdersStay

(* An order is in the list that its contents call for at the newest slot    *)
(* that a caller gave, or in takingLimit, if it is in its auction at the    *)
(* newest slot for which takers became makers: a maker is not offered as a  *)
(* taker.  It is in one list.  A record that arrives after the snapshot may *)
(* insert it a second time, in restingLimit besides takingLimit, but then   *)
(* the next view at the newest slot leaves one.                             *)
TheRightList ==
    \A o \in Order \ misjudged, kind \in Kind : lists[kind][o] # None =>
        \E slot \in {newest, maxSlotForRestingLimitOrders} :
            kind = getListForOrder(o, lists[kind][o].order, slot)
OneListPerOrder ==
    \A o \in Order \ misjudged :
        LET kinds == KindsWith(o) \ (IF InsertedAsBoth(o) THEN {"trigger"} ELSE {}) IN
        \/ Cardinality(kinds) <= 1
        \/ kinds = {"takingLimit", "restingLimit"} /\ isRestingLimitOrder(o, newest)
ListsAgreeWithAuctions == TypeOK /\ TheRightList /\ OneListPerOrder
=============================================================================
