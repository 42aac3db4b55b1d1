-------------------------- MODULE SortedOrderList --------------------------
(***************************************************************************)
(* What a list of the order book (dlob/NodeList.ts) promises: it holds each *)
(* order once, in price-time priority, and lets orders be inserted, updated *)
(* in place and removed one by one.                                         *)
(***************************************************************************)
EXTENDS Integers, SequencesExt

CONSTANTS Order, Version, None, SortValue, OrderSlot, Descending

VARIABLES
    list,   \* the orders, best first
    held    \* held[o]: contents of the order object kept for o, or None

Better(x, y) == IF Descending THEN x > y ELSE x < y

(* o has a better sort value than other, or the same one and an earlier     *)
(* slot.                                                                    *)
HasPriorityOver(o, other) ==
    \/ Better(SortValue[o], SortValue[other])
    \/ SortValue[o] = SortValue[other] /\ OrderSlot[o] < OrderSlot[other]

Init == list = <<>> /\ held = [o \in Order |-> None]

(* A new order goes behind every order it has no priority over.             *)
InsertOrder(o, v) ==
    /\ held[o] = None
    /\ held' = [held EXCEPT ![o] = v]
    /\ \E i \in 1 .. Len(list) + 1 :
          /\ list' = InsertAt(list, i, o)
          /\ \A j \in 1 .. Len(list) : HasPriorityOver(o, list[j]) <=> j >= i

UpdateOrder(o, v) ==
    /\ held[o] # None
    /\ held' = [held EXCEPT ![o] = v]
    /\ list' = list

RemoveOrder(o) ==
    /\ held[o] # None
    /\ held' = [held EXCEPT ![o] = None]
    /\ \E i \in 1 .. Len(list) : list[i] = o /\ list' = RemoveAt(list, i)

ClearList ==
    /\ held' = [o \in Order |-> None]
    /\ list' = <<>>

Next ==
    \/ \E o \in Order, v \in Version : InsertOrder(o, v) \/ UpdateOrder(o, v)
    \/ \E o \in Order : RemoveOrder(o)
    \/ ClearList

Spec == Init /\ [][Next]_<<list, held>>
=============================================================================
