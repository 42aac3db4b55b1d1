------------------------------ MODULE NodeList ------------------------------
(***************************************************************************)
(* dlob/NodeList.ts: one list of the decentralised limit order book, a      *)
(* doubly linked list of order nodes kept sorted, with a map from the       *)
(* signature of an order (its id and its user) to its node.                 *)
(*                                                                         *)
(* A signature has one node at a time, so nodes are named by their order.   *)
(***************************************************************************)
EXTENDS Integers, FiniteSets, SequencesExt

CONSTANTS
    Order,          \* order signatures
    OrderId,        \* OrderId[o]: the id, unique only among one user's orders
    SortValue,      \* the node's sort value: price, offset, slot or trigger price
    OrderSlot,      \* the slot in which the order was placed
    Descending,     \* TRUE: sortDirection is 'desc'
    Version,        \* contents that the order object of a node may have
    None            \* JavaScript's undefined

ListAssumption ==
    /\ IsFiniteSet(Order) /\ None \notin Order /\ None \notin Version
    /\ SortValue \in [Order -> Int] /\ OrderSlot \in [Order -> Int]
    /\ Descending \in BOOLEAN

VARIABLES
    nodeMap,        \* the orders that have a node
    head,
    next,           \* the nodes' links, None where undefined
    previous,
    length,
    object,         \* contents of the order object a node holds, or None
    mistaken        \* history: remove has taken another user's order for the head, since when
                    \* the list is followed no further until it is cleared

vars == <<nodeMap, head, next, previous, length, object, mistaken>>

NoLinks == [o \in Order |-> None]

Init ==
    /\ nodeMap = {}
    /\ head = None
    /\ next = NoLinks
    /\ previous = NoLinks
    /\ length = 0
    /\ object = NoLinks
    /\ mistaken = FALSE

-----------------------------------------------------------------------------
(* Mutant of prependNode: a new order goes before the orders it ties with.  *)
prependNodeOnTie(current, new) ==
    IF Descending THEN SortValue[new] >= SortValue[current]
                  ELSE SortValue[new] <= SortValue[current]

(* prependNode: the new node goes before the current one.                   *)
prependNode(current, new) ==
    IF SortValue[new] = SortValue[current] THEN OrderSlot[new] < OrderSlot[current]
    ELSE IF Descending THEN SortValue[new] > SortValue[current]
                       ELSE SortValue[new] < SortValue[current]

(* getGenerator: the nodes met by following next from the head, counted     *)
(* from 0, and None from the end of the list on.                            *)
Walk[i \in 0 .. Cardinality(Order)] ==
    IF i = 0 THEN head ELSE IF Walk[i - 1] = None THEN None ELSE next[Walk[i - 1]]

getGenerator ==
    [i \in 1 .. Cardinality({j \in DOMAIN Walk : Walk[j] # None}) |-> Walk[i - 1]]

(* The loop of insert stops at node n: no node up to n yields to the new    *)
(* one, and n is the last of the list or the node after it yields.          *)
StopsAt(n, o) ==
    /\ \E i \in 0 .. Cardinality(Order) :
          /\ Walk[i] = n
          /\ \A j \in 0 .. i : ~prependNode(Walk[j], o)
    /\ next[n] # None => prependNode(next[n], o)

(* insert returns early when the signature already has a node.              *)
NotListed(o) == ~mistaken /\ o \notin nodeMap

InsertFirst(o) ==
    /\ head = None
    /\ head' = o
    /\ UNCHANGED <<next, previous>>

InsertBeforeHead(o) ==
    /\ head # None /\ prependNode(head, o)
    /\ previous' = [previous EXCEPT ![head] = o]
    /\ next' = [next EXCEPT ![o] = head]
    /\ head' = o

(* Mutant: the node that follows does not learn of the new node.            *)
LinkedForwardOnly(n, o) == [previous EXCEPT ![o] = n]

(* The back links once o is put after n.                                    *)
LinkedBack(n, o) ==
    [m \in Order |-> IF m = o THEN n ELSE IF m = next[n] THEN o ELSE previous[m]]

InsertAfter(n, o) ==
    /\ head # None /\ ~prependNode(head, o)
    /\ StopsAt(n, o)
    /\ next' = [next EXCEPT ![o] = next[n], ![n] = o]
    /\ previous' = LinkedBack(n, o)
    /\ UNCHANGED head

(* insert; an order whose status is 'init' is ignored and is not a step.    *)
insert(o, v) ==
    /\ NotListed(o)
    /\ InsertFirst(o) \/ InsertBeforeHead(o) \/ \E n \in nodeMap : InsertAfter(n, o)
    /\ nodeMap' = nodeMap \cup {o}
    /\ length' = length + 1
    /\ object' = [object EXCEPT ![o] = v]
    /\ UNCHANGED mistaken

(* update assigns the fields of the order object in place: the node keeps   *)
(* its sort value and its position.                                         *)
update(o, v) ==
    /\ ~mistaken /\ o \in nodeMap
    /\ object' = [object EXCEPT ![o] = v]
    /\ UNCHANGED <<nodeMap, head, next, previous, length, mistaken>>

(* remove takes a node for the head when their order ids are equal, which   *)
(* orders of two users may have: all before the node is cut off then.       *)
TakenForHead(o) == head # None => OrderId[o] = OrderId[head]

remove(o) ==
    /\ ~mistaken /\ o \in nodeMap
    /\ previous' = [n \in Order |-> IF n = o THEN None
                                    ELSE IF n = next[o] THEN previous[o] ELSE previous[n]]
    /\ next' = [n \in Order |-> IF n = o THEN None
                                ELSE IF n = previous[o] THEN next[o] ELSE next[n]]
    /\ head' = IF head # None /\ TakenForHead(o) THEN next[o] ELSE head
    /\ nodeMap' = nodeMap \ {o}
    /\ length' = length - 1
    /\ object' = [object EXCEPT ![o] = None]
    /\ mistaken' = (o # head /\ TakenForHead(o))

clear ==
    /\ nodeMap' = {}
    /\ head' = None
    /\ next' = NoLinks
    /\ previous' = NoLinks
    /\ length' = 0
    /\ object' = NoLinks
    /\ mistaken' = FALSE

Next ==
    \/ \E o \in Order, v \in Version : insert(o, v) \/ update(o, v)
    \/ \E o \in Order : remove(o)
    \/ clear

Spec == Init /\ [][Next]_vars

-----------------------------------------------------------------------------
(* Every variable has its type; length counts the nodes.                    *)
TypeOK ==
    /\ nodeMap \in SUBSET Order
    /\ head \in Order \cup {None}
    /\ next \in [Order -> Order \cup {None}]
    /\ previous \in [Order -> Order \cup {None}]
    /\ object \in [Order -> Version \cup {None}]
    /\ length = Cardinality(nodeMap)
    /\ mistaken \in BOOLEAN

(* The two chains of links are each other's inverse, stay among the nodes   *)
(* of the map, and the head is the only node without a predecessor.         *)
LinksAgree ==
    /\ head = None <=> nodeMap = {}
    /\ head # None => head \in nodeMap /\ previous[head] = None
    /\ \A n \in Order \ nodeMap : next[n] = None /\ previous[n] = None
    /\ \A n \in nodeMap : next[n] # None => next[n] \in nodeMap /\ previous[next[n]] = n
    /\ \A n \in nodeMap : previous[n] # None => previous[n] \in nodeMap /\ next[previous[n]] = n
    /\ \A n \in nodeMap : previous[n] = None => n = head

(* Price-time priority between neighbours: no node should have been put     *)
(* before the one it follows.                                               *)
NeighboursInOrder ==
    \A n \in nodeMap : next[n] # None => ~prependNode(n, next[n])

(* The list is linked in both directions and in order, unless remove has    *)
(* taken an order for the head that has the head's id but another user.     *)
ListSound == TypeOK /\ (~mistaken => LinksAgree /\ NeighboursInOrder)

(* The linked list implements the sorted list of the abstract module, from  *)
(* the beginning and from every clear() on until such a remove.             *)
Sorted == INSTANCE SortedOrderList WITH list <- getGenerator, held <- object
ImplementsSortedList ==
    Sorted!Init /\ [][Sorted!Next \/ mistaken']_<<getGenerator, object>>
=============================================================================
