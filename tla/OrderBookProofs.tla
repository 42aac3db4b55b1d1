--------------------------- MODULE OrderBookProofs ---------------------------
(***************************************************************************)
(* The order book: the list of orders, the search for orders to fill, and   *)
(* the membership of the book's lists.                                      *)
(*                                                                         *)
(* The list: the links and the priority order of NodeList for every set of  *)
(* orders of any users, until remove takes for the head an order that only  *)
(* has its id.  The inductive invariant adds                                *)
(* Acyclic to the three invariants that the runs check: removing the head   *)
(* leaves the list empty only if no ring of nodes is left aside, which the  *)
(* links alone allow.  For the refinement the links stand for a sequence s  *)
(* (Linked): what the generator yields is s, and each handler does to s     *)
(* what the sorted list of SortedOrderList does to its list.                *)
(*                                                                         *)
(* The search: for any finite set of orders, any prices and any fallback    *)
(* prices it leaves no cross behind but for what an auction hides from it,  *)
(* and matches only what a fill may match, in the order in which the book   *)
(* names the makers.  The loops are nested, and what they left behind       *)
(* never becomes untrue: a pair that a loop is past is Settled, for good    *)
(* (BaseStays).                                                             *)
(*                                                                         *)
(* The membership: what the book keeps, for any orders of any kinds and     *)
(* auctions, any slots, and any length of the log that the book has yet to  *)
(* handle.  The lists: an order is where getListForOrder would put it       *)
(* (WellPlaced), and on the right side of the end of its auction unless it  *)
(* was looked for with an old slot (misjudged), so that a method that looks *)
(* for it finds it.  The log: what the book has not handled yet makes up    *)
(* for what it does not know (Known).                                       *)
(***************************************************************************)
EXTENDS OrderBook, FiniteSetTheorems, SequenceTheorems, WellFoundedInduction, TLAPS

(* A nonempty set of natural numbers has a least element.                   *)
LEMMA LeastNat ==
    ASSUME NEW T \in SUBSET Nat, T # {}
    PROVE  \E n \in T : \A m \in T : n <= m
<1> DEFINE R == {ss \in Nat \X Nat : ss[1] < ss[2]}
<1>1. IsWellFoundedOn(R, Nat)
  BY NatLessThanWellFounded DEF OpToRel
<1>2. PICK n \in T : \A m \in T : <<m, n>> \notin R
  <2> HIDE DEF R
  <2> QED
    BY <1>1, WFMin
<1>3. ASSUME NEW m \in T PROVE n <= m
  <2>1. m \in Nat /\ n \in Nat /\ <<m, n>> \in Nat \X Nat
    OBVIOUS
  <2>2. <<m, n>>[1] = m /\ <<m, n>>[2] = n
    OBVIOUS
  <2>3. ~(m < n)
    BY <1>2, <2>1, <2>2
  <2> QED
    BY <2>1, <2>3
<1> QED
  BY <1>3

-----------------------------------------------------------------------------
(* The list.                                                                *)
(* The assumptions on the orders of the list.                               *)
LEMMA ListFacts ==
    ASSUME List!ListAssumption
    PROVE  /\ IsFiniteSet(ListOrder) /\ None \notin ListOrder /\ None \notin Version
           /\ SortValue \in [ListOrder -> Int] /\ ListSlot \in [ListOrder -> Int]
           /\ Descending \in BOOLEAN
BY DEF List!ListAssumption, List!IsFiniteSet, IsFiniteSet

LEMMA CountEmpty == List!Cardinality({}) = 0
BY FS_EmptySet DEF List!Cardinality, Cardinality

(* r numbers the nodes increasingly along the list.                         *)
Numbers(r) == \A n \in nodeMap : next[n] # None => r[n] < r[next[n]]

Acyclic == \E r \in [ListOrder -> Nat] : Numbers(r)

IInv == List!TypeOK /\ List!LinksAgree /\ List!NeighboursInOrder /\ Acyclic

ListInv == List!TypeOK /\ (~mistaken => IInv)

(* A node without a successor that is the head is the only node: otherwise  *)
(* the lowest-numbered other node would follow a lower-numbered one.        *)
LEMMA OnlyNode ==
    ASSUME List!ListAssumption, List!TypeOK, List!LinksAgree, Acyclic, head # None, next[head] = None
    PROVE  nodeMap = {head}
<1>1. PICK r \in [ListOrder -> Nat] : Numbers(r)
  BY DEF Acyclic
<1>2. SUFFICES ASSUME NEW m \in nodeMap, m # head PROVE FALSE
  BY DEF List!LinksAgree
<1> DEFINE S == {r[n] : n \in nodeMap \ {head}}
<1>3. S \in SUBSET Nat /\ S # {}
  BY <1>2 DEF List!TypeOK
<1>4. PICK x \in S : \A y \in S : x <= y
  BY <1>3, LeastNat
<1>5. PICK k \in nodeMap \ {head} : x = r[k]
  BY <1>4 DEF S
<1>6. /\ previous[k] \in nodeMap /\ next[previous[k]] = k
      /\ previous[k] # head /\ k # None /\ k \in ListOrder /\ previous[k] \in ListOrder
  BY <1>5, ListFacts DEF List!TypeOK, List!LinksAgree
<1>7. r[previous[k]] < r[k]
  BY <1>1, <1>6 DEF Numbers
<1>8. r[previous[k]] \in S /\ r[previous[k]] \in Nat /\ r[k] \in Nat
  BY <1>6
<1>9. r[k] <= r[previous[k]]
  BY <1>4, <1>5, <1>8
<1> HIDE DEF S
<1> QED
  BY <1>7, <1>8, <1>9

(* prependNode is a strict order, and its negation is transitive.           *)
LEMMA PrependAsymmetric ==
    ASSUME List!ListAssumption, NEW m \in ListOrder, NEW n \in ListOrder, List!prependNode(m, n)
    PROVE  ~List!prependNode(n, m)
BY ListFacts DEF List!prependNode

LEMMA NotPrependTransitive ==
    ASSUME List!ListAssumption, NEW m \in ListOrder, NEW n \in ListOrder, NEW o \in ListOrder,
           ~List!prependNode(m, n), ~List!prependNode(n, o)
    PROVE  ~List!prependNode(m, o)
BY ListFacts DEF List!prependNode

(* The node at which the loop of insert stops does not yield to the new     *)
(* node.                                                                    *)
LEMMA StopsBehind ==
    ASSUME List!ListAssumption, NEW n \in nodeMap, NEW o \in ListOrder, nodeMap \subseteq ListOrder,
           List!InsertAfter(n, o)
    PROVE  /\ ~List!prependNode(n, o)
           /\ next[n] # None => List!prependNode(next[n], o)
BY DEF List!InsertAfter, List!StopsAt

LEMMA InitIInv == List!Init => IInv
<1> SUFFICES ASSUME List!Init PROVE IInv
  OBVIOUS
<1>1. List!TypeOK /\ List!LinksAgree /\ List!NeighboursInOrder
  BY CountEmpty DEF List!Init, List!TypeOK, List!LinksAgree, List!NeighboursInOrder, List!NoLinks
<1>2. Acyclic
  <2>1. [n \in ListOrder |-> 0] \in [ListOrder -> Nat] /\ Numbers([n \in ListOrder |-> 0])
    BY DEF List!Init, Numbers
  <2> QED
    BY <2>1 DEF Acyclic
<1> QED
  BY <1>1, <1>2 DEF IInv

(* Adding and removing a node keeps the count.                              *)
LEMMA CountInsert ==
    ASSUME List!ListAssumption, NEW o \in ListOrder, nodeMap \in SUBSET ListOrder, o \notin nodeMap
    PROVE  List!Cardinality(nodeMap \cup {o}) = List!Cardinality(nodeMap) + 1
BY ListFacts, FS_Subset, FS_AddElement DEF List!Cardinality, Cardinality

LEMMA CountRemove ==
    ASSUME List!ListAssumption, NEW o \in nodeMap, nodeMap \in SUBSET ListOrder
    PROVE  List!Cardinality(nodeMap \ {o}) = List!Cardinality(nodeMap) - 1
BY ListFacts, FS_Subset, FS_RemoveElement DEF List!Cardinality, Cardinality

LEMMA InsertFirstKeeps ==
    ASSUME List!ListAssumption, IInv, NEW o \in ListOrder, NEW v \in Version, List!insert(o, v), List!InsertFirst(o)
    PROVE  IInv'
<1>1. /\ nodeMap = {} /\ nodeMap' = {o} /\ head' = o
      /\ next' = next /\ previous' = previous
      /\ length' = length + 1 /\ object' = [object EXCEPT ![o] = v] /\ mistaken' = mistaken
  BY DEF List!insert, List!InsertFirst, IInv, List!LinksAgree
<1>2. \A n \in ListOrder : next[n] = None /\ previous[n] = None
  BY <1>1 DEF IInv, List!LinksAgree
<1>3. List!TypeOK'
  BY <1>1, CountInsert DEF IInv, List!TypeOK
<1>4. List!LinksAgree'
  BY <1>1, <1>2, ListFacts DEF List!LinksAgree
<1>5. List!NeighboursInOrder'
  BY <1>1, <1>2 DEF List!NeighboursInOrder
<1>6. Acyclic'
  <2>1. PICK r \in [ListOrder -> Nat] : Numbers(r)
    BY DEF IInv, Acyclic
  <2>2. Numbers(r)'
    BY <1>1, <1>2 DEF Numbers
  <2> QED
    BY <2>2 DEF Acyclic
<1> QED
  BY <1>3, <1>4, <1>5, <1>6 DEF IInv

LEMMA InsertBeforeHeadKeeps ==
    ASSUME List!ListAssumption, IInv, NEW o \in ListOrder, NEW v \in Version, List!insert(o, v), List!InsertBeforeHead(o)
    PROVE  IInv'
<1>1. /\ o \notin nodeMap /\ nodeMap' = nodeMap \cup {o}
      /\ head # None /\ List!prependNode(head, o) /\ head' = o
      /\ next' = [next EXCEPT ![o] = head]
      /\ previous' = [previous EXCEPT ![head] = o]
      /\ length' = length + 1 /\ object' = [object EXCEPT ![o] = v] /\ mistaken' = mistaken
  BY DEF List!insert, List!InsertBeforeHead, List!NotListed
<1>2. head \in nodeMap /\ previous[head] = None /\ next[o] = None /\ previous[o] = None
  BY <1>1 DEF IInv, List!LinksAgree
<1>3. List!TypeOK'
  BY <1>1, <1>2, CountInsert DEF IInv, List!TypeOK
<1>4. List!LinksAgree'
  BY <1>1, <1>2, ListFacts DEF IInv, List!TypeOK, List!LinksAgree
<1>5. List!NeighboursInOrder'
  <2>1. ~List!prependNode(o, head)
    BY <1>1, <1>2, PrependAsymmetric DEF IInv, List!TypeOK
  <2> QED
    BY <1>1, <1>2, <2>1, ListFacts DEF IInv, List!TypeOK, List!NeighboursInOrder, List!LinksAgree, List!prependNode
<1>6. Acyclic'
  <2>1. PICK r \in [ListOrder -> Nat] : Numbers(r)
    BY DEF IInv, Acyclic
  <2> DEFINE s == [n \in ListOrder |-> IF n = o THEN 0 ELSE r[n] + 1]
  <2>2. s \in [ListOrder -> Nat]
    OBVIOUS
  <2>3. ASSUME NEW n \in nodeMap', next'[n] # None PROVE s[n] < s[next'[n]]
    <3>1. CASE n = o
      BY <1>1, <1>2, <3>1 DEF IInv, List!TypeOK
    <3>2. CASE n # o
      <4>1. n \in nodeMap /\ n \in ListOrder /\ next'[n] = next[n] /\ next[n] # None
        BY <1>1, <2>3, <3>2 DEF IInv, List!TypeOK
      <4>2. next[n] \in nodeMap /\ next[n] \in ListOrder /\ next[n] # o
        BY <1>1, <4>1 DEF IInv, List!TypeOK, List!LinksAgree
      <4>3. r[n] < r[next[n]] /\ r[n] \in Nat /\ r[next[n]] \in Nat
        BY <2>1, <4>1, <4>2 DEF Numbers
      <4> QED
        BY <3>2, <4>1, <4>2, <4>3
    <3> QED
      BY <3>1, <3>2
  <2>4. Numbers(s)'
    BY <2>3 DEF Numbers
  <2> QED
    BY <2>2, <2>4 DEF Acyclic
<1> QED
  BY <1>3, <1>4, <1>5, <1>6 DEF IInv

LEMMA InsertAfterKeeps ==
    ASSUME List!ListAssumption, IInv, NEW o \in ListOrder, NEW v \in Version, List!insert(o, v),
           NEW n \in nodeMap, List!InsertAfter(n, o)
    PROVE  IInv'
<1>1. /\ o \notin nodeMap /\ nodeMap' = nodeMap \cup {o} /\ head' = head
      /\ next' = [next EXCEPT ![o] = next[n], ![n] = o]
      /\ previous' = List!LinkedBack(n, o)
      /\ length' = length + 1 /\ object' = [object EXCEPT ![o] = v] /\ mistaken' = mistaken
  BY DEF List!insert, List!InsertAfter, List!NotListed
<1>2. /\ n \in ListOrder /\ n # o /\ next[o] = None /\ previous[o] = None
      /\ head \in nodeMap /\ previous[head] = None
  BY <1>1 DEF IInv, List!TypeOK, List!LinksAgree
<1>3. List!TypeOK'
  BY <1>1, <1>2, CountInsert DEF IInv, List!TypeOK, List!LinkedBack
<1>4. List!LinksAgree'
  BY <1>1, <1>2, ListFacts DEF IInv, List!TypeOK, List!LinksAgree, List!LinkedBack
<1>5. List!NeighboursInOrder'
  <2>1. /\ ~List!prependNode(n, o)
        /\ next[n] # None => next[n] \in ListOrder /\ ~List!prependNode(o, next[n])
    BY <1>2, StopsBehind, PrependAsymmetric DEF IInv, List!TypeOK
  <2>2. ASSUME NEW m \in nodeMap', next'[m] # None
        PROVE  ~List!prependNode(m, next'[m])
    <3>1. CASE m = o
      BY <1>1, <1>2, <2>1, <2>2, <3>1 DEF IInv, List!TypeOK
    <3>2. CASE m = n
      BY <1>1, <1>2, <2>1, <3>2 DEF IInv, List!TypeOK
    <3>3. CASE m # o /\ m # n
      BY <1>1, <2>2, <3>3 DEF IInv, List!TypeOK, List!NeighboursInOrder
    <3> QED
      BY <3>1, <3>2, <3>3
  <2> QED
    BY <2>2 DEF List!NeighboursInOrder, List!prependNode
<1>6. Acyclic'
  <2>1. PICK r \in [ListOrder -> Nat] : Numbers(r)
    BY DEF IInv, Acyclic
  <2> DEFINE s == [m \in ListOrder |-> IF m = o THEN 2 * r[n] + 1 ELSE 2 * r[m]]
  <2>2. s \in [ListOrder -> Nat]
    BY <1>2
  <2>3. ASSUME NEW m \in nodeMap', next'[m] # None PROVE s[m] < s[next'[m]]
    <3>1. m \in ListOrder
      BY <1>1, <1>2 DEF IInv, List!TypeOK
    <3>2. CASE m = n
      <4>1. next'[m] = o /\ s[m] = 2 * r[n] /\ s[o] = 2 * r[n] + 1 /\ r[n] \in Nat
        BY <1>1, <1>2, <3>2 DEF IInv, List!TypeOK
      <4> QED
        BY <4>1
    <3>3. CASE m = o
      <4>1. next'[m] = next[n] /\ next[n] # None
        BY <1>1, <1>2, <2>3, <3>3 DEF IInv, List!TypeOK
      <4>2. next[n] \in nodeMap /\ next[n] \in ListOrder /\ next[n] # o
        BY <1>1, <4>1 DEF IInv, List!TypeOK, List!LinksAgree
      <4>3. r[n] < r[next[n]] /\ r[n] \in Nat /\ r[next[n]] \in Nat
        BY <1>2, <2>1, <4>1, <4>2 DEF Numbers
      <4>4. s[m] = 2 * r[n] + 1 /\ s[next[n]] = 2 * r[next[n]]
        BY <3>3, <4>2
      <4> QED
        BY <4>1, <4>3, <4>4
    <3>4. CASE m # n /\ m # o
      <4>1. m \in nodeMap /\ next'[m] = next[m] /\ next[m] # None
        BY <1>1, <2>3, <3>1, <3>4 DEF IInv, List!TypeOK
      <4>2. next[m] \in nodeMap /\ next[m] \in ListOrder /\ next[m] # o
        BY <1>1, <4>1 DEF IInv, List!TypeOK, List!LinksAgree
      <4>3. r[m] < r[next[m]] /\ r[m] \in Nat /\ r[next[m]] \in Nat
        BY <2>1, <3>1, <4>1, <4>2 DEF Numbers
      <4>4. s[m] = 2 * r[m] /\ s[next[m]] = 2 * r[next[m]]
        BY <3>1, <3>4, <4>2
      <4> QED
        BY <4>1, <4>3, <4>4
    <3> QED
      BY <3>2, <3>3, <3>4
  <2>4. Numbers(s)'
    BY <2>3 DEF Numbers
  <2> QED
    BY <2>2, <2>4 DEF Acyclic
<1> QED
  BY <1>3, <1>4, <1>5, <1>6 DEF IInv

(* remove takes the next node for the head, or keeps the head.              *)
LEMMA RemoveTyped ==
    ASSUME List!ListAssumption, List!TypeOK, NEW o \in ListOrder, List!remove(o)
    PROVE  List!TypeOK'
<1>1. /\ o \in nodeMap /\ nodeMap' = nodeMap \ {o} /\ mistaken' \in BOOLEAN
      /\ length' = length - 1 /\ object' = [object EXCEPT ![o] = None]
  BY DEF List!remove, List!TakenForHead
<1>2. /\ previous' = [n \in ListOrder |-> IF n = o THEN None
                           ELSE IF n = next[o] THEN previous[o] ELSE previous[n]]
      /\ next' = [n \in ListOrder |-> IF n = o THEN None
                           ELSE IF n = previous[o] THEN next[o] ELSE next[n]]
      /\ head' \in {head, next[o]}
  BY DEF List!remove
<1> QED
  BY <1>1, <1>2, CountRemove DEF List!TypeOK

LEMMA RemoveKeeps ==
    ASSUME List!ListAssumption, IInv, NEW o \in ListOrder, List!remove(o), ~mistaken'
    PROVE  IInv'
<1>1. o \in nodeMap /\ nodeMap' = nodeMap \ {o}
  BY DEF List!remove
<1>2. /\ previous' = [n \in ListOrder |-> IF n = o THEN None
                           ELSE IF n = next[o] THEN previous[o] ELSE previous[n]]
      /\ next' = [n \in ListOrder |-> IF n = o THEN None
                           ELSE IF n = previous[o] THEN next[o] ELSE next[n]]
  BY DEF List!remove
<1>3. /\ head \in nodeMap /\ head \in ListOrder
      /\ head' = IF o = head THEN next[o] ELSE head
  BY <1>1, ListFacts DEF List!remove, List!TakenForHead, IInv, List!TypeOK, List!LinksAgree
<1>4. List!TypeOK'
  BY RemoveTyped DEF IInv
<1>5. List!LinksAgree'
  <2>1. /\ head' = None <=> nodeMap' = {}
        /\ head' # None => head' \in nodeMap' /\ previous'[head'] = None
    <3>1. CASE o = head
      <4>1. next[o] # None => /\ next[o] \in nodeMap /\ next[o] # o
                              /\ previous[next[o]] = o /\ previous[o] = None
        BY <1>1, <3>1, ListFacts DEF IInv, List!TypeOK, List!LinksAgree
      <4>2. next[o] = None => nodeMap = {o}
        BY <1>3, <3>1, OnlyNode, ListFacts DEF IInv
      <4> QED
        BY <1>1, <1>2, <1>3, <3>1, <4>1, <4>2, ListFacts DEF IInv, List!TypeOK
    <3>2. CASE o # head
      BY <1>1, <1>2, <1>3, <3>2, ListFacts DEF IInv, List!TypeOK, List!LinksAgree
    <3> QED
      BY <3>1, <3>2
  <2>2. \A n \in ListOrder \ nodeMap' : next'[n] = None /\ previous'[n] = None
    BY <1>1, <1>2, ListFacts DEF IInv, List!TypeOK, List!LinksAgree
  <2>3. \A n \in nodeMap' : next'[n] # None => next'[n] \in nodeMap' /\ previous'[next'[n]] = n
    BY <1>1, <1>2, ListFacts DEF IInv, List!TypeOK, List!LinksAgree
  <2>4. \A n \in nodeMap' : previous'[n] # None => previous'[n] \in nodeMap' /\ next'[previous'[n]] = n
    BY <1>1, <1>2, ListFacts DEF IInv, List!TypeOK, List!LinksAgree
  <2>5. \A n \in nodeMap' : previous'[n] = None => n = head'
    BY <1>1, <1>2, <1>3, ListFacts DEF IInv, List!TypeOK, List!LinksAgree
  <2> QED
    BY <2>1, <2>2, <2>3, <2>4, <2>5 DEF List!LinksAgree
<1>6. List!NeighboursInOrder'
  <2>1. ASSUME NEW m \in nodeMap', next'[m] # None
        PROVE  ~List!prependNode(m, next'[m])
    <3>1. m \in nodeMap /\ m # o /\ m \in ListOrder
      BY <1>1 DEF IInv, List!TypeOK
    <3>2. CASE m = previous[o]
      <4>1. next[m] = o /\ next[o] # None /\ next[o] \in ListOrder /\ next'[m] = next[o]
        BY <1>1, <1>2, <2>1, <3>1, <3>2, ListFacts DEF IInv, List!TypeOK, List!LinksAgree
      <4>2. ~List!prependNode(m, o) /\ ~List!prependNode(o, next[o])
        BY <1>1, <3>1, <4>1, ListFacts DEF IInv, List!NeighboursInOrder
      <4> QED
        BY <3>1, <4>1, <4>2, NotPrependTransitive
    <3>3. CASE m # previous[o]
      BY <1>2, <2>1, <3>1, <3>3 DEF IInv, List!NeighboursInOrder
    <3> QED
      BY <3>2, <3>3
  <2> QED
    BY <2>1 DEF List!NeighboursInOrder, List!prependNode
<1>7. Acyclic'
  <2>1. PICK r \in [ListOrder -> Nat] : Numbers(r)
    BY DEF IInv, Acyclic
  <2>2. ASSUME NEW m \in nodeMap', next'[m] # None PROVE r[m] < r[next'[m]]
    <3>1. m \in nodeMap /\ m # o /\ m \in ListOrder
      BY <1>1 DEF IInv, List!TypeOK
    <3>2. CASE m = previous[o]
      <4>1. next[m] = o /\ next[o] # None /\ next[o] \in ListOrder /\ next'[m] = next[o]
        BY <1>1, <1>2, <2>2, <3>1, <3>2, ListFacts DEF IInv, List!TypeOK, List!LinksAgree
      <4>2. /\ r[m] < r[o] /\ r[o] < r[next[o]]
            /\ r[m] \in Nat /\ r[o] \in Nat /\ r[next[o]] \in Nat
        BY <1>1, <2>1, <3>1, <4>1, ListFacts DEF Numbers, IInv, List!TypeOK
      <4> QED
        BY <4>1, <4>2
    <3>3. CASE m # previous[o]
      BY <1>2, <2>1, <2>2, <3>1, <3>3 DEF Numbers
    <3> QED
      BY <3>2, <3>3
  <2>3. Numbers(r)'
    BY <2>2 DEF Numbers
  <2> QED
    BY <2>3 DEF Acyclic
<1> QED
  BY <1>4, <1>5, <1>6, <1>7 DEF IInv

LEMMA NextIInv ==
    ASSUME List!ListAssumption, ListInv, [List!Next]_List!vars
    PROVE  ListInv'
<1>1. ASSUME NEW o \in ListOrder, NEW v \in Version, List!insert(o, v) PROVE ListInv'
  <2>1. ~mistaken
    BY <1>1 DEF List!insert, List!NotListed
  <2>2. IInv'
    BY <1>1, <2>1, InsertFirstKeeps, InsertBeforeHeadKeeps, InsertAfterKeeps DEF List!insert, ListInv
  <2> QED
    BY <2>2 DEF ListInv, IInv
<1>2. ASSUME NEW o \in ListOrder, NEW v \in Version, List!update(o, v) PROVE ListInv'
  BY <1>2 DEF List!update, ListInv, IInv, List!TypeOK, List!LinksAgree, List!NeighboursInOrder, List!prependNode,
              Acyclic, Numbers
<1>3. ASSUME NEW o \in ListOrder, List!remove(o) PROVE ListInv'
  <2>1. ~mistaken /\ IInv
    BY <1>3 DEF List!remove, ListInv
  <2> QED
    BY <1>3, <2>1, RemoveKeeps, RemoveTyped DEF ListInv
<1>4. CASE List!clear
  <2>1. List!TypeOK' /\ List!LinksAgree' /\ List!NeighboursInOrder' /\ (nodeMap' = {})
    BY <1>4, CountEmpty DEF List!clear, List!TypeOK, List!LinksAgree, List!NeighboursInOrder, List!NoLinks
  <2>2. Acyclic'
    <3>1. [n \in ListOrder |-> 0] \in [ListOrder -> Nat] /\ Numbers([n \in ListOrder |-> 0])'
      BY <2>1 DEF Numbers
    <3> QED
      BY <3>1 DEF Acyclic
  <2> QED
    BY <2>1, <2>2 DEF ListInv, IInv
<1>5. CASE UNCHANGED List!vars
  BY <1>5 DEF List!vars, ListInv, IInv, List!TypeOK, List!LinksAgree, List!NeighboursInOrder, List!prependNode,
              Acyclic, Numbers
<1> QED
  BY <1>1, <1>2, <1>3, <1>4, <1>5 DEF List!Next

LEMMA Invariance == List!ListAssumption => (List!Spec => []ListInv)
<1> SUFFICES ASSUME List!ListAssumption PROVE List!Spec => []ListInv
  OBVIOUS
<1>1. ListInv /\ [List!Next]_List!vars => ListInv'
  BY NextIInv
<1>2. List!Init => ListInv
  BY InitIInv DEF ListInv, IInv
<1> QED
  BY <1>1, <1>2, PTL DEF List!Spec

(* Every variable has its type and length counts the nodes of the map,      *)
(* even where remove takes the wrong order for the head.                    *)
THEOREM TypeCorrect == List!ListAssumption => (List!Spec => []List!TypeOK)
<1>1. ListInv => List!TypeOK
  BY DEF ListInv
<1> QED
  BY <1>1, Invariance, PTL

(* Until then the links in both directions agree, and only the head has no  *)
(* node before it, whatever is inserted and removed.                        *)
THEOREM LinksStayConsistent == List!ListAssumption => (List!Spec => [](~mistaken => List!LinksAgree))
<1>1. ListInv => (~mistaken => List!LinksAgree)
  BY DEF ListInv, IInv
<1> QED
  BY <1>1, Invariance, PTL

(* And neighbours are in price-time priority, in both sort directions.      *)
THEOREM PriorityKept == List!ListAssumption => (List!Spec => [](~mistaken => List!NeighboursInOrder))
<1>1. ListInv => (~mistaken => List!NeighboursInOrder)
  BY DEF ListInv, IInv
<1> QED
  BY <1>1, Invariance, PTL

(* The list stays linked in both directions, counted and in priority order  *)
(* through any insertions, updates, removals and clears, of any users' any  *)
(* orders, until remove takes for the head an order that only has its id.   *)
THEOREM ListStaysSound == List!ListAssumption => (List!Spec => []ListSound)
<1>1. ListInv => ListSound
  BY DEF ListInv, IInv, ListSound, List!ListSound
<1> QED
  BY <1>1, Invariance, PTL

-----------------------------------------------------------------------------
(* The links stand for a sequence of orders.                                *)

(* s is the list: each node once, linked in this order, sorted.             *)
Linked(s) ==
    /\ s \in Seq(ListOrder)
    /\ \A n \in ListOrder : n \in nodeMap <=> \E i \in 1 .. Len(s) : s[i] = n
    /\ \A i, j \in 1 .. Len(s) : s[i] = s[j] => i = j
    /\ head = IF Len(s) = 0 THEN None ELSE s[1]
    /\ \A i \in 1 .. Len(s) : next[s[i]] = IF i = Len(s) THEN None ELSE s[i + 1]
    /\ \A i, j \in 1 .. Len(s) : i < j => ~List!prependNode(s[i], s[j])

LEMMA LengthIsBounded ==
    ASSUME List!ListAssumption, NEW s, Linked(s)
    PROVE  /\ Len(s) \in Nat /\ Len(s) <= List!Cardinality(ListOrder)
           /\ List!Cardinality(ListOrder) \in Nat
           /\ \A i \in 1 .. Len(s) : s[i] \in ListOrder /\ s[i] # None
<1>1. s \in [1 .. Len(s) -> ListOrder] /\ Len(s) \in Nat
  BY LenProperties DEF Linked
<1>2. s \in Injection(1 .. Len(s), ListOrder)
  BY <1>1 DEF Linked, Injection, IsInjective
<1>3. Cardinality(1 .. Len(s)) <= Cardinality(ListOrder)
  BY <1>2, ListFacts, FS_Injection
<1>4. Cardinality(1 .. Len(s)) = Len(s)
  <2> DEFINE m == 1
             n == Len(s)
  <2>1. m \in Int /\ n \in Int
    BY <1>1
  <2> HIDE DEF m, n
  <2>2. Cardinality(m .. n) = IF m > n THEN 0 ELSE n - m + 1
    BY <2>1, FS_Interval
  <2> QED
    BY <1>1, <2>2 DEF m, n
<1>5. Cardinality(ListOrder) \in Nat
  BY ListFacts, FS_CardinalityType
<1> QED
  BY <1>1, <1>3, <1>4, <1>5, ListFacts DEF List!Cardinality, Cardinality

(* Walk is the one function that goes along the links.                      *)
LEMMA WalkYields ==
    ASSUME List!ListAssumption, NEW s, Linked(s)
    PROVE  List!Walk = [i \in 0 .. List!Cardinality(ListOrder) |-> IF i < Len(s) THEN s[i + 1] ELSE None]
<1> DEFINE N == List!Cardinality(ListOrder)
           Along(f) == [i \in 0 .. N |-> IF i = 0 THEN head
                                         ELSE IF f[i - 1] = None THEN None ELSE next[f[i - 1]]]
           g == [i \in 0 .. N |-> IF i < Len(s) THEN s[i + 1] ELSE None]
           W == List!Walk
<1>1. /\ Len(s) \in Nat /\ Len(s) <= N /\ N \in Nat
      /\ \A i \in 1 .. Len(s) : s[i] \in ListOrder /\ s[i] # None
  BY LengthIsBounded
<1>2. W = CHOOSE f : f = Along(f)
  BY DEF List!Walk
<1> HIDE DEF N, W
<1>3. g = Along(g)
  <2>1. ASSUME NEW i \in 0 .. N PROVE g[i] = Along(g)[i]
    <3>1. CASE i = 0
      BY <1>1, <3>1 DEF Linked
    <3>2. CASE i # 0 /\ i - 1 < Len(s)
      <4>1. i \in 1 .. Len(s) /\ g[i - 1] = s[i] /\ i - 1 \in 0 .. N
        BY <1>1, <3>2
      <4>2. next[s[i]] = IF i = Len(s) THEN None ELSE s[i + 1]
        BY <4>1 DEF Linked
      <4> QED
        BY <1>1, <3>2, <4>1, <4>2
    <3>3. CASE i # 0 /\ ~(i - 1 < Len(s))
      BY <1>1, <3>3
    <3> QED
      BY <3>1, <3>2, <3>3
  <2> QED
    BY <2>1
<1>4. W = Along(W)
  <2> HIDE DEF g, Along
  <2> QED
    BY <1>2, <1>3
<1> DEFINE T == {i \in 0 .. N : W[i] # g[i]}
<1>5. T = {}
  <2> SUFFICES ASSUME T # {} PROVE FALSE
    OBVIOUS
  <2>1. T \in SUBSET Nat
    BY <1>1
  <2>2. PICK x \in T : \A y \in T : x <= y
    <3> HIDE DEF T
    <3> QED
      BY <2>1, LeastNat
  <2>3. x \in 0 .. N /\ W[x] # g[x]
    BY <2>2
  <2>4. W[x] = Along(W)[x] /\ g[x] = Along(g)[x]
    <3> HIDE DEF g, Along
    <3> QED
      BY <1>3, <1>4
  <2>5. CASE x = 0
    BY <2>3, <2>4, <2>5
  <2>6. CASE x # 0
    <3>1. x - 1 \in 0 .. N /\ x - 1 \notin T
      BY <1>1, <2>2, <2>3, <2>6
    <3>2. W[x - 1] = g[x - 1]
      BY <3>1
    <3> HIDE DEF g
    <3> QED
      BY <2>3, <2>4, <2>6, <3>2
  <2> QED
    BY <2>5, <2>6
<1>6. DOMAIN W = 0 .. N /\ W = [i \in DOMAIN W |-> W[i]]
  BY <1>4
<1> QED
  <2>1. \A i \in 0 .. N : W[i] = g[i]
    BY <1>5
  <2> QED
    BY <1>6, <2>1 DEF W, N

(* What the generator yields is the list.                                   *)
LEMMA GeneratorYields ==
    ASSUME List!ListAssumption, NEW s, Linked(s)
    PROVE  List!getGenerator = s
<1> DEFINE N == List!Cardinality(ListOrder)
           W == List!Walk
           Met == {j \in DOMAIN W : W[j] # None}
<1>1. /\ Len(s) \in Nat /\ Len(s) <= N /\ N \in Nat
      /\ \A i \in 1 .. Len(s) : s[i] \in ListOrder /\ s[i] # None
  BY LengthIsBounded
<1>2. W = [i \in 0 .. N |-> IF i < Len(s) THEN s[i + 1] ELSE None]
  BY WalkYields
<1>3. List!getGenerator = [i \in 1 .. List!Cardinality(Met) |-> W[i - 1]]
  BY DEF List!getGenerator
<1> HIDE DEF W, N
<1>4. Met = 0 .. Len(s) - 1
  <2>1. ASSUME NEW j \in DOMAIN W PROVE W[j] # None <=> j < Len(s)
    <3>1. j \in 0 .. N /\ (j < Len(s) => j + 1 \in 1 .. Len(s))
      BY <1>1, <1>2
    <3> QED
      BY <1>1, <1>2, <3>1
  <2>2. DOMAIN W = 0 .. N
    BY <1>2
  <2> QED
    BY <1>1, <2>1, <2>2
<1>5. List!Cardinality(Met) = Len(s)
  <2>1. Cardinality(0 .. Len(s) - 1) = Len(s)
    <3> DEFINE m == 0
               n == Len(s) - 1
    <3>1. m \in Int /\ n \in Int
      BY <1>1
    <3> HIDE DEF m, n
    <3>2. Cardinality(m .. n) = IF m > n THEN 0 ELSE n - m + 1
      BY <3>1, FS_Interval
    <3> QED
      BY <1>1, <3>2 DEF m, n
  <2> QED
    BY <1>4, <2>1 DEF List!Cardinality, Cardinality
<1>6. ASSUME NEW i \in 1 .. Len(s) PROVE W[i - 1] = s[i]
  BY <1>1, <1>2
<1>7. s = [i \in 1 .. Len(s) |-> s[i]]
  BY LenProperties DEF Linked
<1> QED
  BY <1>3, <1>5, <1>6, <1>7

LEMMA GeneratorWillYield ==
    ASSUME List!ListAssumption
    PROVE  (\A s : Linked(s) => List!getGenerator = s)'
<1>1. \A s : Linked(s) => List!getGenerator = s
  BY GeneratorYields
<1> QED
  BY <1>1, PTL

(* Sequences with an element put in or taken out.                           *)
LEMMA InsertedAt ==
    ASSUME NEW S, NEW s \in Seq(S), NEW i \in 1 .. Len(s) + 1, NEW e \in S, NEW t,
           t = List!Sorted!InsertAt(s, i, e)
    PROVE  /\ t \in Seq(S) /\ Len(t) = Len(s) + 1
           /\ \A j \in 1 .. Len(s) + 1 : t[j] = IF j < i THEN s[j] ELSE IF j = i THEN e ELSE s[j - 1]
<1> DEFINE a == SubSeq(s, 1, i - 1)
           b == <<e>>
           c == SubSeq(s, i, Len(s))
<1>1. Len(s) \in Nat /\ i \in Nat /\ i - 1 \in Int /\ \A j \in 1 .. Len(s) : s[j] \in S
  BY LenProperties
<1>2. a \in Seq(S) /\ Len(a) = i - 1 /\ \A j \in 1 .. i - 1 : a[j] = s[j]
  <2>1. \A j \in 1 .. i - 1 : s[j] \in S
    BY <1>1
  <2>2. /\ a \in Seq(S) /\ Len(a) = IF 1 <= i - 1 THEN (i - 1) - 1 + 1 ELSE 0
        /\ \A j \in 1 .. (i - 1) - 1 + 1 : a[j] = s[1 + j - 1]
    BY <1>1, <2>1, SubSeqProperties
  <2> HIDE DEF a
  <2>3. \A j \in 1 .. i - 1 : a[j] = s[j]
    <3> SUFFICES ASSUME NEW j \in 1 .. i - 1 PROVE a[j] = s[j]
      OBVIOUS
    <3>1. j \in 1 .. (i - 1) - 1 + 1 /\ 1 + j - 1 = j
      BY <1>1
    <3> QED
      BY <2>2, <3>1
  <2> QED
    BY <1>1, <2>2, <2>3
<1>3. c \in Seq(S) /\ Len(c) = Len(s) + 1 - i /\ \A j \in 1 .. Len(s) + 1 - i : c[j] = s[i + j - 1]
  <2>1. \A j \in i .. Len(s) : s[j] \in S
    BY <1>1
  <2>2. /\ c \in Seq(S) /\ Len(c) = IF i <= Len(s) THEN Len(s) - i + 1 ELSE 0
        /\ \A j \in 1 .. Len(s) - i + 1 : c[j] = s[i + j - 1]
    BY <1>1, <2>1, SubSeqProperties
  <2> HIDE DEF c
  <2>3. 1 .. Len(s) + 1 - i = 1 .. Len(s) - i + 1
    BY <1>1
  <2> QED
    BY <1>1, <2>2, <2>3
<1>4. b \in Seq(S) /\ Len(b) = 1 /\ b[1] = e
  OBVIOUS
<1> DEFINE ab == a \o b
<1>5. t = ab \o c
  BY DEF List!Sorted!InsertAt
<1> HIDE DEF a, b, c
<1>6. /\ ab \in Seq(S) /\ Len(ab) = i
      /\ \A j \in 1 .. i : ab[j] = IF j <= i - 1 THEN a[j] ELSE b[j - (i - 1)]
  <2>1. /\ ab \in Seq(S) /\ Len(ab) = Len(a) + Len(b)
        /\ \A j \in 1 .. Len(a) + Len(b) : ab[j] = IF j <= Len(a) THEN a[j] ELSE b[j - Len(a)]
    BY <1>2, <1>4, ConcatProperties
  <2> HIDE DEF ab
  <2>2. Len(a) + Len(b) = i
    BY <1>1, <1>2, <1>4
  <2>3. Len(a) = i - 1
    BY <1>2
  <2> QED
    BY <2>1, <2>2, <2>3
<1> HIDE DEF ab
<1>7. /\ t \in Seq(S) /\ Len(t) = Len(s) + 1
      /\ \A j \in 1 .. Len(s) + 1 : t[j] = IF j <= i THEN ab[j] ELSE c[j - i]
  <2>1. /\ t \in Seq(S) /\ Len(t) = Len(ab) + Len(c)
        /\ \A j \in 1 .. Len(ab) + Len(c) : t[j] = IF j <= Len(ab) THEN ab[j] ELSE c[j - Len(ab)]
    BY <1>3, <1>5, <1>6, ConcatProperties
  <2>2. Len(ab) + Len(c) = Len(s) + 1
    BY <1>1, <1>3, <1>6
  <2> QED
    BY <1>6, <2>1, <2>2
<1>8. ASSUME NEW j \in 1 .. Len(s) + 1
      PROVE  t[j] = IF j < i THEN s[j] ELSE IF j = i THEN e ELSE s[j - 1]
  <2>1. CASE j < i
    <3>1. j \in 1 .. i /\ j <= i - 1 /\ j \in 1 .. i - 1 /\ j <= i
      BY <1>1, <2>1
    <3> QED
      BY <1>2, <1>6, <1>7, <2>1, <3>1
  <2>2. CASE j = i
    <3>1. i \in 1 .. i /\ ~(i <= i - 1) /\ i - (i - 1) = 1 /\ i <= i
      BY <1>1, <2>2
    <3>2. ab[i] = b[1]
      BY <1>6, <3>1
    <3>3. t[i] = ab[i]
      BY <1>7, <2>2, <3>1
    <3> QED
      BY <1>4, <2>2, <3>1, <3>2, <3>3
  <2>3. CASE j > i
    <3>1. j - i \in 1 .. Len(s) + 1 - i /\ i + (j - i) - 1 = j - 1 /\ ~(j <= i) /\ ~(j < i) /\ j # i
      BY <1>1, <2>3
    <3>2. c[j - i] = s[i + (j - i) - 1]
      BY <1>3, <3>1
    <3> QED
      BY <1>7, <3>1, <3>2
  <2> QED
    BY <1>1, <2>1, <2>2, <2>3
<1> QED
  BY <1>7, <1>8

LEMMA RemovedAt ==
    ASSUME NEW s \in Seq(ListOrder), NEW i \in 1 .. Len(s), NEW t, t = List!Sorted!RemoveAt(s, i)
    PROVE  /\ t \in Seq(ListOrder) /\ Len(t) = Len(s) - 1
           /\ \A j \in 1 .. Len(s) - 1 : t[j] = IF j < i THEN s[j] ELSE s[j + 1]
<1> DEFINE a == SubSeq(s, 1, i - 1)
           c == SubSeq(s, i + 1, Len(s))
<1>1. Len(s) \in Nat /\ i \in Nat /\ i - 1 \in Int /\ i + 1 \in Int /\ \A j \in 1 .. Len(s) : s[j] \in ListOrder
  BY LenProperties
<1>2. a \in Seq(ListOrder) /\ Len(a) = i - 1 /\ \A j \in 1 .. i - 1 : a[j] = s[j]
  <2>1. \A j \in 1 .. i - 1 : s[j] \in ListOrder
    BY <1>1
  <2>2. /\ a \in Seq(ListOrder) /\ Len(a) = IF 1 <= i - 1 THEN (i - 1) - 1 + 1 ELSE 0
        /\ \A j \in 1 .. (i - 1) - 1 + 1 : a[j] = s[1 + j - 1]
    BY <1>1, <2>1, SubSeqProperties
  <2> HIDE DEF a
  <2>3. \A j \in 1 .. i - 1 : a[j] = s[j]
    <3> SUFFICES ASSUME NEW j \in 1 .. i - 1 PROVE a[j] = s[j]
      OBVIOUS
    <3>1. j \in 1 .. (i - 1) - 1 + 1 /\ 1 + j - 1 = j
      BY <1>1
    <3> QED
      BY <2>2, <3>1
  <2> QED
    BY <1>1, <2>2, <2>3
<1>3. c \in Seq(ListOrder) /\ Len(c) = Len(s) - i /\ \A j \in 1 .. Len(s) - i : c[j] = s[i + j]
  <2>1. \A j \in i + 1 .. Len(s) : s[j] \in ListOrder
    BY <1>1
  <2>2. /\ c \in Seq(ListOrder) /\ Len(c) = IF i + 1 <= Len(s) THEN Len(s) - (i + 1) + 1 ELSE 0
        /\ \A j \in 1 .. Len(s) - (i + 1) + 1 : c[j] = s[(i + 1) + j - 1]
    BY <1>1, <2>1, SubSeqProperties
  <2> HIDE DEF c
  <2>3. ASSUME NEW j \in 1 .. Len(s) - i PROVE c[j] = s[i + j]
    <3>1. j \in 1 .. Len(s) - (i + 1) + 1 /\ (i + 1) + j - 1 = i + j
      BY <1>1
    <3> QED
      BY <2>2, <3>1
  <2> QED
    BY <1>1, <2>2, <2>3
<1>4. t = a \o c
  BY DEF List!Sorted!RemoveAt
<1> HIDE DEF a, c
<1>5. /\ t \in Seq(ListOrder) /\ Len(t) = Len(a) + Len(c)
      /\ \A j \in 1 .. Len(a) + Len(c) : t[j] = IF j <= Len(a) THEN a[j] ELSE c[j - Len(a)]
  <2>1. /\ a \o c \in Seq(ListOrder) /\ Len(a \o c) = Len(a) + Len(c)
        /\ \A j \in 1 .. Len(a) + Len(c) : (a \o c)[j] = IF j <= Len(a) THEN a[j] ELSE c[j - Len(a)]
    BY <1>2, <1>3, ConcatProperties
  <2> QED
    BY <1>4, <2>1
<1>6. Len(a) + Len(c) = Len(s) - 1
  BY <1>1, <1>2, <1>3
<1>7. ASSUME NEW j \in 1 .. Len(s) - 1 PROVE t[j] = IF j < i THEN s[j] ELSE s[j + 1]
  <2>1. t[j] = IF j <= i - 1 THEN a[j] ELSE c[j - (i - 1)]
    BY <1>2, <1>5, <1>6
  <2>2. CASE j < i
    <3>1. j <= i - 1 /\ j \in 1 .. i - 1
      BY <1>1, <2>2
    <3> QED
      BY <1>2, <2>1, <2>2, <3>1
  <2>3. CASE ~(j < i)
    <3>1. ~(j <= i - 1) /\ j - (i - 1) \in 1 .. Len(s) - i /\ i + (j - (i - 1)) = j + 1
      BY <1>1, <2>3
    <3>2. c[j - (i - 1)] = s[i + (j - (i - 1))]
      BY <1>3, <3>1
    <3> QED
      BY <2>1, <2>3, <3>1, <3>2
  <2> QED
    BY <2>2, <2>3
<1> QED
  BY <1>5, <1>6, <1>7

-----------------------------------------------------------------------------
(* The list implements the sorted list of SortedOrderList.                  *)

(* A node holds an object as long as it is in the map.                      *)
HeldOK == \A o \in ListOrder : object[o] = None <=> o \notin nodeMap

RInv == IInv /\ HeldOK /\ \E s : Linked(s)

LEMMA SamePriority ==
    ASSUME List!ListAssumption, NEW o \in ListOrder, NEW m \in ListOrder
    PROVE  List!Sorted!HasPriorityOver(o, m) <=> List!prependNode(m, o)
BY ListFacts DEF List!Sorted!HasPriorityOver, List!Sorted!Better, List!prependNode

(* Who goes before a node goes before all nodes behind it.                  *)
LEMMA PriorityCarriesOn ==
    ASSUME List!ListAssumption, NEW o \in ListOrder, NEW m \in ListOrder, NEW n \in ListOrder,
           ~List!prependNode(m, n), List!prependNode(m, o)
    PROVE  List!prependNode(n, o) /\ ~List!prependNode(o, n)
BY ListFacts DEF List!prependNode

(* o goes into s at place i: the links change around it, and it is the      *)
(* place where it belongs.                                                  *)
LEMMA LinkedWithNew ==
    ASSUME List!ListAssumption, NEW s, Linked(s), NEW o \in ListOrder \ nodeMap,
           NEW i \in 1 .. Len(s) + 1, NEW t, t = List!Sorted!InsertAt(s, i, o),
           \A j \in 1 .. Len(s) : List!prependNode(s[j], o) <=> j >= i,
           nodeMap' = nodeMap \cup {o},
           head' = IF i = 1 THEN o ELSE head,
           \A n \in ListOrder :
               next'[n] = IF n = o THEN (IF i <= Len(s) THEN s[i] ELSE None)
                          ELSE IF i > 1 /\ n = s[i - 1] THEN o ELSE next[n]
    PROVE  Linked(t)'
<1> DEFINE L == Len(s)
<1>1. /\ L \in Nat /\ i \in 1 .. L + 1 /\ s \in Seq(ListOrder)
      /\ \A j \in 1 .. L : s[j] \in ListOrder /\ s[j] \in nodeMap /\ s[j] # o /\ s[j] # None
  BY LengthIsBounded DEF Linked
<1>2. /\ t \in Seq(ListOrder) /\ Len(t) = L + 1
      /\ \A j \in 1 .. L + 1 : t[j] = IF j < i THEN s[j] ELSE IF j = i THEN o ELSE s[j - 1]
  <2>1. s \in Seq(ListOrder) /\ i \in 1 .. Len(s) + 1 /\ o \in ListOrder
    BY <1>1
  <2> QED
    BY <2>1, InsertedAt
<1>3. ASSUME NEW n \in ListOrder PROVE n \in nodeMap' <=> \E j \in 1 .. L + 1 : t[j] = n
  <2>1. ASSUME NEW j \in 1 .. L, s[j] = n PROVE \E k \in 1 .. L + 1 : t[k] = n
    <3>1. CASE j < i
      <4>1. j \in 1 .. L + 1
        BY <1>1
      <4> QED
        BY <1>2, <2>1, <3>1, <4>1
    <3>2. CASE ~(j < i)
      <4>1. j + 1 \in 1 .. L + 1 /\ ~(j + 1 < i) /\ j + 1 # i /\ j + 1 - 1 = j
        BY <1>1, <3>2
      <4>2. t[j + 1] = s[j + 1 - 1]
        BY <1>2, <4>1
      <4> QED
        BY <2>1, <4>1, <4>2
    <3> QED
      BY <3>1, <3>2
  <2>2. t[i] = o /\ i \in 1 .. L + 1
    BY <1>1, <1>2
  <2>3. ASSUME NEW j \in 1 .. L + 1, t[j] = n, n # o PROVE \E k \in 1 .. L : s[k] = n
    <3>1. CASE j < i
      <4>1. j \in 1 .. L
        BY <1>1, <3>1
      <4> QED
        BY <1>2, <2>3, <3>1, <4>1
    <3>2. CASE ~(j < i) /\ j # i
      <4>1. j - 1 \in 1 .. L
        BY <1>1, <3>2
      <4> QED
        BY <1>2, <2>3, <3>2, <4>1
    <3> QED
      BY <1>2, <2>3, <3>1, <3>2
  <2>4. n \in nodeMap <=> \E j \in 1 .. L : s[j] = n
    BY DEF Linked
  <2> QED
    BY <2>1, <2>2, <2>3, <2>4
<1>4. ASSUME NEW j \in 1 .. L + 1, NEW k \in 1 .. L + 1, t[j] = t[k] PROVE j = k
  <2> DEFINE place(x) == IF x < i THEN x ELSE x - 1
  <2>1. ASSUME NEW x \in 1 .. L + 1, x # i PROVE place(x) \in 1 .. L /\ t[x] = s[place(x)]
    BY <1>1, <1>2, <2>1
  <2>2. CASE j = i
    BY <1>1, <1>2, <1>4, <2>1, <2>2
  <2>3. CASE k = i
    BY <1>1, <1>2, <1>4, <2>1, <2>3
  <2>4. CASE j # i /\ k # i
    <3>1. place(j) = place(k)
      BY <1>4, <2>1, <2>4 DEF Linked
    <3> QED
      BY <1>1, <2>4, <3>1
  <2> QED
    BY <2>2, <2>3, <2>4
<1>5. head' = t[1] /\ L + 1 # 0
  <2>1. CASE i = 1
    BY <1>1, <1>2, <2>1
  <2>2. CASE i # 1
    <3>1. 1 \in 1 .. L + 1 /\ 1 < i /\ L # 0
      BY <1>1, <2>2
    <3> QED
      BY <1>1, <1>2, <2>2, <3>1 DEF Linked
  <2> QED
    BY <2>1, <2>2
<1>6. ASSUME NEW j \in 1 .. L + 1 PROVE next'[t[j]] = IF j = L + 1 THEN None ELSE t[j + 1]
  <2>1. CASE j = i
    <3>1. next'[t[j]] = IF i <= L THEN s[i] ELSE None
      BY <1>2, <2>1
    <3>2. CASE i <= L
      <4>1. j + 1 \in 1 .. L + 1 /\ ~(j + 1 < i) /\ j + 1 # i /\ j + 1 - 1 = i /\ j # L + 1
        BY <1>1, <2>1, <3>2
      <4>2. t[j + 1] = s[j + 1 - 1]
        BY <1>2, <4>1
      <4> QED
        BY <3>1, <3>2, <4>1, <4>2
    <3>3. CASE ~(i <= L)
      BY <1>1, <2>1, <3>1, <3>3
    <3> QED
      BY <3>2, <3>3
  <2>2. CASE j < i
    <3>1. j \in 1 .. L /\ t[j] = s[j] /\ s[j] \in ListOrder /\ s[j] # o /\ j # L + 1 /\ j + 1 \in 1 .. L + 1
      BY <1>1, <1>2, <2>2
    <3>2. CASE j = i - 1
      <4>1. i > 1 /\ j + 1 = i /\ t[i] = o
        BY <1>1, <1>2, <3>2
      <4> QED
        BY <3>1, <3>2, <4>1
    <3>3. CASE j # i - 1
      <4>1. i > 1 => i - 1 \in 1 .. L /\ s[j] # s[i - 1]
        <5>1. i > 1 => i - 1 \in 1 .. L
          BY <1>1
        <5> QED
          BY <3>1, <3>3, <5>1 DEF Linked
      <4>2. next'[t[j]] = next[s[j]]
        BY <3>1, <4>1
      <4>3. j # L /\ j + 1 < i
        BY <1>1, <2>2, <3>3
      <4>4. next[s[j]] = s[j + 1]
        BY <3>1, <4>3 DEF Linked
      <4>5. t[j + 1] = s[j + 1]
        BY <1>2, <3>1, <4>3
      <4> QED
        BY <3>1, <4>2, <4>4, <4>5
    <3> QED
      BY <3>2, <3>3
  <2>3. CASE j > i
    <3>1. j - 1 \in 1 .. L /\ ~(j < i) /\ j # i
      BY <1>1, <2>3
    <3>2. t[j] = s[j - 1] /\ s[j - 1] \in ListOrder /\ s[j - 1] # o
      BY <1>1, <1>2, <3>1
    <3>3. i > 1 => i - 1 \in 1 .. L /\ s[j - 1] # s[i - 1]
      <4>1. i > 1 => i - 1 \in 1 .. L /\ i - 1 # j - 1
        BY <1>1, <2>3
      <4> QED
        BY <3>1, <4>1 DEF Linked
    <3>4. next'[t[j]] = next[s[j - 1]]
      BY <3>2, <3>3
    <3>5. next[s[j - 1]] = IF j - 1 = L THEN None ELSE s[j - 1 + 1]
      BY <3>1 DEF Linked
    <3>6. CASE j = L + 1
      BY <1>1, <3>4, <3>5, <3>6
    <3>7. CASE j # L + 1
      <4>1. j + 1 \in 1 .. L + 1 /\ ~(j + 1 < i) /\ j + 1 # i /\ j + 1 - 1 = j /\ j - 1 + 1 = j /\ j - 1 # L
        BY <1>1, <2>3, <3>7
      <4>2. t[j + 1] = s[j + 1 - 1]
        BY <1>2, <4>1
      <4> QED
        BY <3>4, <3>5, <3>7, <4>1, <4>2
    <3> QED
      BY <3>6, <3>7
  <2> QED
    BY <1>1, <2>1, <2>2, <2>3
<1>7. ASSUME NEW j \in 1 .. L + 1, NEW k \in 1 .. L + 1, j < k PROVE ~List!prependNode(t[j], t[k])
  <2>1. \A x, y \in 1 .. L : x < y => ~List!prependNode(s[x], s[y])
    BY DEF Linked
  <2>2. CASE k < i
    <3>1. j \in 1 .. L /\ k \in 1 .. L /\ t[j] = s[j] /\ t[k] = s[k]
      BY <1>1, <1>2, <1>7, <2>2
    <3> QED
      BY <1>7, <2>1, <3>1
  <2>3. CASE k = i
    <3>1. j \in 1 .. L /\ t[j] = s[j] /\ t[k] = o /\ ~(j >= i)
      BY <1>1, <1>2, <1>7, <2>3
    <3> QED
      BY <3>1
  <2>4. CASE k > i /\ j < i
    <3>1. j \in 1 .. L /\ k - 1 \in 1 .. L /\ t[j] = s[j] /\ t[k] = s[k - 1] /\ j < k - 1
      BY <1>1, <1>2, <1>7, <2>4
    <3> QED
      BY <2>1, <3>1
  <2>5. CASE k > i /\ j = i
    <3>1. k - 1 \in 1 .. L /\ t[j] = o /\ t[k] = s[k - 1] /\ k - 1 >= i /\ s[k - 1] \in ListOrder
      BY <1>1, <1>2, <1>7, <2>5
    <3>2. List!prependNode(s[k - 1], o)
      BY <3>1
    <3> QED
      BY <3>1, <3>2, PrependAsymmetric
  <2>6. CASE k > i /\ j > i
    <3>1. j - 1 \in 1 .. L /\ k - 1 \in 1 .. L /\ t[j] = s[j - 1] /\ t[k] = s[k - 1] /\ j - 1 < k - 1
      BY <1>1, <1>2, <1>7, <2>6
    <3> QED
      BY <2>1, <3>1
  <2> QED
    BY <1>1, <2>2, <2>3, <2>4, <2>5, <2>6
<1>8. \A m, n : List!prependNode(m, n)' <=> List!prependNode(m, n)
  BY DEF List!prependNode
<1> HIDE DEF L
<1> QED
  BY <1>2, <1>3, <1>4, <1>5, <1>6, <1>7, <1>8 DEF Linked, L

(* o leaves place i of s: the links close over it.                          *)
LEMMA LinkedWithout ==
    ASSUME List!ListAssumption, NEW s, Linked(s), NEW i \in 1 .. Len(s), NEW o, o = s[i],
           NEW t, t = List!Sorted!RemoveAt(s, i),
           nodeMap' = nodeMap \ {o},
           head' = IF i = 1 THEN next[o] ELSE head,
           \A n \in ListOrder :
               next'[n] = IF n = o THEN None
                          ELSE IF i > 1 /\ n = s[i - 1] THEN next[o] ELSE next[n]
    PROVE  Linked(t)'
<1> DEFINE L == Len(s)
<1>1. /\ L \in Nat /\ i \in 1 .. L /\ s \in Seq(ListOrder)
      /\ \A j \in 1 .. L : s[j] \in ListOrder /\ s[j] \in nodeMap /\ s[j] # None
      /\ \A j \in 1 .. L : s[j] = o => j = i
      /\ next[o] = IF i = L THEN None ELSE s[i + 1]
  BY LengthIsBounded DEF Linked
<1>2. /\ t \in Seq(ListOrder) /\ Len(t) = L - 1
      /\ \A j \in 1 .. L - 1 : t[j] = IF j < i THEN s[j] ELSE s[j + 1]
  <2>1. s \in Seq(ListOrder) /\ i \in 1 .. Len(s)
    BY <1>1
  <2> QED
    BY <2>1, RemovedAt
<1> DEFINE from(j) == IF j < i THEN j ELSE j + 1
<1>3. ASSUME NEW j \in 1 .. L - 1
      PROVE  from(j) \in 1 .. L /\ from(j) # i /\ t[j] = s[from(j)] /\ t[j] \in ListOrder /\ t[j] # o
  <2>1. from(j) \in 1 .. L /\ from(j) # i /\ t[j] = s[from(j)]
    BY <1>1, <1>2
  <2> HIDE DEF from
  <2> QED
    BY <1>1, <2>1
<1>4. ASSUME NEW n \in ListOrder PROVE n \in nodeMap' <=> \E j \in 1 .. L - 1 : t[j] = n
  <2>1. n \in nodeMap <=> \E j \in 1 .. L : s[j] = n
    BY DEF Linked
  <2>2. ASSUME NEW j \in 1 .. L, s[j] = n, n # o PROVE \E k \in 1 .. L - 1 : t[k] = n
    <3>1. j # i
      BY <2>2
    <3>2. CASE j < i
      <4>1. j \in 1 .. L - 1
        BY <1>1, <3>2
      <4> QED
        BY <1>2, <2>2, <3>2, <4>1
    <3>3. CASE j > i
      <4>1. j - 1 \in 1 .. L - 1 /\ ~(j - 1 < i) /\ j - 1 + 1 = j
        BY <1>1, <3>3
      <4>2. t[j - 1] = s[j - 1 + 1]
        BY <1>2, <4>1
      <4> QED
        BY <2>2, <4>1, <4>2
    <3> QED
      BY <1>1, <3>1, <3>2, <3>3
  <2>3. ASSUME NEW j \in 1 .. L - 1, t[j] = n PROVE n # o /\ \E k \in 1 .. L : s[k] = n
    <3> HIDE DEF from
    <3> QED
      BY <1>3, <2>3
  <2> QED
    BY <2>1, <2>2, <2>3
<1>5. ASSUME NEW j \in 1 .. L - 1, NEW k \in 1 .. L - 1, t[j] = t[k] PROVE j = k
  <2>1. \A x, y \in 1 .. L : s[x] = s[y] => x = y
    BY DEF Linked
  <2>2. /\ from(j) \in 1 .. L /\ t[j] = s[from(j)]
        /\ from(k) \in 1 .. L /\ t[k] = s[from(k)]
    BY <1>3
  <2>3. from(j) = from(k)
    <3> HIDE DEF from
    <3> QED
      BY <1>5, <2>1, <2>2
  <2> QED
    BY <1>1, <2>3
<1>6. head' = IF L - 1 = 0 THEN None ELSE t[1]
  <2>1. CASE i = 1
    <3>1. CASE L = 1
      BY <1>1, <2>1, <3>1
    <3>2. CASE L # 1
      <4>1. 1 \in 1 .. L - 1 /\ ~(1 < i) /\ i # L /\ 1 + 1 = i + 1
        BY <1>1, <2>1, <3>2
      <4>2. t[1] = s[1 + 1]
        BY <1>2, <4>1
      <4>3. next[o] = s[i + 1]
        BY <1>1, <4>1
      <4> QED
        BY <1>1, <2>1, <3>2, <4>1, <4>2, <4>3
    <3> QED
      BY <3>1, <3>2
  <2>2. CASE i # 1
    <3>1. 1 \in 1 .. L - 1 /\ 1 < i /\ L # 0 /\ L - 1 # 0
      BY <1>1, <2>2
    <3>2. t[1] = s[1]
      BY <1>2, <3>1
    <3> QED
      BY <2>2, <3>1, <3>2 DEF Linked
  <2> QED
    BY <2>1, <2>2
<1>7. ASSUME NEW j \in 1 .. L - 1 PROVE next'[t[j]] = IF j = L - 1 THEN None ELSE t[j + 1]
  <2>1. next'[t[j]] = IF i > 1 /\ t[j] = s[i - 1] THEN next[o] ELSE next[t[j]]
    BY <1>3
  <2>2. \A k \in 1 .. L : next[s[k]] = IF k = L THEN None ELSE s[k + 1]
    BY DEF Linked
  <2>3. CASE j = i - 1
    <3>1. /\ i > 1 /\ j < i /\ i \in 1 .. L /\ j + 1 = i /\ ~(j + 1 < i)
          /\ j = L - 1 <=> i = L
      BY <1>1, <2>3
    <3>2. next'[t[j]] = next[o]
      BY <1>2, <2>1, <2>3, <3>1
    <3>3. CASE j = L - 1
      BY <1>1, <3>1, <3>2, <3>3
    <3>4. CASE j # L - 1
      <4>1. j + 1 \in 1 .. L - 1
        BY <1>1, <3>4
      <4>2. t[j + 1] = s[j + 1 + 1]
        BY <1>2, <3>1, <4>1
      <4>3. next[o] = s[i + 1]
        BY <1>1, <3>1, <3>4
      <4> QED
        BY <3>1, <3>2, <3>4, <4>2, <4>3
    <3> QED
      BY <3>3, <3>4
  <2>4. CASE j < i - 1
    <3>1. j < i /\ j \in 1 .. L /\ i - 1 \in 1 .. L /\ j # i - 1 /\ j # L /\ j # L - 1 /\ j + 1 < i /\ j + 1 \in 1 .. L - 1
      BY <1>1, <2>4
    <3>2. t[j] = s[j] /\ t[j + 1] = s[j + 1]
      BY <1>2, <3>1
    <3>3. s[j] # s[i - 1]
      BY <3>1 DEF Linked
    <3> QED
      BY <2>1, <2>2, <3>1, <3>2, <3>3
  <2>5. CASE j >= i
    <3>1. /\ ~(j < i) /\ j + 1 \in 1 .. L /\ ~(j + 1 < i)
          /\ j + 1 = L <=> j = L - 1
          /\ i > 1 => i - 1 \in 1 .. L /\ i - 1 # j + 1
      BY <1>1, <2>5
    <3>2. t[j] = s[j + 1]
      BY <1>2, <3>1
    <3>3. i > 1 => s[j + 1] # s[i - 1]
      BY <3>1 DEF Linked
    <3>4. next'[t[j]] = IF j + 1 = L THEN None ELSE s[j + 1 + 1]
      BY <2>1, <2>2, <3>1, <3>2, <3>3
    <3>5. CASE j # L - 1
      <4>1. j + 1 \in 1 .. L - 1
        BY <1>1, <3>5
      <4>2. t[j + 1] = s[j + 1 + 1]
        BY <1>2, <3>1, <4>1
      <4> QED
        BY <3>1, <3>4, <3>5, <4>2
    <3> QED
      BY <3>1, <3>4, <3>5
  <2> QED
    BY <1>1, <2>3, <2>4, <2>5
<1>8. ASSUME NEW j \in 1 .. L - 1, NEW k \in 1 .. L - 1, j < k PROVE ~List!prependNode(t[j], t[k])
  <2>1. \A x, y \in 1 .. L : x < y => ~List!prependNode(s[x], s[y])
    BY DEF Linked
  <2>2. from(j) < from(k)
    BY <1>1, <1>8
  <2>3. /\ from(j) \in 1 .. L /\ t[j] = s[from(j)]
        /\ from(k) \in 1 .. L /\ t[k] = s[from(k)]
    BY <1>3
  <2> HIDE DEF from
  <2>4. ~List!prependNode(s[from(j)], s[from(k)])
    BY <2>1, <2>2, <2>3
  <2> QED
    BY <2>3, <2>4
<1>9. \A m, n : List!prependNode(m, n)' <=> List!prependNode(m, n)
  BY DEF List!prependNode
<1> HIDE DEF L
<1> QED
  BY <1>2, <1>4, <1>5, <1>6, <1>7, <1>8, <1>9 DEF Linked, L

(* Where insert puts a node is the place where the order belongs.           *)
LEMMA InsertImplements ==
    ASSUME List!ListAssumption, IInv, NEW o \in ListOrder, NEW v \in Version, List!insert(o, v),
           NEW s, Linked(s)
    PROVE  \E i \in 1 .. Len(s) + 1 : \E t :
               /\ t = List!Sorted!InsertAt(s, i, o)
               /\ Linked(t)'
               /\ \A j \in 1 .. Len(s) : List!prependNode(s[j], o) <=> j >= i
<1>1. /\ Len(s) \in Nat /\ Len(s) <= List!Cardinality(ListOrder) /\ List!Cardinality(ListOrder) \in Nat
      /\ \A j \in 1 .. Len(s) : s[j] \in ListOrder /\ s[j] # None
  BY LengthIsBounded
<1>2. /\ head = IF Len(s) = 0 THEN None ELSE s[1]
      /\ \A j \in 1 .. Len(s) : next[s[j]] = IF j = Len(s) THEN None ELSE s[j + 1]
      /\ \A x, y \in 1 .. Len(s) : x < y => ~List!prependNode(s[x], s[y])
  BY DEF Linked
<1>3. o \in ListOrder \ nodeMap /\ nodeMap' = nodeMap \cup {o} /\ next[o] = None
  BY DEF List!insert, List!NotListed, IInv, List!LinksAgree
<1>4. next \in [ListOrder -> ListOrder \cup {None}]
  BY DEF IInv, List!TypeOK
<1>5. ASSUME NEW i \in 1 .. Len(s) + 1,
             \A j \in 1 .. Len(s) : List!prependNode(s[j], o) <=> j >= i,
             head' = IF i = 1 THEN o ELSE head,
             \A n \in ListOrder :
                 next'[n] = IF n = o THEN (IF i <= Len(s) THEN s[i] ELSE None)
                            ELSE IF i > 1 /\ n = s[i - 1] THEN o ELSE next[n]
      PROVE  \E k \in 1 .. Len(s) + 1 : \E t :
               /\ t = List!Sorted!InsertAt(s, k, o)
               /\ Linked(t)'
               /\ \A j \in 1 .. Len(s) : List!prependNode(s[j], o) <=> j >= k
  <2>1. PICK t : t = List!Sorted!InsertAt(s, i, o)
    OBVIOUS
  <2>2. Linked(t)'
    BY <1>3, <1>5, <2>1, LinkedWithNew
  <2> QED
    BY <1>5, <2>1, <2>2
<1>6. CASE List!InsertFirst(o)
  <2>1. head = None /\ head' = o /\ next' = next
    BY <1>6 DEF List!InsertFirst
  <2>2. Len(s) = 0
    <3>1. CASE Len(s) # 0
      <4>1. 1 \in 1 .. Len(s)
        BY <1>1, <3>1
      <4> QED
        BY <1>1, <1>2, <2>1, <3>1, <4>1
    <3> QED
      BY <3>1
  <2> DEFINE i == 1
  <2>3. i \in 1 .. Len(s) + 1 /\ \A j \in 1 .. Len(s) : List!prependNode(s[j], o) <=> j >= i
    BY <2>2
  <2>4. \A n \in ListOrder : next'[n] = IF n = o THEN (IF i <= Len(s) THEN s[i] ELSE None)
                                        ELSE IF i > 1 /\ n = s[i - 1] THEN o ELSE next[n]
    BY <1>3, <2>1, <2>2
  <2> QED
    BY <1>5, <2>1, <2>3, <2>4
<1>7. CASE List!InsertBeforeHead(o)
  <2>1. /\ head # None /\ List!prependNode(head, o) /\ head' = o
        /\ next' = [next EXCEPT ![o] = head]
    BY <1>7 DEF List!InsertBeforeHead
  <2>2. 1 \in 1 .. Len(s) /\ head = s[1] /\ head \in ListOrder
    BY <1>1, <1>2, <2>1
  <2> DEFINE i == 1
  <2>3. ASSUME NEW j \in 1 .. Len(s) PROVE List!prependNode(s[j], o) <=> j >= i
    <3>1. CASE j = 1
      BY <2>1, <2>2, <3>1
    <3>2. CASE j # 1
      <4>1. 1 < j /\ s[j] \in ListOrder /\ ~List!prependNode(s[1], s[j])
        BY <1>1, <1>2, <2>2, <3>2
      <4> QED
        BY <2>1, <2>2, <4>1, PriorityCarriesOn
    <3> QED
      BY <3>1, <3>2
  <2>4. \A n \in ListOrder : next'[n] = IF n = o THEN (IF i <= Len(s) THEN s[i] ELSE None)
                                        ELSE IF i > 1 /\ n = s[i - 1] THEN o ELSE next[n]
    BY <1>1, <1>3, <1>4, <2>1, <2>2
  <2>5. i \in 1 .. Len(s) + 1
    BY <1>1
  <2> QED
    BY <1>5, <2>1, <2>3, <2>4, <2>5
<1>8. ASSUME NEW n \in nodeMap, List!InsertAfter(n, o)
      PROVE  \E k \in 1 .. Len(s) + 1 : \E t :
               /\ t = List!Sorted!InsertAt(s, k, o)
               /\ Linked(t)'
               /\ \A j \in 1 .. Len(s) : List!prependNode(s[j], o) <=> j >= k
  <2>1. /\ head' = head /\ next' = [next EXCEPT ![o] = next[n], ![n] = o]
        /\ next[n] # None => List!prependNode(next[n], o)
    BY <1>8 DEF List!InsertAfter, List!StopsAt
  <2>2. n \in ListOrder /\ n # None /\ n # o
    BY <1>3, ListFacts DEF IInv, List!TypeOK
  <2> DEFINE N == List!Cardinality(ListOrder)
             W == List!Walk
  <2>3. PICK p \in 0 .. N : W[p] = n /\ \A j \in 0 .. p : ~List!prependNode(W[j], o)
    BY <1>8 DEF List!InsertAfter, List!StopsAt
  <2>4. W = [j \in 0 .. N |-> IF j < Len(s) THEN s[j + 1] ELSE None] /\ N \in Nat
    BY <1>1, WalkYields
  <2> HIDE DEF N, W
  <2>5. p < Len(s) /\ n = s[p + 1] /\ p + 1 \in 1 .. Len(s) /\ p \in Nat
    BY <1>1, <2>2, <2>3, <2>4
  <2> DEFINE i == p + 2
  <2>6. i \in 1 .. Len(s) + 1 /\ i > 1 /\ i # 1 /\ i - 1 = p + 1 /\ p + 1 + 1 = i
    BY <1>1, <2>5
  <2>7. next[n] = IF i <= Len(s) THEN s[i] ELSE None
    <3>1. next[n] = IF p + 1 = Len(s) THEN None ELSE s[p + 1 + 1]
      BY <1>2, <2>5
    <3>2. i <= Len(s) <=> p + 1 # Len(s)
      BY <1>1, <2>5
    <3> QED
      BY <2>6, <3>1, <3>2
  <2>8. ASSUME NEW j \in 1 .. Len(s) PROVE List!prependNode(s[j], o) <=> j >= i
    <3>1. CASE j < i
      <4>1. j - 1 \in 0 .. p /\ j - 1 \in 0 .. N /\ j - 1 < Len(s) /\ j - 1 + 1 = j
        BY <1>1, <2>4, <2>5, <3>1
      <4>2. W[j - 1] = s[j - 1 + 1]
        BY <2>4, <4>1
      <4> QED
        BY <2>3, <2>6, <3>1, <4>1, <4>2
    <3>2. CASE j >= i
      <4>1. i \in 1 .. Len(s) /\ i <= Len(s) /\ s[i] \in ListOrder /\ s[i] # None /\ s[j] \in ListOrder
        BY <1>1, <2>6, <3>2
      <4>2. List!prependNode(s[i], o)
        BY <2>1, <2>7, <4>1
      <4>3. CASE j = i
        BY <3>2, <4>2, <4>3
      <4>4. CASE j # i
        <5>1. i < j
          BY <2>6, <3>2, <4>4
        <5>2. ~List!prependNode(s[i], s[j])
          BY <1>2, <4>1, <5>1
        <5> HIDE DEF i
        <5> QED
          BY <3>2, <4>1, <4>2, <5>2, PriorityCarriesOn
      <4> QED
        BY <4>3, <4>4
    <3> QED
      BY <2>6, <3>1, <3>2
  <2>9. \A m \in ListOrder : next'[m] = IF m = o THEN (IF i <= Len(s) THEN s[i] ELSE None)
                                        ELSE IF i > 1 /\ m = s[i - 1] THEN o ELSE next[m]
    BY <1>4, <2>1, <2>2, <2>5, <2>6, <2>7
  <2>10. head' = IF i = 1 THEN o ELSE head
    BY <2>1, <2>6
  <2> HIDE DEF i
  <2> QED
    BY <1>5, <2>6, <2>8, <2>9, <2>10
<1> QED
  BY <1>6, <1>7, <1>8 DEF List!insert

(* remove takes the node out of its place and leaves the others in theirs.  *)
LEMMA RemoveImplements ==
    ASSUME List!ListAssumption, IInv, NEW o \in ListOrder, List!remove(o), ~mistaken',
           NEW s, Linked(s)
    PROVE  \E i \in 1 .. Len(s) : \E t :
               s[i] = o /\ t = List!Sorted!RemoveAt(s, i) /\ Linked(t)'
<1>1. /\ Len(s) \in Nat
      /\ \A j \in 1 .. Len(s) : s[j] \in ListOrder /\ s[j] # None
  BY LengthIsBounded
<1>2. PICK i \in 1 .. Len(s) : s[i] = o
  BY DEF List!remove, Linked
<1>3. PICK t : t = List!Sorted!RemoveAt(s, i)
  OBVIOUS
<1>4. nodeMap' = nodeMap \ {o} /\ o \in nodeMap
  BY DEF List!remove
<1>5. head' = IF i = 1 THEN next[o] ELSE head
  <2>1. head = s[1] /\ 1 \in 1 .. Len(s) /\ head \in ListOrder /\ head # None
    BY <1>1, <1>2 DEF Linked
  <2>2. head = o <=> i = 1
    BY <1>2, <2>1 DEF Linked
  <2>3. head' = IF o = head THEN next[o] ELSE head
    BY <2>1 DEF List!remove, List!TakenForHead
  <2> QED
    BY <2>2, <2>3
<1>6. previous[o] = IF i > 1 THEN s[i - 1] ELSE None
  <2>1. CASE i = 1
    <3>1. head = o
      BY <1>1, <1>2, <2>1 DEF Linked
    <3> QED
      BY <1>4, <2>1, <3>1, ListFacts DEF IInv, List!TypeOK, List!LinksAgree
  <2>2. CASE i # 1
    <3>1. i > 1 /\ i - 1 \in 1 .. Len(s) /\ i - 1 # Len(s) /\ i - 1 + 1 = i
      BY <1>1, <1>2, <2>2
    <3>2. next[s[i - 1]] = s[i - 1 + 1] /\ s[i - 1] \in ListOrder
      BY <1>1, <3>1 DEF Linked
    <3>3. s[i - 1] \in nodeMap
      BY <3>1, <3>2 DEF Linked
    <3> QED
      BY <1>1, <1>2, <3>1, <3>2, <3>3 DEF IInv, List!LinksAgree
  <2> QED
    BY <2>1, <2>2
<1>7. ASSUME NEW n \in ListOrder
      PROVE  next'[n] = IF n = o THEN None
                        ELSE IF i > 1 /\ n = s[i - 1] THEN next[o] ELSE next[n]
  <2>1. n # None
    BY ListFacts
  <2>2. next'[n] = IF n = o THEN None ELSE IF n = previous[o] THEN next[o] ELSE next[n]
    BY DEF List!remove
  <2> QED
    BY <1>6, <2>1, <2>2
<1>8. Linked(t)'
  BY <1>2, <1>3, <1>4, <1>5, <1>7, LinkedWithout
<1> QED
  BY <1>2, <1>3, <1>8

LEMMA RefinementInit == List!ListAssumption => (List!Init => HeldOK /\ Linked(<<>>))
<1> SUFFICES ASSUME List!ListAssumption, List!Init PROVE HeldOK /\ Linked(<<>>)
  OBVIOUS
<1>1. nodeMap = {} /\ head = None /\ object = [n \in ListOrder |-> None]
  BY DEF List!Init, List!NoLinks
<1>2. HeldOK
  BY <1>1 DEF HeldOK
<1>3. Linked(<<>>)
  BY <1>1 DEF Linked
<1> QED
  BY <1>2, <1>3

LEMMA ClearImplements ==
    ASSUME List!ListAssumption, List!clear
    PROVE  HeldOK' /\ Linked(<<>>)' /\ List!Sorted!ClearList
<1>1. nodeMap' = {} /\ head' = None /\ object' = [n \in ListOrder |-> None]
  BY DEF List!clear, List!NoLinks
<1>2. HeldOK' /\ Linked(<<>>)'
  BY <1>1 DEF HeldOK, Linked
<1>3. List!getGenerator' = <<>>
  BY <1>2, GeneratorWillYield
<1> QED
  BY <1>1, <1>2, <1>3 DEF List!Sorted!ClearList

(* Every step of the linked list is a step of the sorted list or leaves it. *)
LEMMA RefinementStep ==
    ASSUME List!ListAssumption, RInv, [List!Next]_List!vars, ~mistaken'
    PROVE  HeldOK' /\ (\E t : Linked(t)') /\ [List!Sorted!Next]_<<List!getGenerator, object>>
<1>1. PICK s : Linked(s)
  BY DEF RInv
<1>2. IInv /\ HeldOK
  BY DEF RInv
<1>3. List!getGenerator = s
  BY <1>1, GeneratorYields
<1>4. \A t : Linked(t)' => List!getGenerator' = t
  BY GeneratorWillYield
<1>5. object \in [ListOrder -> Version \cup {None}] /\ nodeMap \subseteq ListOrder /\ None \notin Version
  BY <1>2, ListFacts DEF IInv, List!TypeOK
<1>6. \A j \in 1 .. Len(s) : s[j] \in ListOrder
  BY <1>1, LengthIsBounded
<1>7. ASSUME NEW o \in ListOrder, NEW v \in Version, List!insert(o, v)
      PROVE  HeldOK' /\ (\E t : Linked(t)') /\ [List!Sorted!Next]_<<List!getGenerator, object>>
  <2>1. PICK i \in 1 .. Len(s) + 1 : \E t :
            /\ t = List!Sorted!InsertAt(s, i, o)
            /\ Linked(t)'
            /\ \A j \in 1 .. Len(s) : List!prependNode(s[j], o) <=> j >= i
    BY <1>1, <1>2, <1>7, InsertImplements
  <2>2. PICK t : /\ t = List!Sorted!InsertAt(s, i, o)
                 /\ Linked(t)'
                 /\ \A j \in 1 .. Len(s) : List!prependNode(s[j], o) <=> j >= i
    BY <2>1
  <2>3. o \notin nodeMap /\ nodeMap' = nodeMap \cup {o} /\ object' = [object EXCEPT ![o] = v]
    BY <1>7 DEF List!insert, List!NotListed
  <2>4. HeldOK'
    BY <1>2, <1>5, <2>3 DEF HeldOK
  <2>5. object[o] = None
    BY <1>2, <2>3 DEF HeldOK
  <2>6. \A j \in 1 .. Len(s) : List!Sorted!HasPriorityOver(o, s[j]) <=> j >= i
    BY <1>6, <2>2, SamePriority
  <2>7. List!getGenerator' = List!Sorted!InsertAt(s, i, o)
    BY <1>4, <2>2
  <2>8. List!Sorted!InsertOrder(o, v)
    BY <1>3, <2>3, <2>5, <2>6, <2>7 DEF List!Sorted!InsertOrder
  <2> QED
    BY <2>2, <2>4, <2>8 DEF List!Sorted!Next
<1>8. ASSUME UNCHANGED <<nodeMap, head, next>> PROVE Linked(s)' /\ List!getGenerator' = List!getGenerator
  <2>1. \A m, n : List!prependNode(m, n)' <=> List!prependNode(m, n)
    BY DEF List!prependNode
  <2>2. Linked(s)'
    BY <1>1, <1>8, <2>1 DEF Linked
  <2> QED
    BY <1>3, <1>4, <2>2
<1>9. ASSUME NEW o \in ListOrder, NEW v \in Version, List!update(o, v)
      PROVE  HeldOK' /\ (\E t : Linked(t)') /\ [List!Sorted!Next]_<<List!getGenerator, object>>
  <2>1. /\ o \in nodeMap /\ object' = [object EXCEPT ![o] = v]
        /\ nodeMap' = nodeMap /\ head' = head /\ next' = next
    BY <1>9 DEF List!update
  <2>2. HeldOK'
    BY <1>2, <1>5, <2>1 DEF HeldOK
  <2>3. object[o] # None
    BY <1>2, <2>1 DEF HeldOK
  <2>4. Linked(s)' /\ List!getGenerator' = List!getGenerator
    BY <1>8, <2>1
  <2>5. List!Sorted!UpdateOrder(o, v)
    BY <2>1, <2>3, <2>4 DEF List!Sorted!UpdateOrder
  <2> QED
    BY <2>2, <2>4, <2>5 DEF List!Sorted!Next
<1>10. ASSUME NEW o \in ListOrder, List!remove(o)
       PROVE  HeldOK' /\ (\E t : Linked(t)') /\ [List!Sorted!Next]_<<List!getGenerator, object>>
  <2>1. PICK i \in 1 .. Len(s) : \E t : s[i] = o /\ t = List!Sorted!RemoveAt(s, i) /\ Linked(t)'
    BY <1>1, <1>2, <1>10, RemoveImplements
  <2>2. PICK t : s[i] = o /\ t = List!Sorted!RemoveAt(s, i) /\ Linked(t)'
    BY <2>1
  <2>3. o \in nodeMap /\ nodeMap' = nodeMap \ {o} /\ object' = [object EXCEPT ![o] = None]
    BY <1>10 DEF List!remove
  <2>4. HeldOK'
    BY <1>2, <1>5, <2>3 DEF HeldOK
  <2>5. object[o] # None
    BY <1>2, <2>3 DEF HeldOK
  <2>6. List!getGenerator' = List!Sorted!RemoveAt(s, i)
    BY <1>4, <2>2
  <2>7. List!Sorted!RemoveOrder(o)
    BY <1>3, <2>2, <2>3, <2>5, <2>6 DEF List!Sorted!RemoveOrder
  <2> QED
    BY <2>2, <2>4, <2>7 DEF List!Sorted!Next
<1>11. CASE List!clear
  BY <1>11, ClearImplements DEF List!Sorted!Next
<1>12. CASE UNCHANGED List!vars
  <2>1. UNCHANGED <<nodeMap, head, next, object>>
    BY <1>12 DEF List!vars
  <2>2. HeldOK'
    BY <1>2, <2>1 DEF HeldOK
  <2> QED
    BY <1>8, <2>1, <2>2
<1> QED
  BY <1>7, <1>9, <1>10, <1>11, <1>12 DEF List!Next

RefinementInv == ListInv /\ (~mistaken => RInv)

(* The linked list does what the sorted list of SortedOrderList does, until *)
(* remove takes for the head an order that only has its id.                 *)
THEOREM ListImplementsSortedList == List!ListAssumption => (List!Spec => ImplementsSortedList)
<1> SUFFICES ASSUME List!ListAssumption PROVE List!Spec => ImplementsSortedList
  OBVIOUS
<1>1. List!Init => RefinementInv /\ List!Sorted!Init
  <2> SUFFICES ASSUME List!Init PROVE RefinementInv /\ List!Sorted!Init
    OBVIOUS
  <2>1. HeldOK /\ Linked(<<>>)
    BY RefinementInit
  <2>2. List!getGenerator = <<>>
    BY <2>1, GeneratorYields
  <2>3. object = [n \in ListOrder |-> None]
    BY DEF List!Init, List!NoLinks
  <2>4. IInv /\ List!TypeOK
    BY InitIInv DEF IInv
  <2> QED
    BY <2>1, <2>2, <2>3, <2>4 DEF RefinementInv, ListInv, RInv, List!Sorted!Init
<1>2. RefinementInv /\ [List!Next]_List!vars
        => RefinementInv' /\ [List!Sorted!Next \/ mistaken']_<<List!getGenerator, object>>
  <2> SUFFICES ASSUME RefinementInv, [List!Next]_List!vars
               PROVE  RefinementInv' /\ [List!Sorted!Next \/ mistaken']_<<List!getGenerator, object>>
    OBVIOUS
  <2>1. ListInv'
    BY NextIInv DEF RefinementInv
  <2>2. CASE mistaken'
    BY <2>1, <2>2 DEF RefinementInv
  <2>3. CASE ~mistaken' /\ ~mistaken
    <3>1. HeldOK' /\ (\E t : Linked(t)') /\ [List!Sorted!Next]_<<List!getGenerator, object>>
      BY <2>3, RefinementStep DEF RefinementInv
    <3> QED
      BY <2>1, <2>3, <3>1 DEF RefinementInv, ListInv, RInv
  <2>4. CASE ~mistaken' /\ mistaken
    <3>1. List!clear
      <4>1. \A o \in ListOrder, v \in Version : ~List!insert(o, v) /\ ~List!update(o, v)
        BY <2>4 DEF List!insert, List!NotListed, List!update
      <4>2. \A o \in ListOrder : ~List!remove(o)
        BY <2>4 DEF List!remove
      <4>3. ~UNCHANGED List!vars
        BY <2>4 DEF List!vars
      <4> QED
        BY <4>1, <4>2, <4>3 DEF List!Next
    <3>2. HeldOK' /\ Linked(<<>>)' /\ List!Sorted!ClearList
      BY <3>1, ClearImplements
    <3> QED
      BY <2>1, <2>4, <3>2 DEF RefinementInv, ListInv, RInv, List!Sorted!Next
  <2> QED
    BY <2>2, <2>3, <2>4
<1> QED
  BY <1>1, <1>2, PTL DEF List!Spec, ImplementsSortedList, List!ImplementsSortedList

-----------------------------------------------------------------------------
(* The search.                                                              *)
(* Induction, stated with sets: what holds of the empty set, and of a set   *)
(* when it holds of the set without one element, holds of every finite set. *)
Picked(s) == CHOOSE x \in s : TRUE

LEMMA SetInduction ==
    ASSUME NEW S, IsFiniteSet(S), NEW Good, {} \in Good,
           \A s \in SUBSET S : s # {} /\ s \ {Picked(s)} \in Good => s \in Good
    PROVE  S \in Good
<1> SUFFICES ASSUME S \notin Good PROVE FALSE
  OBVIOUS
<1> DEFINE Bad == {s \in SUBSET S : s \notin Good}
           T == {Cardinality(s) : s \in Bad}
<1>1. ASSUME NEW s \in SUBSET S
      PROVE  /\ IsFiniteSet(s) /\ Cardinality(s) \in Nat
             /\ \A x \in s : s \ {x} \in SUBSET S /\ Cardinality(s \ {x}) = Cardinality(s) - 1
  BY FS_Subset, FS_CardinalityType, FS_RemoveElement
<1>2. T \in SUBSET Nat /\ T # {}
  BY <1>1
<1>3. PICK n \in T : \A m \in T : n <= m
  <2> HIDE DEF T
  <2> QED
    BY <1>2, LeastNat
<1>4. PICK s \in Bad : n = Cardinality(s)
  OBVIOUS
<1> DEFINE x == Picked(s)
<1>5. s # {} /\ x \in s
  <2>1. s # {}
    OBVIOUS
  <2> QED
    BY <2>1 DEF Picked
<1>6. s \ {x} \notin Bad
  <2>1. Cardinality(s \ {x}) = n - 1 /\ n \in Nat
    <3> HIDE DEF x
    <3> QED
      BY <1>1, <1>4, <1>5
  <2> SUFFICES ASSUME s \ {x} \in Bad PROVE FALSE
    OBVIOUS
  <2>2. n <= n - 1
    BY <1>3, <2>1
  <2> QED
    BY <2>1, <2>2
<1>7. s \ {x} \in Good
  BY <1>1, <1>5, <1>6
<1> QED
  BY <1>4, <1>5, <1>7

(* A finite set that is not empty has a least and a greatest element.       *)
LEMMA Extremes ==
    ASSUME NEW S, IsFiniteSet(S), S # {}, NEW f, \A x \in S : f[x] \in Nat
    PROVE  /\ \E x \in S : \A y \in S : f[x] <= f[y]
           /\ \E x \in S : \A y \in S : f[x] >= f[y]
<1> DEFINE Low(s)  == \E x \in s : \A y \in s : f[x] <= f[y]
           High(s) == \E x \in s : \A y \in s : f[x] >= f[y]
           Good == {s \in SUBSET S : s # {} => Low(s) /\ High(s)}
<1>1. {} \in Good
  OBVIOUS
<1>2. ASSUME NEW s \in SUBSET S, s # {}, s \ {Picked(s)} \in Good PROVE s \in Good
  <2> DEFINE x == Picked(s)
  <2>0. x \in s
    BY <1>2 DEF Picked
  <2> HIDE DEF x
  <2>1. CASE s = {x}
    <3>1. f[x] <= f[x] /\ f[x] >= f[x]
      BY <2>0
    <3> QED
      BY <2>0, <2>1, <3>1
  <2>2. CASE s # {x}
    <3>1. PICK low \in s \ {x} : \A y \in s \ {x} : f[low] <= f[y]
      BY <1>2, <2>2 DEF x
    <3>2. PICK high \in s \ {x} : \A y \in s \ {x} : f[high] >= f[y]
      BY <1>2, <2>2 DEF x
    <3>3. f[x] \in Nat /\ f[low] \in Nat /\ f[high] \in Nat /\ \A y \in s : f[y] \in Nat
      BY <2>0
    <3>4. Low(s)
      <4>1. CASE f[x] <= f[low]
        BY <2>0, <3>1, <3>3, <4>1
      <4>2. CASE ~(f[x] <= f[low])
        BY <3>1, <3>3, <4>2
      <4> QED
        BY <4>1, <4>2
    <3>5. High(s)
      <4>1. CASE f[x] >= f[high]
        BY <2>0, <3>2, <3>3, <4>1
      <4>2. CASE ~(f[x] >= f[high])
        BY <3>2, <3>3, <4>2
      <4> QED
        BY <4>1, <4>2
    <3> QED
      BY <3>4, <3>5
  <2> QED
    BY <2>1, <2>2
<1>3. S \in Good
  <2> HIDE DEF Good
  <2> QED
    BY <1>1, <1>2, SetInduction
<1> QED
  BY <1>3

(* The sum of a function over a set, as the community modules define it.    *)
SumOf(f, S) == Search!MapThenSumSet(LAMBDA o : f[o], S)
PartialSums(F, f, S) ==
    /\ SumOf(f, S) = F[S] /\ F[{}] = 0
    /\ \A s \in SUBSET S : s # {} => F[s] = f[Picked(s)] + F[s \ {Picked(s)}]
PartialSum(f, F, s) == IF s = {} THEN 0 ELSE f[Picked(s)] + F[s \ {Picked(s)}]

LEMMA SumIsRecursive ==
    ASSUME NEW S, IsFiniteSet(S), NEW f
    PROVE  \E F : PartialSums(F, f, S)
<1> DEFINE Upto(n, F) == \A s \in SUBSET S : Cardinality(s) <= n => F[s] = PartialSum(f, F, s)
           Good == {s \in SUBSET S : \E F : Upto(Cardinality(s), F)}
<1>1. ASSUME NEW s \in SUBSET S
      PROVE  /\ IsFiniteSet(s) /\ Cardinality(s) \in Nat
             /\ \A x \in s : s \ {x} \in SUBSET S /\ Cardinality(s \ {x}) = Cardinality(s) - 1
             /\ s # {} => Picked(s) \in s
  BY FS_Subset, FS_CardinalityType, FS_RemoveElement DEF Picked
<1>2. ASSUME NEW n \in Nat, NEW F, Upto(n - 1, F)
      PROVE  Upto(n, [s \in SUBSET S |-> PartialSum(f, F, s)])
  <2> DEFINE G == [s \in SUBSET S |-> PartialSum(f, F, s)]
  <2>1. ASSUME NEW s \in SUBSET S, Cardinality(s) <= n PROVE G[s] = PartialSum(f, G, s)
    <3>1. CASE s = {}
      BY <3>1 DEF PartialSum
    <3>2. CASE s # {}
      <4>1. s \ {Picked(s)} \in SUBSET S /\ Cardinality(s \ {Picked(s)}) <= n - 1
        BY <1>1, <2>1, <3>2
      <4>2. G[s \ {Picked(s)}] = F[s \ {Picked(s)}]
        BY <1>2, <4>1
      <4> QED
        BY <3>2, <4>2 DEF PartialSum
    <3> QED
      BY <3>1, <3>2
  <2> QED
    BY <2>1
<1>3. {} \in Good
  <2> DEFINE F == [s \in SUBSET S |-> 0]
  <2>1. Cardinality({}) = 0
    BY FS_EmptySet
  <2>2. ASSUME NEW s \in SUBSET S, Cardinality(s) <= 0 PROVE s = {}
    BY <1>1, <2>2, FS_EmptySet
  <2>3. Upto(Cardinality({}), F)
    BY <2>1, <2>2 DEF PartialSum
  <2> QED
    BY <2>3
<1>4. ASSUME NEW s \in SUBSET S, s # {}, s \ {Picked(s)} \in Good PROVE s \in Good
  <2>1. PICK F : Upto(Cardinality(s \ {Picked(s)}), F)
    BY <1>4
  <2>2. Cardinality(s \ {Picked(s)}) = Cardinality(s) - 1 /\ Cardinality(s) \in Nat
    BY <1>1, <1>4
  <2> HIDE DEF Upto
  <2>3. Upto(Cardinality(s), [t \in SUBSET S |-> PartialSum(f, F, t)])
    BY <1>2, <2>1, <2>2
  <2> QED
    BY <2>3
<1>5. S \in Good
  <2> HIDE DEF Good
  <2> QED
    BY <1>3, <1>4, SetInduction
<1>6. PICK F : Upto(Cardinality(S), F)
  BY <1>5
<1>7. ASSUME NEW s \in SUBSET S PROVE Cardinality(s) <= Cardinality(S)
  BY <1>7, FS_Subset
<1>8. \A s \in SUBSET S : F[s] = PartialSum(f, F, s)
  BY <1>6, <1>7
<1> DEFINE G == [s \in SUBSET S |-> F[s]]
           Chosen == CHOOSE H : H = [s \in SUBSET S |-> IF s = {} THEN 0
                                     ELSE f[CHOOSE x \in s : TRUE] + H[s \ {CHOOSE x \in s : TRUE}]]
<1>9. G = [s \in SUBSET S |-> IF s = {} THEN 0 ELSE f[CHOOSE x \in s : TRUE] + G[s \ {CHOOSE x \in s : TRUE}]]
  <2>1. ASSUME NEW s \in SUBSET S
        PROVE  F[s] = IF s = {} THEN 0 ELSE f[CHOOSE x \in s : TRUE] + G[s \ {CHOOSE x \in s : TRUE}]
    BY <1>8 DEF PartialSum, Picked
  <2> QED
    BY <2>1
<1> HIDE DEF G
<1>10. Chosen = [s \in SUBSET S |-> IF s = {} THEN 0
                 ELSE f[CHOOSE x \in s : TRUE] + Chosen[s \ {CHOOSE x \in s : TRUE}]]
  BY <1>9
<1>11. SumOf(f, S) = Chosen[S]
  BY DEF SumOf, Search!MapThenSumSet, Search!MapThenFoldSet
<1> HIDE DEF Chosen
<1>12. ASSUME NEW s \in SUBSET S PROVE Chosen[s] = PartialSum(f, Chosen, s)
  BY <1>10 DEF PartialSum, Picked
<1>13. Chosen[{}] = 0
  BY <1>12 DEF PartialSum
<1>14. ASSUME NEW s \in SUBSET S, s # {} PROVE Chosen[s] = f[Picked(s)] + Chosen[s \ {Picked(s)}]
  BY <1>12, <1>14 DEF PartialSum
<1> QED
  BY <1>11, <1>13, <1>14 DEF PartialSums

(* Adding to what one element has adds to the sum.                          *)
LEMMA SumOfUpdate ==
    ASSUME NEW S, IsFiniteSet(S), NEW f, NEW g, NEW a \in S, NEW d \in Int,
           \A x \in S : f[x] \in Int /\ g[x] = IF x = a THEN f[x] + d ELSE f[x]
    PROVE  SumOf(f, S) \in Int /\ SumOf(g, S) = SumOf(f, S) + d
<1>1. PICK F : PartialSums(F, f, S)
  BY SumIsRecursive
<1>2. PICK G : PartialSums(G, g, S)
  BY SumIsRecursive
<1> DEFINE Compares(s) == F[s] \in Int /\ G[s] = IF a \in s THEN F[s] + d ELSE F[s]
           Good == {s \in SUBSET S : Compares(s)}
<1>4. Compares({})
  BY <1>1, <1>2 DEF PartialSums
<1>5. ASSUME NEW s \in SUBSET S, s # {}, Compares(s \ {Picked(s)}) PROVE Compares(s)
  <2> DEFINE x == Picked(s)
             t == s \ {Picked(s)}
  <2>1. x \in s /\ x \in S /\ f[x] \in Int /\ g[x] = IF x = a THEN f[x] + d ELSE f[x]
    BY <1>5 DEF Picked
  <2>2. F[s] = f[x] + F[t] /\ G[s] = g[x] + G[t]
    BY <1>1, <1>2, <1>5 DEF PartialSums
  <2>3. F[t] \in Int /\ G[t] = IF a \in t THEN F[t] + d ELSE F[t]
    BY <1>5
  <2>4. a \in s <=> a \in t \/ x = a
    BY <2>1
  <2>5. x \notin t
    OBVIOUS
  <2> HIDE DEF x, t
  <2>6. CASE x = a
    BY <2>1, <2>2, <2>3, <2>4, <2>5, <2>6
  <2>7. CASE x # a
    BY <2>1, <2>2, <2>3, <2>4, <2>5, <2>7
  <2> QED
    BY <2>6, <2>7
<1>6. S \in Good
  <2> HIDE DEF Compares
  <2>1. {} \in Good
    BY <1>4
  <2>2. ASSUME NEW s \in SUBSET S, s # {}, s \ {Picked(s)} \in Good PROVE s \in Good
    BY <1>5, <2>2
  <2> HIDE DEF Good
  <2> QED
    BY <2>1, <2>2, SetInduction
<1> QED
  BY <1>1, <1>2, <1>6 DEF PartialSums

(* Adding nothing.                                                          *)
LEMMA SumOfZeros ==
    ASSUME NEW S, IsFiniteSet(S), NEW f, \A x \in S : f[x] = 0
    PROVE  SumOf(f, S) = 0
<1>1. PICK F : PartialSums(F, f, S)
  BY SumIsRecursive
<1> DEFINE Good == {s \in SUBSET S : F[s] = 0}
<1>2. {} \in Good
  BY <1>1 DEF PartialSums
<1>3. ASSUME NEW s \in SUBSET S, s # {}, s \ {Picked(s)} \in Good PROVE s \in Good
  <2>1. F[s] = f[Picked(s)] + F[s \ {Picked(s)}] /\ f[Picked(s)] = 0
    BY <1>1, <1>3 DEF PartialSums, Picked
  <2> QED
    BY <1>3, <2>1
<1>4. S \in Good
  <2> HIDE DEF Good
  <2> QED
    BY <1>2, <1>3, SetInduction
<1> QED
  BY <1>1, <1>4 DEF PartialSums

-----------------------------------------------------------------------------
(* The search.                                                              *)

Crosses(o, q) == Search!PricesCross(o, q) /\ (order[o].kind = "resting" => ~Search!BothPostOnly(o, q))

(* Nothing is left between two orders: asks of the first loop and bids, or  *)
(* takers and resting orders; or nothing that the loops come to.            *)
Met(o, q) ==
    ~Search!SameUser(o, q) /\ Crosses(o, q) => Search!isBaseFilled(o) \/ Search!isBaseFilled(q)
Settled(o, q) == Met(o, q) \/ Search!Hidden(q, o)
SettledAll(outers, inners) == \A o \in outers, q \in inners : Settled(o, q)

Outers ==
    CASE phase = "restingCross" -> Search!Resting("ask")
      [] phase = "takingAsks"   -> Search!Taking("ask")
      [] phase = "takingBids"   -> Search!Taking("bid")
Inners == Search!Resting(Search!InnerSide)

(* What the loops that are over have settled.                               *)
PastLoops ==
    ~market.fillPaused =>
        /\ phase # "restingCross" => SettledAll(Search!Resting("ask"), Search!Resting("bid"))
        /\ phase \notin {"restingCross", "takingAsks"} =>
               SettledAll(Search!Taking("ask"), Search!Resting("bid"))
        /\ phase \notin {"restingCross", "takingAsks", "takingBids"} =>
               SettledAll(Search!Taking("bid"), Search!Resting("ask"))

(* What the loop that runs has settled: all that the outer generator has    *)
(* yielded with everything, the outer node with all that the inner one has. *)
ThisLoop ==
    /\ ~Search!Looping => outer = None
    /\ Search!Looping =>
          /\ visited.outer \subseteq Outers /\ visited.inner \subseteq Inners
          /\ SettledAll(visited.outer \ {outer}, Inners)
          /\ outer # None => /\ outer \in visited.outer /\ ~Search!isBaseFilled(outer)
                             /\ \A q \in visited.inner : Met(outer, q)
          /\ outer # None /\ phase = "restingCross" =>
                \A q \in Search!Resting("ask") \ visited.outer :
                    ~Search!Better(q, outer) \/ Search!Behind(q, outer)

BookIsGiven == order \in Book /\ \A o \in SearchOrder : order[o].kind = "resting" => order[o].price \in Nat

Balanced == SumOf(filled, {o \in SearchOrder : order[o].side = "bid"})
                = SumOf(filled, {o \in SearchOrder : order[o].side = "ask"})
SearchIInv ==
    /\ Search!TypeOK /\ filled \in [SearchOrder -> Nat] /\ BookIsGiven
    /\ PastLoops /\ ThisLoop /\ Balanced /\ Search!MatchesAreLegal

-----------------------------------------------------------------------------
LEMMA OrdersAreFinite == Search!BookAssumption => IsFiniteSet(SearchOrder)
BY DEF Search!BookAssumption, Search!IsFiniteSet, IsFiniteSet

LEMMA OrderTypes ==
    ASSUME Search!BookAssumption, Search!TypeOK, BookIsGiven, NEW o \in SearchOrder
    PROVE  /\ order[o].side \in {"bid", "ask"} /\ order[o].kind \in {"resting", "taking"}
           /\ order[o].price \in Nat \cup {None} /\ order[o].postOnly \in BOOLEAN
           /\ order[o].slot \in Nat /\ order[o].auctionDuration \in Nat
           /\ order[o].base \in Nat \ {0} /\ filled[o] \in 0 .. order[o].base
           /\ market.fallbackBid \in Nat \cup {None} /\ market.fallbackAsk \in Nat \cup {None}
           /\ None \notin Nat /\ None \notin SearchOrder
           /\ order[o].kind = "resting" => order[o].price \in Nat
<1>1. order[o] \in Search!OrderFields /\ market \in Search!MarketType
  BY DEF Search!TypeOK
<1> QED
  BY <1>1 DEF Search!OrderFields, Search!MarketType, Search!TypeOK, Search!BookAssumption, BookIsGiven

(* The first of an order's list among those that a generator has left.      *)
LEMMA EveryListHasAHead ==
    ASSUME Search!BookAssumption, Search!TypeOK, BookIsGiven, NEW nodes \in SUBSET SearchOrder,
           NEW q \in nodes, order[q].kind = "resting"
    PROVE  \E h \in Search!heads(nodes) : Search!SameList(order[h], order[q]) /\ order[h].place <= order[q].place
<1> DEFINE mine == {x \in nodes : Search!SameList(order[x], order[q])}
           f == [x \in mine |-> order[x].place]
<1>1. \A x \in SearchOrder : order[x].place \in Nat
  BY DEF Search!TypeOK, Search!OrderFields
<1>2. IsFiniteSet(mine) /\ q \in mine
  BY FS_Subset, OrdersAreFinite DEF Search!SameList
<1>3. \A x \in mine : f[x] \in Nat
  BY <1>1
<1>4. PICK h \in mine : \A x \in mine : f[h] <= f[x]
  <2> HIDE DEF f, mine
  <2> QED
    BY <1>2, <1>3, Extremes
<1>5. \A x \in mine : order[h].place <= order[x].place
  BY <1>4
<1>6. h \in Search!heads(nodes)
  BY <1>5 DEF Search!heads, Search!SameList
<1> QED
  BY <1>2, <1>5, <1>6

(* A generator that yields nothing has nothing left.                        *)
LEMMA GeneratorsYield ==
    ASSUME Search!BookAssumption, Search!TypeOK, BookIsGiven, NEW nodes \in SUBSET SearchOrder, nodes # {}
    PROVE  /\ Search!oldest(nodes) # {}
           /\ \A side \in {"bid", "ask"} :
                 nodes \subseteq Search!Resting(side) => Search!bestPrice(Search!heads(nodes)) # {}
<1>1. IsFiniteSet(nodes)
  BY FS_Subset, OrdersAreFinite
<1>2. Search!oldest(nodes) # {}
  <2> DEFINE f == [o \in nodes |-> order[o].slot]
  <2>1. \A o \in nodes : f[o] \in Nat
    BY OrderTypes
  <2>2. PICK o \in nodes : \A q \in nodes : f[o] <= f[q]
    <3> HIDE DEF f
    <3> QED
      BY <1>1, <2>1, Extremes
  <2> QED
    BY <2>2 DEF Search!oldest
<1>3. ASSUME NEW side \in {"bid", "ask"}, nodes \subseteq Search!Resting(side)
      PROVE  Search!bestPrice(Search!heads(nodes)) # {}
  <2> DEFINE H == Search!heads(nodes)
             f == [o \in H |-> order[o].price]
  <2>1. /\ H \subseteq nodes /\ H # {} /\ IsFiniteSet(H)
    <3>1. PICK q \in nodes : TRUE
      OBVIOUS
    <3>2. order[q].kind = "resting"
      BY <1>3 DEF Search!Resting
    <3>3. H # {} /\ H \subseteq nodes
      BY <3>2, EveryListHasAHead DEF Search!heads
    <3> QED
      BY <1>1, <3>3, FS_Subset
  <2>2. \A o \in H : f[o] \in Nat /\ f[o] = order[o].price /\ order[o].side = side /\ o \in SearchOrder
                     /\ order[o].kind = "resting"
    BY <1>3, <2>1 DEF Search!Resting, BookIsGiven
  <2>3. /\ \E o \in H : \A q \in H : f[o] <= f[q]
        /\ \E o \in H : \A q \in H : f[o] >= f[q]
    <3> HIDE DEF f, H
    <3> QED
      BY <2>1, <2>2, Extremes
  <2> HIDE DEF f
  <2>4. PICK b \in H : \A q \in H : ~Search!Better(q, b)
    <3>1. CASE side = "ask"
      BY <2>2, <2>3, <3>1 DEF Search!Better, Search!BetterPrice
    <3>2. CASE side = "bid"
      BY <2>2, <2>3, <3>2 DEF Search!Better, Search!BetterPrice
    <3> QED
      BY <3>1, <3>2
  <2>5. ASSUME NEW q \in H, NEW o \in H, order[q].price = order[o].price, order[q].list = order[o].list
        PROVE  q = o
    <3> SUFFICES ASSUME q # o PROVE FALSE
      OBVIOUS
    <3>1. Search!SameList(order[q], order[o]) /\ Search!SameList(order[o], order[q])
      BY <2>2, <2>5 DEF Search!SameList
    <3>2. order[q].place <= order[o].place /\ order[o].place <= order[q].place
      BY <3>1 DEF Search!heads
    <3>3. order[q].place # order[o].place
      BY <2>2, <3>1 DEF Search!BookAssumption, BookIsGiven, Search!InTurn
    <3>4. order[q].place \in Nat /\ order[o].place \in Nat
      BY <2>2 DEF Search!TypeOK, Search!OrderFields
    <3> QED
      BY <3>2, <3>3, <3>4
  <2>6. \A o \in H : order[o].list \in {"restingLimit", "floatingLimit"}
    <3>1. ASSUME NEW o \in H PROVE order[o].list \in {"restingLimit", "floatingLimit"}
      <4>1. order[o] \in Search!OrderFields /\ order[o].list # "taking"
        BY <2>2 DEF Search!TypeOK, Search!BookAssumption, BookIsGiven
      <4> QED
        BY <4>1 DEF Search!OrderFields
    <3> QED
      BY <3>1
  <2>7. ASSUME NEW q \in H, order[q].price = order[b].price PROVE \A x \in H : ~Search!Better(x, q)
    BY <2>2, <2>4, <2>7 DEF Search!Better, Search!BetterPrice
  <2>8. CASE \E o \in H : order[o].price = order[b].price /\ order[o].list = "floatingLimit"
    BY <2>7, <2>8 DEF Search!bestPrice
  <2>9. CASE ~\E o \in H : order[o].price = order[b].price /\ order[o].list = "floatingLimit"
    <3>1. \A q \in H : order[q].price = order[b].price => q = b
      BY <2>5, <2>6, <2>9
    <3> QED
      BY <2>4, <3>1 DEF Search!bestPrice
  <2> QED
    BY <2>8, <2>9
<1> QED
  BY <1>2, <1>3

(* What a generator comes to next is as good as any order it has left, but  *)
(* for those that an auction has put behind an order no better.             *)
LEMMA NextIsBest ==
    ASSUME Search!BookAssumption, Search!TypeOK, BookIsGiven, NEW side \in {"bid", "ask"}, NEW seen,
           NEW o \in Search!getRestingLimit(side, seen), NEW q \in Search!Resting(side) \ seen
    PROVE  ~Search!Better(q, o) \/ Search!Behind(q, o)
<1> DEFINE nodes == Search!Resting(side) \ seen
<1> SUFFICES ASSUME Search!Better(q, o) PROVE Search!Behind(q, o)
  OBVIOUS
<1>1. /\ nodes \in SUBSET SearchOrder /\ q \in nodes
      /\ \A x \in nodes : order[x].kind = "resting" /\ order[x].side = side /\ order[x].price \in Nat
                           /\ order[x].place \in Nat
  BY DEF Search!Resting, BookIsGiven, Search!TypeOK, Search!OrderFields
<1>2. o \in Search!bestPrice(Search!heads(nodes)) /\ Search!heads(nodes) \subseteq nodes
  BY DEF Search!getRestingLimit, Search!heads
<1> HIDE DEF nodes
<1>3. PICK h \in Search!heads(nodes) :
          Search!SameList(order[h], order[q]) /\ order[h].place <= order[q].place
  BY <1>1, EveryListHasAHead
<1>4. o \in nodes /\ h \in nodes /\ ~Search!Better(h, o)
  BY <1>2 DEF Search!bestPrice
<1>5. Search!Better(q, h)
  BY <1>1, <1>4 DEF Search!Better, Search!BetterPrice
<1>6. h # q
  BY <1>1, <1>5 DEF Search!Better, Search!BetterPrice
<1>7. Search!InTurn(order[h], order[q])
  BY <1>1, <1>4, <1>6 DEF Search!BookAssumption, BookIsGiven
<1>8. Search!Overtakes(q, h)
  <2>1. order[h].place # order[q].place
    BY <1>3, <1>7 DEF Search!InTurn
  <2>2. order[h].place < order[q].place
    BY <1>1, <1>3, <1>4, <2>1
  <2> QED
    BY <1>3, <1>5, <1>7, <2>2 DEF Search!InTurn, Search!Overtakes, Search!Better
<1> QED
  BY <1>1, <1>4, <1>8 DEF Search!Behind

(* If an order does not cross, no order with a worse price does.            *)
LEMMA WorseDoesNotCross ==
    ASSUME Search!BookAssumption, Search!TypeOK, BookIsGiven, Search!Looping,
           NEW o \in Outers, NEW q \in Inners, NEW r \in Inners,
           ~Search!PricesCross(o, q),
           ~Search!Better(r, q)
    PROVE  ~Search!PricesCross(o, r)
<1>1. /\ o \in SearchOrder /\ q \in SearchOrder /\ r \in SearchOrder
      /\ order[q].price \in Nat /\ order[r].price \in Nat
      /\ order[q].side = order[r].side
  BY DEF Outers, Inners, Search!Resting, Search!Taking, Search!Looping, BookIsGiven
<1>2. /\ order[o].price \in Nat \cup {None} /\ order[o].side \in {"bid", "ask"}
      /\ market.fallbackBid \in Nat \cup {None} /\ market.fallbackAsk \in Nat \cup {None}
  BY <1>1, OrderTypes
<1>3. CASE phase = "restingCross"
  <2>1. order[o].kind = "resting" /\ order[o].price \in Nat /\ order[q].side = "bid"
    BY <1>3 DEF Outers, Inners, Search!InnerSide, Search!Resting, BookIsGiven
  <2>2. ~(order[o].price <= order[q].price) /\ order[q].price >= order[r].price
    BY <1>1, <2>1 DEF Search!PricesCross, Search!Better, Search!BetterPrice
  <2>3. ~(order[o].price <= order[r].price)
    BY <1>1, <2>1, <2>2
  <2> QED
    BY <2>1, <2>3 DEF Search!PricesCross
<1>4. CASE phase = "takingAsks"
  <2>1. order[o].kind = "taking" /\ order[o].side = "ask" /\ order[q].side = "bid"
    BY <1>4 DEF Outers, Inners, Search!InnerSide, Search!Resting, Search!Taking
  <2>2. order[q].price >= order[r].price
    BY <1>1, <2>1 DEF Search!Better, Search!BetterPrice
  <2> QED
    BY <1>1, <1>2, <2>1, <2>2 DEF Search!PricesCross, Search!doesCross
<1>5. CASE phase = "takingBids"
  <2>1. order[o].kind = "taking" /\ order[o].side = "bid" /\ order[q].side = "ask"
    BY <1>5 DEF Outers, Inners, Search!InnerSide, Search!Resting, Search!Taking
  <2>2. order[q].price <= order[r].price
    BY <1>1, <2>1 DEF Search!Better, Search!BetterPrice
  <2> QED
    BY <1>1, <1>2, <2>1, <2>2 DEF Search!PricesCross, Search!doesCross
<1> QED
  BY <1>3, <1>4, <1>5 DEF Search!Looping

-----------------------------------------------------------------------------
LEMMA OuterAndInner ==
    ASSUME Search!TypeOK, ThisLoop, Search!Looping
    PROVE  /\ Outers \subseteq SearchOrder /\ Inners \subseteq SearchOrder
           /\ \A o \in Outers, q \in Inners : order[o].side # order[q].side /\ o # q
           /\ Search!InnerSide \in {"bid", "ask"} /\ Inners = Search!Resting(Search!InnerSide)
           /\ outer # None => outer \in Outers
BY DEF Search!TypeOK, ThisLoop, Outers, Inners, Search!InnerSide, Search!Resting, Search!Taking, Search!Looping

(* The next node of the inner generator.                                    *)
LEMMA InnerIsBest ==
    ASSUME Search!BookAssumption, Search!TypeOK, BookIsGiven, ThisLoop, Search!Looping, NEW inner \in Search!InnerNodes
    PROVE  /\ inner \in Inners /\ inner \notin visited.inner
           /\ \A q \in Inners \ visited.inner : ~Search!Better(q, inner) \/ Search!Behind(q, inner)
<1>1. inner \in Search!getRestingLimit(Search!InnerSide, visited.inner) /\ Search!InnerSide \in {"bid", "ask"}
  BY DEF Search!InnerNodes, Search!InnerSide
<1>2. inner \in Inners /\ inner \notin visited.inner
  BY DEF Search!InnerNodes, Search!getRestingLimit, Search!bestPrice, Search!heads, Inners
<1>3. \A q \in Inners \ visited.inner : ~Search!Better(q, inner) \/ Search!Behind(q, inner)
  BY <1>1, NextIsBest DEF Inners
<1> QED
  BY <1>2, <1>3

(* Orders do not change, and what is filled stays filled.                   *)
FillsGrow ==
    /\ order' = order /\ market' = market
    /\ \A o \in SearchOrder : Search!isBaseFilled(o) => Search!isBaseFilled(o)'

LEMMA BookStays ==
    ASSUME order' = order, market' = market
    PROVE  /\ \A o, q : /\ Search!PricesCross(o, q)' <=> Search!PricesCross(o, q)
                        /\ Crosses(o, q)' <=> Crosses(o, q)
                        /\ Search!SameUser(o, q)' <=> Search!SameUser(o, q)
                        /\ Search!Better(o, q)' <=> Search!Better(o, q)
                        /\ Search!Hidden(q, o)' <=> Search!Hidden(q, o)
                        /\ Search!Behind(q, o)' <=> Search!Behind(q, o)
           /\ BookIsGiven => BookIsGiven'
<1>1. ASSUME NEW o, NEW q
      PROVE  /\ Search!PricesCross(o, q)' <=> Search!PricesCross(o, q)
             /\ Search!SameUser(o, q)' <=> Search!SameUser(o, q)
             /\ Search!BothPostOnly(o, q)' <=> Search!BothPostOnly(o, q)
             /\ Search!Better(o, q)' <=> Search!Better(o, q)
             /\ Search!Overtakes(o, q)' <=> Search!Overtakes(o, q)
  BY DEF Search!PricesCross, Search!doesCross, Search!Spot, Search!SameUser, Search!BothPostOnly,
         Search!Better, Search!Overtakes
<1>2. ASSUME NEW o, NEW q
      PROVE  /\ Search!Hidden(q, o)' <=> Search!Hidden(q, o)
             /\ Search!Behind(q, o)' <=> Search!Behind(q, o)
  BY <1>1 DEF Search!Hidden, Search!Behind
<1>3. ASSUME NEW o, NEW q PROVE Crosses(o, q)' <=> Crosses(o, q)
  BY <1>1 DEF Crosses
<1>4. BookIsGiven => BookIsGiven'
  BY DEF BookIsGiven
<1> QED
  BY <1>1, <1>2, <1>3, <1>4

LEMMA MetStays ==
    ASSUME FillsGrow, NEW o \in SearchOrder, NEW q \in SearchOrder, Met(o, q)
    PROVE  Met(o, q)'
BY BookStays DEF FillsGrow, Met

LEMMA SettledStays ==
    ASSUME FillsGrow, NEW o \in SearchOrder, NEW q \in SearchOrder, Settled(o, q)
    PROVE  Settled(o, q)'
<1> QED
  BY MetStays, BookStays DEF FillsGrow, Settled

LEMMA PastStays ==
    ASSUME Search!TypeOK, FillsGrow, PastLoops, phase' = phase
    PROVE  PastLoops'
<1>1. ASSUME NEW side, NEW kind
      PROVE  /\ Search!Resting(side)' = Search!Resting(side) /\ Search!Resting(side) \subseteq SearchOrder
             /\ Search!Taking(side)' = Search!Taking(side) /\ Search!Taking(side) \subseteq SearchOrder
  BY DEF FillsGrow, Search!Resting, Search!Taking
<1>2. ASSUME NEW os \in SUBSET SearchOrder, NEW qs \in SUBSET SearchOrder, SettledAll(os, qs)
      PROVE  \A o \in os, q \in qs : Settled(o, q)'
  BY <1>2, SettledStays DEF SettledAll
<1>3. market' = market
  BY DEF FillsGrow
<1>4. ASSUME ~market.fillPaused, phase # "restingCross"
      PROVE  SettledAll(Search!Resting("ask"), Search!Resting("bid"))'
  BY <1>1, <1>2, <1>4 DEF PastLoops, SettledAll
<1>5. ASSUME ~market.fillPaused, phase \notin {"restingCross", "takingAsks"}
      PROVE  SettledAll(Search!Taking("ask"), Search!Resting("bid"))'
  BY <1>1, <1>2, <1>5 DEF PastLoops, SettledAll
<1>6. ASSUME ~market.fillPaused, phase \notin {"restingCross", "takingAsks", "takingBids"}
      PROVE  SettledAll(Search!Taking("bid"), Search!Resting("ask"))'
  BY <1>1, <1>2, <1>6 DEF PastLoops, SettledAll
<1> QED
  BY <1>3, <1>4, <1>5, <1>6 DEF PastLoops

(* Which orders the loops are about does not change within a loop.          *)
LEMMA LoopsStay ==
    ASSUME order' = order, phase' = phase
    PROVE  /\ Outers' = Outers /\ Inners' = Inners
           /\ Search!Resting("ask")' = Search!Resting("ask")
           /\ Search!Looping' <=> Search!Looping
BY DEF Outers, Inners, Search!InnerSide, Search!Resting, Search!Taking, Search!Looping

LEMMA BaseStays ==
    ASSUME order' = order, filled' = filled, market' = market
    PROVE  /\ FillsGrow /\ (BookIsGiven => BookIsGiven') /\ (Balanced => Balanced')
           /\ \A o \in SearchOrder : Search!isBaseFilled(o)' <=> Search!isBaseFilled(o)
           /\ \A o, q : (Settled(o, q)' <=> Settled(o, q)) /\ (Met(o, q)' <=> Met(o, q))
           /\ \A o, q : /\ Search!Better(o, q)' <=> Search!Better(o, q)
                        /\ Search!Behind(q, o)' <=> Search!Behind(q, o)
<1>1. FillsGrow /\ (BookIsGiven => BookIsGiven')
      /\ \A o \in SearchOrder : Search!isBaseFilled(o)' <=> Search!isBaseFilled(o)
  BY DEF FillsGrow, BookIsGiven, Search!isBaseFilled
<1>2. Balanced => Balanced'
  BY DEF Balanced
<1>3. ASSUME NEW o, NEW q PROVE (Settled(o, q)' <=> Settled(o, q)) /\ (Met(o, q)' <=> Met(o, q))
  <2>1. Met(o, q)' <=> Met(o, q)
    BY BookStays DEF Met, Search!isBaseFilled
  <2> QED
    BY <2>1, BookStays DEF Settled
<1> QED
  BY <1>1, <1>2, <1>3, BookStays

LEMMA LegalStays ==
    ASSUME order' = order, nodesToFill' = nodesToFill, Search!MatchesAreLegal
    PROVE  Search!MatchesAreLegal'
BY DEF Search!MatchesAreLegal, Search!SameUser, Search!Accepts, Search!AuctionEnd

-----------------------------------------------------------------------------
LEMMA NextOuterInv ==
    ASSUME Search!BookAssumption, SearchIInv, Search!NextOuter PROVE SearchIInv'
<1> USE DEF SearchIInv
<1>1. PICK o \in Search!OuterNodes : /\ outer' = IF Search!isBaseFilled(o) THEN None ELSE o
                                     /\ visited' = [outer |-> visited.outer \cup {o}, inner |-> {}]
  BY DEF Search!NextOuter
<1>2. /\ order' = order /\ market' = market /\ filled' = filled /\ phase' = phase
      /\ nodesToFill' = nodesToFill /\ expired' = expired
      /\ Search!Looping /\ outer = None
  BY DEF Search!NextOuter
<1>3. /\ o \in Outers /\ o \notin visited.outer
      /\ phase = "restingCross" => \A q \in Search!Resting("ask") \ visited.outer :
             ~Search!Better(q, o) \/ Search!Behind(q, o)
  <2>1. CASE phase = "restingCross"
    <3>1. o \in Search!getRestingLimit("ask", visited.outer)
      BY <2>1 DEF Search!OuterNodes
    <3>2. \A q \in Search!Resting("ask") \ visited.outer : ~Search!Better(q, o) \/ Search!Behind(q, o)
      BY <3>1, NextIsBest
    <3>3. o \in Outers /\ o \notin visited.outer
      BY <2>1, <3>1 DEF Search!getRestingLimit, Search!bestPrice, Search!heads, Outers
    <3> QED
      BY <3>2, <3>3
  <2>2. CASE phase # "restingCross"
    BY <1>2, <2>2 DEF Search!OuterNodes, Search!getTaking, Search!oldest, Outers, Search!Looping
  <2> QED
    BY <2>1, <2>2
<1>4. o \in SearchOrder /\ o # None
  BY <1>2, <1>3, OuterAndInner DEF Search!BookAssumption
<1>5. Search!TypeOK'
  BY <1>1, <1>2, <1>4 DEF Search!TypeOK
<1>6. ThisLoop'
  <2>1. visited.outer \subseteq Outers /\ SettledAll(visited.outer, Inners)
    BY <1>2, OuterAndInner DEF ThisLoop, SettledAll, Search!TypeOK, Search!BookAssumption
  <2>2. visited'.outer = visited.outer \cup {o} /\ visited'.inner = {}
    BY <1>1
  <2>3. Outers' = Outers /\ Inners' = Inners /\ Search!Looping'
        /\ Search!Resting("ask")' = Search!Resting("ask") /\ Search!Resting("ask") \subseteq SearchOrder
    BY <1>2, LoopsStay DEF Search!Resting
  <2>4. SettledAll(visited.outer \ {outer}, Inners)'
    <3>1. ASSUME NEW p \in visited'.outer, p # outer', NEW q \in Inners PROVE Settled(p, q)
      <4>1. CASE p \in visited.outer
        BY <2>1, <4>1 DEF SettledAll
      <4>2. CASE p = o
        BY <1>1, <3>1, <4>2 DEF Settled, Met
      <4> QED
        BY <2>2, <3>1, <4>1, <4>2
    <3> QED
      BY <1>2, <2>3, <3>1, BaseStays DEF SettledAll
  <2>5. ASSUME outer' # None
        PROVE  /\ outer' \in visited'.outer /\ ~Search!isBaseFilled(outer)'
               /\ (\A q \in visited.inner : Met(outer, q))'
    BY <1>1, <1>2, <1>4, <2>2, <2>5 DEF Search!isBaseFilled
  <2>6. ASSUME outer' # None, phase = "restingCross", NEW q \in Search!Resting("ask") \ visited'.outer
        PROVE  ~Search!Better(q, outer)' \/ Search!Behind(q, outer)'
    <3>1. outer' = o
      BY <1>1, <2>6
    <3>2. ~Search!Better(q, o) \/ Search!Behind(q, o)
      BY <1>3, <2>2, <2>6
    <3>3. (Search!Better(q, o)' <=> Search!Better(q, o)) /\ (Search!Behind(q, o)' <=> Search!Behind(q, o))
      BY <1>2, BaseStays
    <3> QED
      BY <3>1, <3>2, <3>3 DEF Search!Better, Search!Behind
  <2> QED
    BY <1>2, <1>3, <2>1, <2>2, <2>3, <2>4, <2>5, <2>6 DEF ThisLoop
<1> QED
  BY <1>2, <1>5, <1>6, BaseStays, PastStays, LegalStays

LEMMA SkipInnerInv ==
    ASSUME Search!BookAssumption, SearchIInv, Search!SkipInner PROVE SearchIInv'
<1> USE DEF SearchIInv
<1>1. PICK inner \in Search!InnerNodes :
          Search!Skips(inner) /\ visited' = [visited EXCEPT !.inner = visited.inner \cup {inner}]
  BY DEF Search!SkipInner
<1>2. /\ order' = order /\ market' = market /\ filled' = filled /\ phase' = phase /\ outer' = outer
      /\ nodesToFill' = nodesToFill /\ expired' = expired
      /\ Search!Looping /\ outer # None
  BY DEF Search!SkipInner
<1>3. /\ inner \in Inners /\ Inners \subseteq SearchOrder
      /\ visited'.outer = visited.outer /\ visited'.inner = visited.inner \cup {inner}
      /\ visited' \in [outer : SUBSET SearchOrder, inner : SUBSET SearchOrder]
  BY <1>1, <1>2, InnerIsBest, OuterAndInner DEF Search!TypeOK
<1>4. Search!TypeOK'
  BY <1>2, <1>3 DEF Search!TypeOK
<1>5. Met(outer, inner)
  BY <1>1, <1>2, OuterAndInner DEF Search!Skips, Met, Crosses, Outers, Search!Looping, Search!Resting, Search!Taking
<1>6. ThisLoop'
  <2>1. Outers' = Outers /\ Inners' = Inners /\ Search!Looping'
        /\ Search!Resting("ask")' = Search!Resting("ask") /\ Search!Resting("ask") \subseteq SearchOrder
    BY <1>2, LoopsStay DEF Search!Resting
  <2>2. SettledAll(visited.outer \ {outer}, Inners)'
    BY <1>2, <1>3, <2>1, BaseStays DEF ThisLoop, SettledAll
  <2>3. (\A q \in visited.inner : Met(outer, q))'
    <3>1. \A q \in visited'.inner : Met(outer, q)
      BY <1>2, <1>3, <1>5 DEF ThisLoop
    <3>2. \A q \in visited'.inner : Met(outer, q)'
      BY <1>2, <3>1, BaseStays
    <3> QED
      BY <3>2
  <2>4. outer \in SearchOrder
    BY <1>2, OuterAndInner
  <2>5. ~Search!isBaseFilled(outer)'
    BY <1>2, <2>4 DEF ThisLoop, Search!isBaseFilled
  <2>6. ASSUME phase = "restingCross", NEW q \in Search!Resting("ask") \ visited'.outer
        PROVE  ~Search!Better(q, outer)' \/ Search!Behind(q, outer)'
    BY <1>2, <1>3, <2>6, BaseStays DEF ThisLoop
  <2> QED
    BY <1>2, <1>3, <2>1, <2>2, <2>3, <2>5, <2>6 DEF ThisLoop
<1> QED
  BY <1>2, <1>4, <1>6, BaseStays, PastStays, LegalStays

LEMMA LeaveInnerInv ==
    ASSUME Search!BookAssumption, SearchIInv, Search!LeaveInner PROVE SearchIInv'
<1> USE DEF SearchIInv
<1>1. /\ order' = order /\ market' = market /\ filled' = filled /\ phase' = phase /\ outer' = None
      /\ nodesToFill' = nodesToFill /\ expired' = expired /\ visited' = visited
      /\ Search!Looping /\ outer # None
      /\ Search!InnerNodes = {} \/ \E inner \in Search!InnerNodes : Search!Breaks(inner)
  BY DEF Search!LeaveInner
<1>2. Search!TypeOK'
  BY <1>1 DEF Search!TypeOK
<1>3. outer \in Outers /\ Outers \subseteq SearchOrder /\ Inners \subseteq SearchOrder
      /\ \A q \in visited.inner : Met(outer, q)
  BY <1>1, OuterAndInner DEF ThisLoop
<1>4. ASSUME NEW q \in Inners PROVE Settled(outer, q)
  <2>1. CASE q \in visited.inner
    BY <1>3, <2>1 DEF Settled
  <2>2. CASE Search!isBaseFilled(q)
    BY <2>2 DEF Settled, Met
  <2>3. CASE q \notin visited.inner /\ ~Search!isBaseFilled(q)
    <3>1. Search!InnerNodes # {}
      <4> DEFINE nodes == Search!Resting(Search!InnerSide) \ visited.inner
      <4>1. q \in nodes /\ nodes \subseteq Search!Resting(Search!InnerSide) /\ nodes \in SUBSET SearchOrder
        BY <2>3, <1>3 DEF Inners
      <4>2. Search!bestPrice(Search!heads(nodes)) # {}
        <5> HIDE DEF nodes
        <5> QED
          BY <1>1, <4>1, GeneratorsYield, OuterAndInner
      <4> QED
        BY <4>2 DEF Search!InnerNodes, Search!getRestingLimit
    <3>2. PICK inner \in Search!InnerNodes : Search!Breaks(inner)
      BY <1>1, <3>1
    <3>3. /\ inner \in Inners
          /\ ~Search!Better(q, inner) \/ Search!Behind(q, inner)
      BY <1>1, <2>3, InnerIsBest
    <3>4. ~Search!PricesCross(outer, inner)
      BY <3>2 DEF Search!Breaks
    <3>5. CASE ~Search!Better(q, inner)
      <4>1. ~Search!PricesCross(outer, q)
        BY <1>1, <1>3, <3>3, <3>4, <3>5, WorseDoesNotCross
      <4> QED
        BY <4>1 DEF Settled, Met, Crosses
    <3>6. CASE Search!Behind(q, inner)
      <4>1. PICK x \in SearchOrder : Search!Overtakes(q, x) /\ ~Search!Better(x, inner)
        BY <3>6 DEF Search!Behind
      <4>2. x \in Inners
        BY <4>1 DEF Search!Overtakes, Search!SameList, Inners, Search!Resting
      <4>3. ~Search!PricesCross(outer, x)
        BY <1>1, <1>3, <3>3, <3>4, <4>1, <4>2, WorseDoesNotCross
      <4> QED
        BY <4>1, <4>3 DEF Settled, Search!Hidden
    <3> QED
      BY <3>3, <3>5, <3>6
  <2> QED
    BY <2>1, <2>2, <2>3
<1>5. ThisLoop'
  <2>1. /\ Outers' = Outers /\ Inners' = Inners /\ Search!Looping'
        /\ visited.outer \subseteq Outers /\ visited.inner \subseteq Inners
    BY <1>1, LoopsStay DEF ThisLoop
  <2>2. SettledAll(visited.outer, Inners)
    <3>1. ASSUME NEW o \in visited.outer, NEW q \in Inners PROVE Settled(o, q)
      <4>1. CASE o = outer
        BY <1>4, <4>1
      <4>2. CASE o # outer
        BY <1>1, <4>2 DEF ThisLoop, SettledAll
      <4> QED
        BY <4>1, <4>2
    <3> QED
      BY <3>1 DEF SettledAll
  <2>3. SettledAll(visited.outer \ {outer}, Inners)'
    BY <1>1, <2>1, <2>2, BaseStays DEF SettledAll
  <2> QED
    BY <1>1, <2>1, <2>3 DEF ThisLoop
<1> QED
  BY <1>1, <1>2, <1>5, BaseStays, PastStays, LegalStays

LEMMA LeaveOuterInv ==
    ASSUME Search!BookAssumption, SearchIInv, Search!LeaveOuter PROVE SearchIInv'
<1> USE DEF SearchIInv
<1>1. /\ order' = order /\ market' = market /\ filled' = filled /\ phase' = Search!NextPhase
      /\ outer' = outer /\ expired' = expired /\ visited' = Search!Nothing
      /\ nodesToFill' = nodesToFill \cup {[node |-> o, maker |-> None] : o \in Search!SentToFallback}
      /\ Search!Looping /\ outer = None /\ Search!OuterNodes = {}
  BY DEF Search!LeaveOuter
<1>2. Search!SentToFallback \subseteq SearchOrder
  <2>1. ASSUME NEW side, NEW kind PROVE Search!FallbackOf(side, kind) \subseteq SearchOrder
    BY DEF Search!FallbackOf, Search!CrossingFallback, Search!Resting, Search!Taking
  <2> HIDE DEF Search!FallbackOf
  <2> QED
    BY <1>1, <2>1 DEF Search!SentToFallback, Search!Looping
<1>3. Search!NextPhase \in {"takingAsks", "takingBids", "expired"}
  BY <1>1 DEF Search!NextPhase, Search!Looping
<1>4. Search!TypeOK'
  <2>1. visited' \in [outer : SUBSET SearchOrder, inner : SUBSET SearchOrder]
    BY <1>1 DEF Search!Nothing
  <2>2. nodesToFill' \in SUBSET [node : SearchOrder, maker : SearchOrder \cup {None}]
    BY <1>1, <1>2 DEF Search!TypeOK
  <2> QED
    BY <1>1, <1>3, <2>1, <2>2 DEF Search!TypeOK
<1>5. SettledAll(Outers, Inners)
  <2> SUFFICES ASSUME NEW o \in Outers, NEW q \in Inners PROVE Settled(o, q)
    BY DEF SettledAll
  <2>1. /\ visited.outer \subseteq Outers /\ SettledAll(visited.outer, Inners) /\ o \in SearchOrder
    BY <1>1, OuterAndInner DEF ThisLoop, SettledAll, Search!TypeOK, Search!BookAssumption
  <2>2. o \in visited.outer
    <3> SUFFICES ASSUME o \notin visited.outer PROVE FALSE
      OBVIOUS
    <3> DEFINE nodes == Outers \ visited.outer
    <3>1. o \in nodes /\ nodes \in SUBSET SearchOrder /\ nodes \subseteq Outers
      BY <1>1, OuterAndInner
    <3> HIDE DEF nodes
    <3>2. CASE phase = "restingCross"
      <4>1. Outers = Search!Resting("ask")
        BY <3>2 DEF Outers
      <4>2. Search!bestPrice(Search!heads(nodes)) # {}
        BY <3>1, <4>1, GeneratorsYield
      <4> QED
        BY <1>1, <3>2, <4>1, <4>2 DEF Search!OuterNodes, Search!getRestingLimit, nodes
    <3>3. CASE phase # "restingCross"
      <4>1. Search!oldest(nodes) # {}
        BY <3>1, GeneratorsYield
      <4> QED
        BY <1>1, <3>3, <4>1 DEF Search!OuterNodes, Search!getTaking, nodes, Outers, Search!Looping
    <3> QED
      BY <3>2, <3>3
  <2> QED
    BY <2>1, <2>2 DEF SettledAll
<1>6. ThisLoop'
  <2>1. visited'.outer = {} /\ visited'.inner = {} /\ outer' = None
    BY <1>1 DEF Search!Nothing
  <2> QED
    BY <2>1 DEF ThisLoop, SettledAll
<1>7. PastLoops'
  <2>1. ASSUME NEW side, NEW kind
        PROVE  /\ Search!Resting(side)' = Search!Resting(side)
               /\ Search!Taking(side)' = Search!Taking(side)
    BY <1>1 DEF Search!Resting, Search!Taking
  <2>2. ASSUME NEW os, NEW qs, SettledAll(os, qs) PROVE \A o \in os, q \in qs : Settled(o, q)'
    BY <1>1, <2>2, BaseStays DEF SettledAll
  <2>3. CASE phase = "restingCross"
    <3>1. /\ phase' = "takingAsks" /\ Outers = Search!Resting("ask") /\ Inners = Search!Resting("bid")
      BY <1>1, <2>3 DEF Search!NextPhase, Outers, Inners, Search!InnerSide
    <3> QED
      BY <1>5, <2>1, <2>2, <3>1 DEF PastLoops, SettledAll
  <2>4. CASE phase = "takingAsks"
    <3>1. /\ phase' = "takingBids" /\ Outers = Search!Taking("ask") /\ Inners = Search!Resting("bid")
      BY <1>1, <2>4 DEF Search!NextPhase, Outers, Inners, Search!InnerSide
    <3> QED
      BY <1>1, <1>5, <2>1, <2>2, <2>4, <3>1 DEF PastLoops, SettledAll
  <2>5. CASE phase = "takingBids"
    <3>1. /\ phase' = "expired" /\ Outers = Search!Taking("bid") /\ Inners = Search!Resting("ask")
      BY <1>1, <2>5 DEF Search!NextPhase, Outers, Inners, Search!InnerSide
    <3> QED
      BY <1>1, <1>5, <2>1, <2>2, <2>5, <3>1 DEF PastLoops, SettledAll
  <2> QED
    BY <1>1, <2>3, <2>4, <2>5 DEF Search!Looping
<1>8. Search!MatchesAreLegal'
  <2>1. ASSUME NEW p \in nodesToFill', p.maker # None PROVE p \in nodesToFill
    BY <1>1, <2>1
  <2> QED
    BY <1>1, <2>1 DEF Search!MatchesAreLegal, Search!SameUser, Search!Accepts, Search!AuctionEnd
<1> QED
  BY <1>1, <1>4, <1>6, <1>7, <1>8, BaseStays

-----------------------------------------------------------------------------
(* A match fills the smaller of the two remainders.                         *)
LEMMA MatchFills ==
    ASSUME Search!BookAssumption, SearchIInv, Search!Looping, outer # None,
           NEW inner \in Search!InnerNodes
    PROVE  /\ Search!BaseFilled(inner) \in Nat
           /\ Search!FilledWith(inner) \in [SearchOrder -> Nat]
           /\ \A o \in SearchOrder : Search!FilledWith(inner)[o] =
                  IF o \in {outer, inner} THEN filled[o] + Search!BaseFilled(inner) ELSE filled[o]
           /\ \A o \in SearchOrder : Search!FilledWith(inner)[o] \in 0 .. order[o].base
           /\ Search!FilledWith(inner)[outer] = order[outer].base
              \/ Search!FilledWith(inner)[inner] = order[inner].base
<1> USE DEF SearchIInv
<1> DEFINE d == Search!BaseFilled(inner)
           g == Search!FilledWith(inner)
<1>1. /\ outer \in SearchOrder /\ inner \in SearchOrder /\ outer # inner
  BY OuterAndInner, InnerIsBest
<1>2. /\ filled[outer] \in Nat /\ filled[inner] \in Nat
      /\ order[outer].base \in Nat /\ order[inner].base \in Nat
      /\ filled[outer] <= order[outer].base /\ filled[inner] <= order[inner].base
  BY <1>1, OrderTypes
<1>3. /\ d \in Nat /\ filled[outer] + d <= order[outer].base /\ filled[inner] + d <= order[inner].base
      /\ filled[outer] + d = order[outer].base \/ filled[inner] + d = order[inner].base
  BY <1>2 DEF Search!BaseFilled, Search!Remaining
<1>4. \A o \in SearchOrder : g[o] = IF o \in {outer, inner} THEN filled[o] + d ELSE filled[o]
  BY DEF Search!FilledWith
<1>5. g = [o \in SearchOrder |-> g[o]]
  BY DEF Search!FilledWith
<1> HIDE DEF d, g
<1>6. ASSUME NEW o \in SearchOrder PROVE g[o] \in Nat /\ g[o] \in 0 .. order[o].base
  <2>1. CASE o = outer
    BY <1>2, <1>3, <1>4, <2>1
  <2>2. CASE o = inner
    BY <1>2, <1>3, <1>4, <2>2
  <2>3. CASE o \notin {outer, inner}
    BY <1>4, <2>3, OrderTypes
  <2> QED
    BY <2>1, <2>2, <2>3
<1>7. g[outer] = order[outer].base \/ g[inner] = order[inner].base
  BY <1>1, <1>3, <1>4
<1>8. g \in [SearchOrder -> Nat]
  BY <1>5, <1>6
<1> QED
  BY <1>3, <1>4, <1>6, <1>7, <1>8 DEF d, g

(* What one step of Match does.                                             *)
MatchOf(inner) ==
    /\ ~Search!Breaks(inner) /\ ~Search!Skips(inner)
    /\ nodesToFill' = nodesToFill \cup {Search!Pair(inner)}
    /\ filled' = Search!FilledWith(inner)
    /\ outer' = IF filled'[outer] = order[outer].base THEN None ELSE outer
    /\ visited' = [visited EXCEPT !.inner = visited.inner \cup {inner}]

(* A pair is legal, and the maker of a pair is the outer node in the first  *)
(* loop only.                                                               *)
LEMMA PairIsLegal ==
    ASSUME Search!BookAssumption, SearchIInv, Search!Looping, outer # None,
           NEW inner \in Search!InnerNodes, ~Search!Breaks(inner), ~Search!Skips(inner)
    PROVE  LET p == Search!Pair(inner) IN
           /\ p \in [node : SearchOrder, maker : SearchOrder]
           /\ p.node # p.maker /\ {p.node, p.maker} = {outer, inner}
           /\ phase # "restingCross" => p.node = outer
           /\ order[p.maker].kind = "resting"
           /\ order[p.node].side # order[p.maker].side
           /\ ~Search!SameUser(p.node, p.maker)
           /\ Search!Accepts(p.node, p.maker)
           /\ order[p.node].kind = "resting" =>
                 /\ ~order[p.node].postOnly
                 /\ order[p.maker].postOnly \/ Search!AuctionEnd(p.maker) <= Search!AuctionEnd(p.node)
<1> USE DEF SearchIInv
<1>1. /\ outer \in Outers /\ inner \in Inners /\ outer \in SearchOrder /\ inner \in SearchOrder /\ outer # inner
      /\ order[inner].side # order[outer].side /\ order[outer].side # order[inner].side
  BY OuterAndInner, InnerIsBest
<1>2. /\ order[inner].kind = "resting" /\ order[inner].price \in Nat
      /\ order[outer].price \in Nat \cup {None} /\ None \notin Nat
      /\ order[outer].side \in {"bid", "ask"} /\ order[inner].side \in {"bid", "ask"}
  BY <1>1, OrderTypes DEF Inners, Search!Resting
<1>3. ~Search!SameUser(outer, inner) /\ ~Search!SameUser(inner, outer)
  BY DEF Search!Skips, Search!SameUser
<1>4. CASE phase = "restingCross"
  <2>1. /\ order[outer].kind = "resting" /\ order[outer].side = "ask" /\ order[inner].side = "bid"
        /\ order[outer].price \in Nat
    BY <1>1, <1>4 DEF Outers, Inners, Search!InnerSide, Search!Resting, BookIsGiven
  <2>2. ~Search!BothPostOnly(outer, inner) /\ order[outer].price <= order[inner].price
    BY <1>2, <1>4, <2>1 DEF Search!Breaks, Search!Skips, Search!PricesCross
  <2>3. /\ Search!AuctionEnd(outer) \in Nat /\ Search!AuctionEnd(inner) \in Nat
    BY <1>1, OrderTypes DEF Search!AuctionEnd
  <2>4. Search!Accepts(outer, inner) /\ Search!Accepts(inner, outer)
    BY <1>2, <2>1, <2>2 DEF Search!Accepts
  <2> DEFINE ask == outer
             bid == inner
  <2>5. CASE order[bid].postOnly
    <3>1. Search!Pair(inner) = [node |-> ask, maker |-> bid] /\ ~order[ask].postOnly
      BY <1>4, <2>2, <2>5 DEF Search!Pair, Search!determineMakerAndTaker, Search!BothPostOnly
    <3> QED
      BY <1>1, <1>2, <1>3, <1>4, <2>4, <2>5, <3>1
  <2>6. CASE ~order[bid].postOnly /\ (order[ask].postOnly \/ Search!AuctionEnd(ask) <= Search!AuctionEnd(bid))
    <3>1. Search!Pair(inner) = [node |-> bid, maker |-> ask]
      BY <1>1, <1>4, <2>6 DEF Search!Pair, Search!determineMakerAndTaker
    <3> QED
      BY <1>1, <1>2, <1>3, <1>4, <2>1, <2>4, <2>6, <3>1
  <2>7. CASE ~order[bid].postOnly /\ ~order[ask].postOnly
             /\ ~(Search!AuctionEnd(ask) <= Search!AuctionEnd(bid))
    <3>1. Search!Pair(inner) = [node |-> ask, maker |-> bid]
      BY <1>4, <2>7 DEF Search!Pair, Search!determineMakerAndTaker
    <3>2. Search!AuctionEnd(bid) <= Search!AuctionEnd(ask)
      BY <2>3, <2>7
    <3> QED
      BY <1>1, <1>2, <1>3, <1>4, <2>4, <2>7, <3>1, <3>2
  <2> QED
    BY <2>5, <2>6, <2>7
<1>5. CASE phase # "restingCross"
  <2>1. Search!Pair(inner) = [node |-> outer, maker |-> inner]
    BY <1>5 DEF Search!Pair
  <2>2. order[outer].kind = "taking"
    BY <1>1, <1>5 DEF Outers, Search!Taking, Search!Looping
  <2>3. Search!doesCross(outer, inner)
    BY <1>3, <1>5, <2>2 DEF Search!Breaks, Search!Skips, Search!PricesCross
  <2>4. Search!Accepts(outer, inner)
    BY <1>2, <2>3 DEF Search!Accepts, Search!doesCross
  <2> QED
    BY <1>1, <1>2, <1>3, <1>5, <2>1, <2>2, <2>4
<1> QED
  BY <1>4, <1>5

(* What a match puts on the ask is what it puts on the bid.                 *)
LEMMA MatchBalances ==
    ASSUME Search!BookAssumption, SearchIInv, Search!Looping, outer # None, order' = order,
           NEW inner \in Search!InnerNodes, filled' = Search!FilledWith(inner)
    PROVE  Balanced'
<1> USE DEF SearchIInv
<1> DEFINE Of(side) == {o \in SearchOrder : order[o].side = side}
           d == Search!BaseFilled(inner)
<1>1. /\ outer \in SearchOrder /\ inner \in SearchOrder /\ outer # inner
      /\ order[outer].side # order[inner].side
      /\ order[outer].side \in {"bid", "ask"} /\ order[inner].side \in {"bid", "ask"}
  BY OuterAndInner, InnerIsBest, OrderTypes
<1>2. PICK g : g = filled'
  OBVIOUS
<1>3. PICK f : f = filled
  OBVIOUS
<1>4. /\ d \in Nat /\ \A o \in SearchOrder : f[o] \in Nat
      /\ \A o \in SearchOrder : g[o] = IF o \in {outer, inner} THEN f[o] + d ELSE f[o]
  BY <1>2, <1>3, MatchFills
<1> HIDE DEF d
<1>5. ASSUME NEW side \in {"bid", "ask"} PROVE SumOf(f, Of(side)) \in Int /\ SumOf(g, Of(side)) = SumOf(f, Of(side)) + d
  <2>1. PICK a \in {outer, inner} : a \in Of(side)
    BY <1>1
  <2>2. IsFiniteSet(Of(side))
    BY OrdersAreFinite, FS_Subset
  <2>3. \A x \in Of(side) : f[x] \in Int /\ g[x] = IF x = a THEN f[x] + d ELSE f[x]
    BY <1>1, <1>4, <2>1
  <2> HIDE DEF Of
  <2> QED
    BY <1>4, <2>1, <2>2, <2>3, SumOfUpdate
<1>6. SumOf(f, Of("bid")) = SumOf(f, Of("ask"))
  BY <1>3 DEF Balanced
<1>7. SumOf(g, Of("bid")) = SumOf(g, Of("ask"))
  <2> HIDE DEF Of
  <2> QED
    BY <1>4, <1>5, <1>6
<1> QED
  BY <1>2, <1>7 DEF Balanced

LEMMA MatchInv ==
    ASSUME Search!BookAssumption, SearchIInv, Search!Match PROVE SearchIInv'
<1> USE DEF SearchIInv
<1>1. /\ Search!Looping /\ outer # None
      /\ order' = order /\ market' = market /\ phase' = phase /\ expired' = expired
  BY DEF Search!Match
<1>2. PICK inner \in Search!InnerNodes : MatchOf(inner)
  BY DEF Search!Match, MatchOf
<1>3. /\ filled' = Search!FilledWith(inner) /\ visited'.outer = visited.outer
      /\ visited'.inner = visited.inner \cup {inner}
      /\ nodesToFill' = nodesToFill \cup {Search!Pair(inner)}
      /\ outer' = IF filled'[outer] = order[outer].base THEN None ELSE outer
      /\ visited' = [visited EXCEPT !.inner = visited.inner \cup {inner}]
  BY <1>2 DEF MatchOf, Search!TypeOK
<1>4. /\ outer \in Outers /\ Outers \subseteq SearchOrder /\ Inners \subseteq SearchOrder
      /\ inner \in Inners /\ inner \in SearchOrder /\ outer \in SearchOrder
      /\ \A o \in Outers : o \notin Inners
  BY <1>1, <1>2, OuterAndInner, InnerIsBest
<1>5. /\ Search!Pair(inner) \in [node : SearchOrder, maker : SearchOrder]
      /\ ~Search!BookAssumption \/ None \notin SearchOrder
  BY <1>1, <1>2, PairIsLegal DEF MatchOf, Search!BookAssumption
<1>6. Search!TypeOK' /\ filled' \in [SearchOrder -> Nat]
  <2>1. \A o \in SearchOrder : filled'[o] \in 0 .. order'[o].base
    BY <1>1, <1>2, <1>3, MatchFills
  <2>2. filled' \in [SearchOrder -> Nat]
    BY <1>1, <1>2, <1>3, MatchFills
  <2>3. visited' \in [outer : SUBSET SearchOrder, inner : SUBSET SearchOrder]
    BY <1>3, <1>4 DEF Search!TypeOK
  <2>4. nodesToFill' \in SUBSET [node : SearchOrder, maker : SearchOrder \cup {None}]
    BY <1>3, <1>5 DEF Search!TypeOK
  <2>5. outer' \in SearchOrder \cup {None}
    BY <1>3, <1>4
  <2> QED
    BY <1>1, <2>1, <2>2, <2>3, <2>4, <2>5 DEF Search!TypeOK
<1>7. FillsGrow
  <2>1. ASSUME NEW o \in SearchOrder, Search!isBaseFilled(o) PROVE Search!isBaseFilled(o)'
    <3>1. o # outer /\ o # inner
      BY <1>1, <1>2, <2>1 DEF ThisLoop, MatchOf, Search!Skips
    <3>2. filled'[o] = filled[o]
      BY <1>1, <1>2, <1>3, <3>1, MatchFills
    <3> QED
      BY <1>1, <2>1, <3>2 DEF Search!isBaseFilled
  <2> QED
    BY <1>1, <2>1 DEF FillsGrow
<1>8. ThisLoop'
  <2>1. Outers' = Outers /\ Inners' = Inners /\ Search!Looping'
        /\ Search!Resting("ask")' = Search!Resting("ask") /\ Search!Resting("ask") \subseteq SearchOrder
    BY <1>1, LoopsStay DEF Search!Resting
  <2>2. PICK o : o = outer
    OBVIOUS
  <2>3. /\ Search!isBaseFilled(o)' \/ Search!isBaseFilled(inner)'
        /\ Search!isBaseFilled(o)' <=> filled'[outer] = order[outer].base
    BY <1>1, <1>2, <1>3, <2>2, MatchFills DEF Search!isBaseFilled
  <2>4. ASSUME NEW p \in visited.outer, p # o, NEW q \in Inners PROVE Settled(p, q)'
    BY <1>1, <1>4, <1>7, <2>2, <2>4, SettledStays DEF ThisLoop, SettledAll
  <2>5. ASSUME NEW q \in visited'.inner PROVE Met(o, q)'
    <3>1. CASE q = inner
      BY <2>3, <3>1 DEF Met
    <3>2. CASE q \in visited.inner
      BY <1>1, <1>4, <1>7, <2>2, <3>2, MetStays DEF ThisLoop
    <3> QED
      BY <1>3, <3>1, <3>2
  <2>6. CASE filled'[outer] = order[outer].base
    <3>1. outer' = None
      BY <1>3, <2>6
    <3>2. ASSUME NEW p \in visited.outer, NEW q \in Inners PROVE Settled(p, q)'
      <4>1. CASE p = o
        BY <2>3, <2>6, <4>1 DEF Settled, Met
      <4>2. CASE p # o
        BY <2>4, <4>2
      <4> QED
        BY <4>1, <4>2
    <3>3. SettledAll(visited.outer \ {outer}, Inners)'
      BY <1>3, <2>1, <3>2 DEF SettledAll
    <3> QED
      BY <1>1, <1>3, <1>4, <2>1, <3>1, <3>3 DEF ThisLoop
  <2>7. CASE filled'[outer] # order[outer].base
    <3>1. outer' = o
      BY <1>3, <2>2, <2>7
    <3>2. SettledAll(visited.outer \ {outer}, Inners)'
      BY <1>3, <2>1, <2>4, <3>1 DEF SettledAll
    <3>3. (\A q \in visited.inner : Met(outer, q))'
      <4>1. \A q \in visited'.inner : Met(o, q)'
        BY <2>5
      <4> QED
        BY <3>1, <4>1 DEF Met, Crosses, Search!SameUser, Search!BothPostOnly, Search!PricesCross, Search!isBaseFilled
    <3>4. ASSUME phase = "restingCross", NEW q \in Search!Resting("ask") \ visited'.outer
          PROVE  ~Search!Better(q, outer)' \/ Search!Behind(q, outer)'
      <4>1. ~Search!Better(q, o) \/ Search!Behind(q, o)
        BY <1>1, <1>3, <2>2, <3>4 DEF ThisLoop
      <4>2. ~Search!Better(q, o)' \/ Search!Behind(q, o)'
        BY <1>1, <4>1, BookStays
      <4> QED
        BY <3>1, <4>2 DEF Search!Better, Search!Behind
    <3>5. ~Search!isBaseFilled(outer)'
      BY <2>3, <2>7, <3>1 DEF Search!isBaseFilled
    <3> QED
      BY <1>1, <1>3, <1>4, <2>1, <2>2, <3>1, <3>2, <3>3, <3>4, <3>5 DEF ThisLoop
  <2> QED
    BY <2>6, <2>7
<1>9. Search!MatchesAreLegal'
  <2> SUFFICES ASSUME NEW p \in nodesToFill', p.maker # None
               PROVE  /\ order[p.maker].kind = "resting"
                      /\ order[p.node].side # order[p.maker].side
                      /\ ~Search!SameUser(p.node, p.maker)
                      /\ Search!Accepts(p.node, p.maker)
                      /\ order[p.node].kind = "resting" =>
                            /\ ~order[p.node].postOnly
                            /\ order[p.maker].postOnly
                               \/ Search!AuctionEnd(p.maker) <= Search!AuctionEnd(p.node)
    BY <1>1 DEF Search!MatchesAreLegal, Search!SameUser, Search!Accepts, Search!AuctionEnd
  <2>1. CASE p \in nodesToFill
    BY <2>1 DEF Search!MatchesAreLegal
  <2>2. CASE p = Search!Pair(inner)
    <3>1. ~Search!Breaks(inner) /\ ~Search!Skips(inner)
      BY <1>2 DEF MatchOf
    <3> QED
      BY <1>1, <2>2, <3>1, PairIsLegal
  <2> QED
    BY <1>3, <2>1, <2>2
<1>10. BookIsGiven'
  BY <1>1, BookStays
<1>11. Balanced'
  BY <1>1, <1>2, <1>3, MatchBalances
<1> QED
  BY <1>1, <1>6, <1>7, <1>8, <1>9, <1>10, <1>11, PastStays

LEMMA SearchStep ==
    ASSUME Search!BookAssumption, SearchIInv, [Search!Next]_Search!vars PROVE SearchIInv'
<1>1. CASE Search!findExpiredNodesToFill
  <2>1. /\ phase = "expired" /\ phase' = "done" /\ expired' = {o \in SearchOrder : order[o].expired}
        /\ order' = order /\ market' = market /\ filled' = filled /\ outer' = outer
        /\ visited' = visited /\ nodesToFill' = nodesToFill
    BY <1>1 DEF Search!findExpiredNodesToFill
  <2>2. Search!TypeOK'
    BY <2>1 DEF SearchIInv, Search!TypeOK
  <2>3. ThisLoop'
    BY <2>1 DEF SearchIInv, ThisLoop, Search!Looping
  <2>4. ASSUME NEW side, NEW kind
        PROVE  /\ Search!Resting(side)' = Search!Resting(side)
               /\ Search!Taking(side)' = Search!Taking(side)
    BY <2>1 DEF Search!Resting, Search!Taking
  <2>5. ASSUME NEW os, NEW qs, SettledAll(os, qs) PROVE \A o \in os, q \in qs : Settled(o, q)'
    BY <2>1, <2>5, BaseStays DEF SettledAll
  <2>6. PastLoops'
    BY <2>1, <2>4, <2>5 DEF SearchIInv, PastLoops, SettledAll
  <2> QED
    BY <2>1, <2>2, <2>3, <2>6, BaseStays, LegalStays DEF SearchIInv
<1>2. CASE UNCHANGED Search!vars
  <2>1. /\ order' = order /\ market' = market /\ filled' = filled /\ phase' = phase /\ outer' = outer
        /\ visited' = visited /\ nodesToFill' = nodesToFill /\ expired' = expired
    BY <1>2 DEF Search!vars
  <2>2. Search!TypeOK'
    BY <2>1 DEF SearchIInv, Search!TypeOK
  <2>3. Outers' = Outers /\ Inners' = Inners /\ (Search!Looping' <=> Search!Looping)
        /\ Search!Resting("ask")' = Search!Resting("ask")
    BY <2>1, LoopsStay
  <2>4. ASSUME NEW os, NEW qs, SettledAll(os, qs) PROVE \A o \in os, q \in qs : Settled(o, q)'
    BY <2>1, <2>4, BaseStays DEF SettledAll
  <2>5. SettledAll(visited.outer \ {outer}, Inners)' <=> SettledAll(visited.outer \ {outer}, Inners)
    BY <2>1, <2>3, BaseStays DEF SettledAll
  <2>6. /\ (\A q \in visited.inner : Met(outer, q))' <=> (\A q \in visited.inner : Met(outer, q))
        /\ \A q : /\ Search!Better(q, outer)' <=> Search!Better(q, outer)
                  /\ Search!Behind(q, outer)' <=> Search!Behind(q, outer)
    BY <2>1, BaseStays
  <2>7. ThisLoop'
    BY <2>1, <2>3, <2>5, <2>6 DEF SearchIInv, ThisLoop, Search!isBaseFilled
  <2> QED
    BY <2>1, <2>2, <2>7, BaseStays, PastStays, LegalStays DEF SearchIInv
<1> QED
  BY <1>1, <1>2, NextOuterInv, SkipInnerInv, MatchInv, LeaveInnerInv, LeaveOuterInv
  DEF Search!Next, Search!Returned

LEMMA SearchInit == Search!BookAssumption /\ Search!Init => SearchIInv
<1> SUFFICES ASSUME Search!BookAssumption, Search!Init PROVE SearchIInv
  OBVIOUS
<1>1. /\ order \in [SearchOrder -> Search!OrderFields] /\ market \in Search!MarketType
      /\ filled = [o \in SearchOrder |-> 0] /\ outer = None /\ visited = Search!Nothing
      /\ phase = (IF market.fillPaused THEN "done" ELSE "restingCross")
      /\ nodesToFill = {} /\ expired = {}
  BY DEF Search!Init, Search!BookAssumption
<1>2. BookIsGiven
  <2>0. order \in Book
    BY DEF Search!Init
  <2>1. ASSUME NEW o \in SearchOrder, order[o].kind = "resting" PROVE order[o].price \in Nat
    <3>1. order[o] \in Search!OrderFields /\ order[o].price # None
      BY <1>1, <2>1 DEF Search!Init, Search!BookAssumption
    <3> QED
      BY <3>1 DEF Search!OrderFields
  <2> QED
    BY <2>0, <2>1 DEF BookIsGiven
<1>3. Search!TypeOK
  <2>1. \A o \in SearchOrder : filled[o] \in 0 .. order[o].base
    <3>1. ASSUME NEW o \in SearchOrder PROVE order[o].base \in Nat \ {0}
      BY <1>1 DEF Search!OrderFields
    <3> QED
      BY <1>1, <3>1
  <2> QED
    BY <1>1, <2>1 DEF Search!TypeOK, Search!Nothing
<1>4. PastLoops
  BY <1>1 DEF PastLoops
<1>5. ThisLoop
  BY <1>1 DEF ThisLoop, Search!Nothing, SettledAll
<1>6. Balanced
  <2>1. PICK f : f = filled
    OBVIOUS
  <2>2. ASSUME NEW side \in {"bid", "ask"} PROVE SumOf(f, {o \in SearchOrder : order[o].side = side}) = 0
    <3> DEFINE S == {o \in SearchOrder : order[o].side = side}
    <3>1. IsFiniteSet(S) /\ \A x \in S : f[x] = 0
      BY <1>1, <2>1, OrdersAreFinite, FS_Subset
    <3> HIDE DEF S
    <3>2. SumOf(f, S) = 0
      BY <3>1, SumOfZeros
    <3> QED
      BY <3>2 DEF S
  <2>3. SumOf(f, {o \in SearchOrder : order[o].side = "bid"}) = SumOf(f, {o \in SearchOrder : order[o].side = "ask"})
    BY <2>2
  <2> QED
    BY <2>1, <2>3 DEF Balanced
<1>7. Search!MatchesAreLegal
  BY <1>1 DEF Search!MatchesAreLegal
<1>8. filled \in [SearchOrder -> Nat]
  BY <1>1
<1> QED
  BY <1>2, <1>3, <1>4, <1>5, <1>6, <1>7, <1>8 DEF SearchIInv

(* A match takes the best price of the maker's side that its node could     *)
(* have been matched with, but for what auctions have moved in the lists.   *)
BestPriceTaken ==
    \A p \in nodesToFill' \ nodesToFill : p.maker # None =>
        \A q \in Search!Resting(order[p.maker].side) :
            Search!Better(q, p.maker) /\ ~Search!SameUser(q, p.node) /\ ~Search!BothPostOnly(q, p.node)
            => \/ Search!isBaseFilled(q) \/ Search!Behind(q, p.maker)
               \/ order[q].side = "ask" /\ order[p.node].kind = "resting" /\ Search!Hidden(p.node, q)

LEMMA BestPriceStep ==
    ASSUME Search!BookAssumption, SearchIInv, [Search!Next]_Search!vars PROVE BestPriceTaken
<1> USE DEF SearchIInv
<1>1. ASSUME Search!Match PROVE BestPriceTaken
  <2>1. Search!Looping /\ outer # None /\ outer \in Outers
    BY <1>1, OuterAndInner DEF Search!Match
  <2>2. PICK inner \in Search!InnerNodes : MatchOf(inner)
    BY <1>1 DEF Search!Match, MatchOf
  <2>3. /\ ~Search!Breaks(inner) /\ ~Search!Skips(inner)
        /\ nodesToFill' = nodesToFill \cup {Search!Pair(inner)}
    BY <2>2 DEF MatchOf
  <2> DEFINE p == Search!Pair(inner)
  <2>4. /\ p.node # p.maker /\ {p.node, p.maker} = {outer, inner} /\ (phase # "restingCross" => p.node = outer)
        /\ order[p.maker].kind = "resting" /\ order[p.node].side # order[p.maker].side
        /\ Search!Accepts(p.node, p.maker) /\ p.node \in SearchOrder /\ p.maker \in SearchOrder
    BY <2>1, <2>2, <2>3, PairIsLegal
  <2>5. /\ inner \in Inners /\ inner \in SearchOrder /\ outer \in SearchOrder /\ ~Search!isBaseFilled(inner)
        /\ Inners = Search!Resting(order[inner].side) /\ order[inner].price \in Nat
        /\ ~Search!isBaseFilled(outer)
        /\ order[outer].side # order[inner].side
    BY <2>1, <2>3, OuterAndInner, InnerIsBest DEF ThisLoop, Search!Resting, BookIsGiven, Search!Skips
  <2> HIDE DEF p
  <2> SUFFICES ASSUME NEW q \in Search!Resting(order[p.maker].side), Search!Better(q, p.maker),
                      ~Search!SameUser(q, p.node), ~Search!BothPostOnly(q, p.node)
               PROVE  \/ Search!isBaseFilled(q) \/ Search!Behind(q, p.maker)
                      \/ order[q].side = "ask" /\ order[p.node].kind = "resting" /\ Search!Hidden(p.node, q)
    BY <2>3 DEF BestPriceTaken, p
  <2>6. q \in SearchOrder /\ order[q].kind = "resting" /\ order[q].side = order[p.maker].side
        /\ order[q].price \in Nat
    BY DEF Search!Resting, BookIsGiven
  <2>7. CASE p.maker = inner
    <3>1. p.node = outer /\ q \in Inners
      BY <2>4, <2>5, <2>7
    <3>2. CASE q \notin visited.inner
      <4>1. ~Search!Better(q, inner) \/ Search!Behind(q, inner)
        BY <2>1, <3>1, <3>2, InnerIsBest
      <4> QED
        BY <2>7, <4>1
    <3>3. CASE q \in visited.inner
      <4>1. Met(outer, q)
        BY <2>1, <3>3 DEF ThisLoop
      <4>2. ~Search!SameUser(outer, q) /\ ~Search!BothPostOnly(outer, q)
        BY <3>1 DEF Search!SameUser, Search!BothPostOnly
      <4>3. Search!PricesCross(outer, q)
        <5> SUFFICES ASSUME ~Search!PricesCross(outer, q) PROVE FALSE
          OBVIOUS
        <5>1. ~Search!Better(inner, q)
          BY <2>5, <2>6, <2>7 DEF Search!Better, Search!BetterPrice
        <5>2. ~Search!PricesCross(outer, inner)
          BY <2>1, <2>5, <3>1, <5>1, WorseDoesNotCross
        <5> QED
          BY <2>3, <2>5, <5>2 DEF Search!Breaks, Search!Skips
      <4> QED
        BY <2>5, <4>1, <4>2, <4>3 DEF Met, Crosses
    <3> QED
      BY <3>2, <3>3
  <2>8. CASE p.maker = outer
    <3>1. p.node = inner /\ phase = "restingCross"
      BY <2>4, <2>8
    <3>2. order[outer].side = "ask" /\ order[outer].price \in Nat /\ q \in Outers /\ q # outer
      BY <2>1, <2>5, <2>6, <2>8, <3>1 DEF Outers, Search!Resting, BookIsGiven, Search!Better, Search!BetterPrice
    <3>3. order[q].price < order[outer].price /\ order[q].side = "ask"
      BY <2>6, <2>8, <3>2 DEF Search!Better, Search!BetterPrice
    <3>4. CASE q \notin visited.outer
      <4>1. ~Search!Better(q, outer) \/ Search!Behind(q, outer)
        BY <2>1, <2>6, <3>1, <3>2, <3>4 DEF ThisLoop, Outers
      <4> QED
        BY <2>8, <4>1
    <3>5. CASE q \in visited.outer
      <4>1. Settled(q, inner)
        BY <2>1, <2>5, <3>2, <3>5 DEF ThisLoop, SettledAll
      <4>2. order[outer].price <= order[inner].price
        BY <2>1, <2>3, <2>4, <2>5, <2>8, <3>1 DEF Search!Breaks, Search!Skips, Search!PricesCross
      <4>3. Crosses(q, inner)
        BY <2>5, <2>6, <3>1, <3>2, <3>3, <4>2 DEF Crosses, Search!PricesCross
      <4>4. order[inner].kind = "resting" /\ ~Search!SameUser(q, inner)
        BY <2>5, <3>1 DEF Inners, Search!Resting
      <4> QED
        BY <2>5, <3>1, <3>3, <4>1, <4>3, <4>4 DEF Settled, Met
    <3> QED
      BY <3>4, <3>5
  <2> QED
    BY <2>4, <2>7, <2>8
<1>2. ASSUME Search!LeaveOuter PROVE BestPriceTaken
  <2>1. \A p \in nodesToFill' \ nodesToFill : p.maker = None
    BY <1>2 DEF Search!LeaveOuter
  <2> QED
    BY <2>1 DEF BestPriceTaken
<1>3. ASSUME nodesToFill' = nodesToFill PROVE BestPriceTaken
  BY <1>3 DEF BestPriceTaken
<1> QED
  BY <1>1, <1>2, <1>3 DEF Search!Next, Search!NextOuter, Search!SkipInner, Search!LeaveInner,
     Search!findExpiredNodesToFill, Search!Returned, Search!vars

-----------------------------------------------------------------------------
(* Who makes was resting, is of another user and offers a price that the    *)
(* taker accepts, and of two resting orders the one that finished its       *)
(* auction first makes; what all matches put on bids is what they put on    *)
(* asks, and no order is filled beyond its size.                            *)
THEOREM MatchesStayLegal == Search!BookAssumption => (Search!Spec => []MatchesAreLegal)
<1> SUFFICES ASSUME Search!BookAssumption PROVE Search!Spec => []MatchesAreLegal
  OBVIOUS
<1>1. Search!Init => SearchIInv
  BY SearchInit
<1>2. SearchIInv /\ [Search!Next]_Search!vars => SearchIInv'
  BY SearchStep
<1>3. SearchIInv => MatchesAreLegal
  <2>1. SearchIInv => Search!TypeOK /\ Search!MatchesBalance
    BY DEF SearchIInv, Balanced, SumOf, Search!MatchesBalance
  <2> QED
    BY <2>1 DEF SearchIInv, MatchesAreLegal
<1> QED
  BY <1>1, <1>2, <1>3, PTL DEF Search!Spec

(* When the search is over, no two orders are left that could fill each     *)
(* other: neither two resting ones nor a taker and a maker, but for those   *)
(* that an auction hides behind an order with no cross.                     *)
THEOREM SearchLeavesNoCross == Search!BookAssumption => (Search!Spec => []NoCrossLeft)
<1> SUFFICES ASSUME Search!BookAssumption PROVE Search!Spec => []NoCrossLeft
  OBVIOUS
<1>1. Search!Init => SearchIInv
  BY SearchInit
<1>2. SearchIInv /\ [Search!Next]_Search!vars => SearchIInv'
  BY SearchStep
<1>3. SearchIInv => NoCrossLeft
  <2> SUFFICES ASSUME SearchIInv, phase = "done", ~market.fillPaused, NEW o \in SearchOrder, NEW q \in SearchOrder,
                      order[o].side # order[q].side, ~Search!SameUser(o, q), order[q].kind = "resting",
                      order[o].kind = "resting" => order[o].side = "ask" /\ ~Search!BothPostOnly(o, q),
                      Search!PricesCross(o, q)
               PROVE  Search!isBaseFilled(o) \/ Search!isBaseFilled(q) \/ Search!Hidden(q, o)
    BY DEF NoCrossLeft, Search!NoCrossLeft
  <2>1. /\ order[o].side \in {"bid", "ask"} /\ order[q].side \in {"bid", "ask"}
        /\ order[o].kind \in {"resting", "taking"}
    BY OrderTypes DEF SearchIInv
  <2>2. /\ SettledAll(Search!Resting("ask"), Search!Resting("bid"))
        /\ SettledAll(Search!Taking("ask"), Search!Resting("bid"))
        /\ SettledAll(Search!Taking("bid"), Search!Resting("ask"))
    BY DEF SearchIInv, PastLoops
  <2>3. Settled(o, q)
    BY <2>1, <2>2 DEF SettledAll, Search!Resting, Search!Taking
  <2> QED
    BY <2>3 DEF Settled, Met, Crosses
<1> QED
  BY <1>1, <1>2, <1>3, PTL DEF Search!Spec

(* A match takes the best price there is, but for what auctions have moved  *)
(* behind the maker or a worse order in the lists.                          *)
THEOREM BestPriceIsTaken == Search!BookAssumption => (Search!Spec => PricePriority)
<1> SUFFICES ASSUME Search!BookAssumption PROVE Search!Spec => PricePriority
  OBVIOUS
<1>1. Search!Init => SearchIInv
  BY SearchInit
<1>2. SearchIInv /\ [Search!Next]_Search!vars => SearchIInv'
  BY SearchStep
<1>3. SearchIInv /\ [Search!Next]_Search!vars =>
        [\A p \in nodesToFill' \ nodesToFill : p.maker # None =>
            \A q \in Search!Resting(order[p.maker].side) :
                Search!Better(q, p.maker) /\ ~Search!SameUser(q, p.node) /\ ~Search!BothPostOnly(q, p.node)
                => \/ Search!isBaseFilled(q) \/ Search!Behind(q, p.maker)
                   \/ order[q].side = "ask" /\ order[p.node].kind = "resting" /\ Search!Hidden(p.node, q)]_Search!vars
  BY BestPriceStep DEF BestPriceTaken
<1> QED
  BY <1>1, <1>2, <1>3, PTL DEF Search!Spec, PricePriority, Search!PricePriority

-----------------------------------------------------------------------------
(* The membership of the lists of the book.                                 *)
ListMaps == [Kind -> [Order -> Node \cup {None}]]

-----------------------------------------------------------------------------
(* The lists.                                                               *)

(* The kinds of lists that an order with these contents may be in.          *)
KindsOf(o, contents) ==
    IF mustBeTriggered(o) /\ ~contents.triggered THEN {"trigger"}
    ELSE IF ~isLimitOrder(o) THEN {"market"}
    ELSE IF Floating[o] THEN {"floatingLimit"}
    ELSE {"restingLimit", "takingLimit"}

(* What an order was inserted with: as \subseteq BOOLEAN, triggered or not. *)
WellPlaced(ls, o, as) ==
    \A k \in Kind : ls[k][o] # None =>
        /\ k \in KindsOf(o, ls[k][o].order) /\ ls[k][o].order.triggered \in as
        /\ k = "takingLimit" => ~PostOnly[o] /\ AuctionDuration[o] # 0

(* Resting orders rest at the slot, and takers do not at the newest slot    *)
(* that the book has seen.                                                  *)
Exact(ls, o, slot, seen) ==
    /\ ls["restingLimit"][o] # None => isRestingLimitOrder(o, slot)
    /\ ls["takingLimit"][o] # None => ~isRestingLimitOrder(o, seen)

(* Where an order may be found that was looked for in the wrong list, and   *)
(* one that was not.                                                        *)
Lingers(ls, o) ==
    \A k \in Kind : ls[k][o] # None => k \in {"restingLimit", "takingLimit", "trigger"}
Remains(ls, o, as) ==
    \A k \in Kind : ls[k][o] # None => k = "trigger" /\ as = BOOLEAN

HasTriggered(ls, o) == \E k \in Kind : ls[k][o] # None /\ ls[k][o].order.triggered

LEMMA KindFacts ==
    ASSUME BookAssumption, NEW o \in Order, NEW contents \in Contents
    PROVE  /\ KindsOf(o, contents) \subseteq Kind
           /\ \A slot : getListForOrder(o, contents, slot) \in KindsOf(o, contents)
           /\ \A other \in Contents : other.triggered = contents.triggered =>
                  /\ KindsOf(o, other) = KindsOf(o, contents)
                  /\ \A slot : getListForOrder(o, other, slot) = getListForOrder(o, contents, slot)
           /\ ~mustBeTriggered(o) => \A other \in Contents :
                  /\ KindsOf(o, other) = KindsOf(o, contents)
                  /\ \A slot : getListForOrder(o, other, slot) = getListForOrder(o, contents, slot)
BY DEF KindsOf, getListForOrder, Kind, Contents

(* What is resting stays so.                                                *)
LEMMA RestingStays ==
    ASSUME BookAssumption, NEW o \in Order, NEW s \in Int, NEW t \in Int, s <= t,
           isRestingLimitOrder(o, s)
    PROVE  isRestingLimitOrder(o, t)
<1>1. OrderSlot[o] \in Int /\ AuctionDuration[o] \in Int
  BY DEF BookAssumption
<1>2. s - OrderSlot[o] > AuctionDuration[o] => t - OrderSlot[o] > AuctionDuration[o]
  BY <1>1
<1> QED
  BY <1>2 DEF isRestingLimitOrder, isAuctionComplete

(* getOrder finds the entry of the first list that has one, ...             *)
FirstAt(ls, o, i) ==
    /\ ls[KindsInSearchOrder[i]][o] # None
    /\ \A j \in 1 .. i - 1 : ls[KindsInSearchOrder[j]][o] = None

LEMMA KindsAreSearched ==
    /\ KindsInSearchOrder[1] = "restingLimit" /\ KindsInSearchOrder[2] = "takingLimit"
    /\ KindsInSearchOrder[3] = "market" /\ KindsInSearchOrder[4] = "floatingLimit"
    /\ KindsInSearchOrder[5] = "trigger"
    /\ \A i \in 1 .. 5 : KindsInSearchOrder[i] \in Kind
    /\ \A k \in Kind : \E i \in 1 .. 5 : k = KindsInSearchOrder[i]
<1> DEFINE K == KindsInSearchOrder
<1>1. /\ K[1] = "restingLimit" /\ K[2] = "takingLimit" /\ K[3] = "market"
      /\ K[4] = "floatingLimit" /\ K[5] = "trigger"
  BY DEF KindsInSearchOrder
<1> HIDE DEF K
<1>2. ASSUME NEW i \in 1 .. 5 PROVE K[i] \in Kind
  <2>1. i = 1 \/ i = 2 \/ i = 3 \/ i = 4 \/ i = 5
    OBVIOUS
  <2> QED
    BY <1>1, <2>1 DEF Kind
<1>3. \A k \in Kind : \E i \in 1 .. 5 : k = K[i]
  <2>1. {1, 2, 3, 4, 5} \subseteq 1 .. 5
    OBVIOUS
  <2> QED
    BY <1>1, <2>1 DEF Kind
<1> QED
  BY <1>1, <1>2, <1>3 DEF K

LEMMA FirstExists ==
    ASSUME NEW ls, NEW o, Listed(ls, o)
    PROVE  \E i \in 1 .. 5 : FirstAt(ls, o, i)
<1> DEFINE Has(i) == ls[KindsInSearchOrder[i]][o] # None
<1>1. \E i \in 1 .. 5 : Has(i)
  BY KindsAreSearched DEF Listed
<1>2. (\A j \in 1 .. 0 : ~Has(j)) /\ 1 \in 1 .. 5
  OBVIOUS
<1> HIDE DEF Has
<1>3. \E i \in 1 .. 5 : Has(i) /\ \A j \in 1 .. i - 1 : ~Has(j)
  <2>1. CASE Has(1)
    BY <2>1
  <2>2. CASE ~Has(1) /\ Has(2)
    BY <2>2
  <2>3. CASE ~Has(1) /\ ~Has(2) /\ Has(3)
    BY <2>3
  <2>4. CASE ~Has(1) /\ ~Has(2) /\ ~Has(3) /\ Has(4)
    BY <2>4
  <2>5. CASE ~Has(1) /\ ~Has(2) /\ ~Has(3) /\ ~Has(4)
    BY <1>1, <2>5
  <2> QED
    BY <2>1, <2>2, <2>3, <2>4, <2>5
<1> QED
  BY <1>3 DEF Has, FirstAt

LEMMA FoundAt ==
    ASSUME NEW ls, NEW o, NEW i \in 1 .. 5, FirstAt(ls, o, i)
    PROVE  getOrder(ls, o) = ls[KindsInSearchOrder[i]][o].order
<1> DEFINE P(j) == /\ ls[KindsInSearchOrder[j]][o] # None
                   /\ \A m \in 1 .. j - 1 : ls[KindsInSearchOrder[m]][o] = None
           first == CHOOSE j \in 1 .. 5 : P(j)
<1>1. \A j : P(j) <=> FirstAt(ls, o, j)
  BY DEF FirstAt
<1>2. getOrder(ls, o) = ls[KindsInSearchOrder[first]][o].order
  BY DEF getOrder
<1> HIDE DEF P
<1>3. first \in 1 .. 5 /\ P(first)
  BY <1>1
<1>4. \A j, m \in 1 .. 5 : FirstAt(ls, o, j) /\ FirstAt(ls, o, m) => j = m
  <2>1. \A j, m \in 1 .. 5 : FirstAt(ls, o, j) /\ FirstAt(ls, o, m) => ~(j < m)
    <3> SUFFICES ASSUME NEW j \in 1 .. 5, NEW m \in 1 .. 5, FirstAt(ls, o, j), FirstAt(ls, o, m), j < m
                 PROVE  FALSE
      OBVIOUS
    <3>1. j \in 1 .. m - 1
      OBVIOUS
    <3> QED
      BY <3>1 DEF FirstAt
  <2> QED
    BY <2>1
<1> HIDE DEF first
<1>5. first = i
  BY <1>1, <1>3, <1>4
<1> QED
  BY <1>2, <1>5

(* ... which is one of those that the order is in, and that of restingLimit *)
(* if there is one.                                                         *)
LEMMA Found ==
    ASSUME NEW ls, NEW o, Listed(ls, o)
    PROVE  /\ \E k \in Kind : ls[k][o] # None /\ getOrder(ls, o) = ls[k][o].order
           /\ ls["restingLimit"][o] # None => getOrder(ls, o) = ls["restingLimit"][o].order
<1>1. PICK i \in 1 .. 5 : FirstAt(ls, o, i)
  BY FirstExists
<1>2. KindsInSearchOrder[i] \in Kind /\ ls[KindsInSearchOrder[i]][o] # None
  BY <1>1, KindsAreSearched DEF FirstAt
<1>3. ls["restingLimit"][o] # None => getOrder(ls, o) = ls["restingLimit"][o].order
  <2> SUFFICES ASSUME ls["restingLimit"][o] # None PROVE getOrder(ls, o) = ls["restingLimit"][o].order
    OBVIOUS
  <2>1. 1 \in 1 .. 5 /\ 1 .. 1 - 1 = {}
    OBVIOUS
  <2>2. FirstAt(ls, o, 1)
    BY <2>1, KindsAreSearched DEF FirstAt
  <2> QED
    BY <2>1, <2>2, FoundAt, KindsAreSearched
<1> QED
  BY <1>1, <1>2, <1>3, FoundAt

LEMMA SameEntries ==
    ASSUME NEW ls, NEW other, NEW o, \A k \in Kind : other[k][o] = ls[k][o]
    PROVE  /\ Listed(other, o) <=> Listed(ls, o)
           /\ Listed(ls, o) => getOrder(other, o) = getOrder(ls, o)
           /\ \A as : WellPlaced(other, o, as) <=> WellPlaced(ls, o, as)
           /\ \A slot, seen : Exact(other, o, slot, seen) <=> Exact(ls, o, slot, seen)
           /\ Lingers(other, o) <=> Lingers(ls, o)
           /\ \A as : Remains(other, o, as) <=> Remains(ls, o, as)
           /\ HasTriggered(other, o) <=> HasTriggered(ls, o)
<1>1. Listed(other, o) <=> Listed(ls, o)
  BY DEF Listed
<1>2. ASSUME Listed(ls, o) PROVE getOrder(other, o) = getOrder(ls, o)
  <2>1. PICK i \in 1 .. 5 : FirstAt(ls, o, i)
    BY <1>2, FirstExists
  <2>2. \A j \in 1 .. 5 : other[KindsInSearchOrder[j]][o] = ls[KindsInSearchOrder[j]][o]
    BY KindsAreSearched
  <2>3. FirstAt(other, o, i)
    BY <2>1, <2>2 DEF FirstAt
  <2> QED
    BY <2>1, <2>2, <2>3, FoundAt
<1>3. "restingLimit" \in Kind /\ "takingLimit" \in Kind
  BY DEF Kind
<1>4. \A as : WellPlaced(other, o, as) <=> WellPlaced(ls, o, as)
  BY DEF WellPlaced
<1>5. /\ Lingers(other, o) <=> Lingers(ls, o)
      /\ \A as : Remains(other, o, as) <=> Remains(ls, o, as)
      /\ HasTriggered(other, o) <=> HasTriggered(ls, o)
  BY DEF Lingers, Remains, HasTriggered
<1> QED
  BY <1>1, <1>2, <1>3, <1>4, <1>5 DEF Exact

(* The node of a trigger order in another list than trigger is found first. *)
LEMMA TriggeredIsFound ==
    ASSUME NEW ls, NEW o, NEW as, WellPlaced(ls, o, as), mustBeTriggered(o), HasTriggered(ls, o)
    PROVE  getOrder(ls, o).triggered
<1>1. PICK k \in Kind : ls[k][o] # None /\ ls[k][o].order.triggered
  BY DEF HasTriggered
<1>2. k # "trigger"
  BY <1>1 DEF WellPlaced, KindsOf
<1>3. Listed(ls, o)
  BY <1>1 DEF Listed
<1>4. PICK i \in 1 .. 5 : FirstAt(ls, o, i)
  BY <1>3, FirstExists
<1>5. PICK m \in 1 .. 5 : k = KindsInSearchOrder[m]
  BY KindsAreSearched
<1>6. i # 5
  <2> SUFFICES ASSUME i = 5 PROVE FALSE
    OBVIOUS
  <2>1. m # 5
    BY <1>2, <1>5, KindsAreSearched
  <2>2. m \in 1 .. i - 1
    BY <2>1
  <2> QED
    BY <1>1, <1>4, <1>5, <2>2 DEF FirstAt
<1>7. KindsInSearchOrder[i] \in Kind /\ KindsInSearchOrder[i] # "trigger"
  <2>1. i = 1 \/ i = 2 \/ i = 3 \/ i = 4
    BY <1>6
  <2> QED
    BY <2>1, KindsAreSearched DEF Kind
<1>8. ls[KindsInSearchOrder[i]][o].order.triggered
  BY <1>4, <1>7 DEF WellPlaced, KindsOf, FirstAt
<1> QED
  BY <1>4, <1>8, FoundAt

(* An entry that is new may be found instead of the one that was.           *)
LEMMA FoundAfterInsert ==
    ASSUME NEW ls \in ListMaps, NEW o \in Order, NEW k \in Kind, NEW node \in Node, None \notin Node,
           NEW other, other = InsertNode(ls, k, o, node)
    PROVE  /\ Listed(other, o)
           /\ \/ getOrder(other, o) = node.order
              \/ Listed(ls, o) /\ getOrder(other, o) = getOrder(ls, o)
<1>1. CASE ls[k][o] # None
  BY <1>1 DEF InsertNode, Listed
<1>2. CASE ls[k][o] = None
  <2>1. other = [ls EXCEPT ![k][o] = node]
    BY <1>2 DEF InsertNode
  <2>2. other[k][o] = node /\ \A j \in Kind : j # k => other[j][o] = ls[j][o]
    BY <2>1 DEF ListMaps
  <2>3. Listed(other, o)
    BY <2>2 DEF Listed
  <2>4. PICK i \in 1 .. 5 : FirstAt(other, o, i)
    BY <2>3, FirstExists
  <2>5. CASE KindsInSearchOrder[i] = k
    BY <2>2, <2>3, <2>4, <2>5, FoundAt
  <2>6. CASE KindsInSearchOrder[i] # k
    <3>1. KindsInSearchOrder[i] \in Kind /\ \A j \in 1 .. i - 1 : KindsInSearchOrder[j] \in Kind
      BY KindsAreSearched
    <3>2. \A j \in 1 .. i - 1 : KindsInSearchOrder[j] # k
      BY <2>2, <2>4 DEF FirstAt
    <3>3. FirstAt(ls, o, i)
      BY <2>2, <2>4, <2>6, <3>1, <3>2 DEF FirstAt
    <3>4. Listed(ls, o)
      BY <3>1, <3>3 DEF FirstAt, Listed
    <3> QED
      BY <2>2, <2>3, <2>4, <2>6, <3>1, <3>3, <3>4, FoundAt
  <2> QED
    BY <2>5, <2>6
<1> QED
  BY <1>1, <1>2

-----------------------------------------------------------------------------
(* What each method does to the entries of its order, and to no others.     *)
OthersStay(ls, other, o) == \A k \in Kind : \A p \in Order \ {o} : other[k][p] = ls[k][p]

LEMMA Inserted ==
    ASSUME BookAssumption, NEW ls \in ListMaps, NEW o \in Order, NEW k \in Kind, NEW node \in Node, NEW other,
           other = InsertNode(ls, k, o, node)
    PROVE  /\ other \in ListMaps /\ OthersStay(ls, other, o)
           /\ \A j \in Kind : other[j][o] = IF j = k /\ ls[k][o] = None THEN node ELSE ls[j][o]
<1>1. CASE ls[k][o] # None
  BY <1>1 DEF InsertNode, OthersStay
<1>2. CASE ls[k][o] = None
  <2>1. other = [ls EXCEPT ![k] = [ls[k] EXCEPT ![o] = node]]
    BY <1>2 DEF InsertNode
  <2>2. [ls[k] EXCEPT ![o] = node] \in [Order -> Node \cup {None}]
    BY DEF ListMaps
  <2>3. other \in ListMaps
    BY <2>1, <2>2 DEF ListMaps
  <2> QED
    BY <1>2, <2>1, <2>3 DEF ListMaps, OthersStay
<1> QED
  BY <1>1, <1>2

LEMMA Removed ==
    ASSUME NEW ls \in ListMaps, NEW o \in Order, NEW k \in Kind, NEW other, other = RemoveNode(ls, k, o)
    PROVE  /\ other \in ListMaps /\ OthersStay(ls, other, o)
           /\ \A j \in Kind : other[j][o] = IF j = k THEN None ELSE ls[j][o]
<1>1. other = [ls EXCEPT ![k] = [ls[k] EXCEPT ![o] = None]]
  BY DEF RemoveNode
<1>2. [ls[k] EXCEPT ![o] = None] \in [Order -> Node \cup {None}]
  BY DEF ListMaps
<1>3. other \in ListMaps
  BY <1>1, <1>2 DEF ListMaps
<1> QED
  BY <1>1, <1>3 DEF ListMaps, OthersStay

LEMMA UpdatedNode ==
    ASSUME BookAssumption, NEW ls \in ListMaps, NEW o \in Order, NEW k \in Kind, NEW contents \in Contents,
           NEW other, other = UpdateNode(ls, k, o, contents)
    PROVE  /\ other \in ListMaps /\ OthersStay(ls, other, o)
           /\ \A j \in Kind : j # k => other[j][o] = ls[j][o]
           /\ IF ls[k][o] = None THEN other[k][o] = None
              ELSE other[k][o] # None /\ other[k][o].order = contents
<1>1. CASE ls[k][o] = None
  BY <1>1 DEF UpdateNode, OthersStay
<1>2. CASE ls[k][o] # None
  <2> DEFINE node == [ls[k][o] EXCEPT !.order = contents]
  <2>1. other = [ls EXCEPT ![k] = [ls[k] EXCEPT ![o] = node]]
    BY <1>2 DEF UpdateNode
  <2>2. ls[k][o] \in Node
    BY <1>2 DEF ListMaps
  <2>3. node \in Node /\ node.order = contents
    BY <2>2 DEF Node
  <2> HIDE DEF node
  <2>4. [ls[k] EXCEPT ![o] = node] \in [Order -> Node \cup {None}] /\ node # None
    BY <2>3 DEF ListMaps, BookAssumption
  <2>5. other \in ListMaps
    BY <2>1, <2>4 DEF ListMaps
  <2> QED
    BY <1>2, <2>1, <2>3, <2>4, <2>5 DEF ListMaps, OthersStay
<1> QED
  BY <1>1, <1>2

(* A node goes where its contents belong.                                   *)
ToldAs(contents, as) == contents.triggered \in as

LEMMA InsertOrderFinds ==
    ASSUME BookAssumption, NEW ls \in ListMaps, NEW o \in Order, NEW contents \in Contents,
           NEW slot \in Int, NEW protected \in BOOLEAN \cup {Undefined}, NEW other,
           other = insertOrder(ls, o, contents, slot, protected)
    PROVE  /\ Listed(other, o)
           /\ getOrder(other, o) = contents \/ (Listed(ls, o) /\ getOrder(other, o) = getOrder(ls, o))
<1> DEFINE k    == getListForOrder(o, contents, slot)
           node == [order |-> contents, isUserProtectedMaker |-> protected]
<1>1. node \in Node /\ node.order = contents /\ None \notin Node
  BY DEF Node, BookAssumption
<1>2. k \in Kind
  BY KindFacts
<1>3. other = InsertNode(ls, k, o, node)
  BY DEF insertOrder
<1> HIDE DEF k, node
<1> QED
  BY <1>1, <1>2, <1>3, FoundAfterInsert

LEMMA InsertOrderKeeps ==
    ASSUME BookAssumption, NEW ls \in ListMaps, NEW o \in Order, NEW contents \in Contents,
           NEW slot \in Int, NEW protected \in BOOLEAN \cup {Undefined}, NEW other,
           other = insertOrder(ls, o, contents, slot, protected)
    PROVE  /\ other \in ListMaps /\ OthersStay(ls, other, o)
           /\ HasTriggered(ls, o) => HasTriggered(other, o)
           /\ \A as : WellPlaced(ls, o, as) /\ ToldAs(contents, as) =>
                 /\ WellPlaced(other, o, as)
                 /\ mustBeTriggered(o) /\ getListForOrder(o, contents, slot) # "trigger" =>
                        HasTriggered(other, o)
<1> DEFINE k    == getListForOrder(o, contents, slot)
           node == [order |-> contents, isUserProtectedMaker |-> protected]
<1>1. node \in Node /\ node.order = contents /\ None \notin Node
  BY DEF Node, BookAssumption
<1>2. k \in KindsOf(o, contents) /\ k \in Kind
  BY KindFacts
<1>3. other = InsertNode(ls, k, o, node)
  BY DEF insertOrder
<1>4. /\ k = "takingLimit" => ~PostOnly[o] /\ AuctionDuration[o] # 0
      /\ mustBeTriggered(o) /\ k # "trigger" => contents.triggered
  BY DEF getListForOrder, isRestingLimitOrder, isAuctionComplete
<1> HIDE DEF k, node
<1>5. /\ other \in ListMaps /\ OthersStay(ls, other, o)
      /\ \A j \in Kind : other[j][o] = IF j = k /\ ls[k][o] = None THEN node ELSE ls[j][o]
  BY <1>1, <1>2, <1>3, Inserted
<1>6. ASSUME NEW as, WellPlaced(ls, o, as), ToldAs(contents, as) PROVE WellPlaced(other, o, as)
  <2> SUFFICES ASSUME NEW j \in Kind, other[j][o] # None
               PROVE  /\ j \in KindsOf(o, other[j][o].order)
                      /\ other[j][o].order.triggered \in as
                      /\ j = "takingLimit" => ~PostOnly[o] /\ AuctionDuration[o] # 0
    BY DEF WellPlaced
  <2>1. CASE other[j][o] = ls[j][o]
    BY <1>6, <2>1 DEF WellPlaced
  <2>2. CASE other[j][o] = node /\ j = k
    BY <1>1, <1>2, <1>4, <1>6, <2>2 DEF ToldAs
  <2> QED
    BY <1>5, <2>1, <2>2
<1>7. HasTriggered(ls, o) => HasTriggered(other, o)
  BY <1>5 DEF HasTriggered
<1>8. ASSUME NEW as, WellPlaced(ls, o, as), mustBeTriggered(o), k # "trigger" PROVE HasTriggered(other, o)
  <2>1. CASE ls[k][o] = None
    BY <1>1, <1>2, <1>4, <1>5, <1>8, <2>1 DEF HasTriggered
  <2>2. CASE ls[k][o] # None
    <3>1. ls[k][o].order \in Contents
      BY <1>2, <2>2 DEF ListMaps, Node
    <3>2. ls[k][o].order.triggered
      BY <1>2, <1>4, <1>8, <2>2, <3>1 DEF WellPlaced, KindsOf
    <3> QED
      BY <1>2, <1>5, <2>2, <3>2 DEF HasTriggered
  <2> QED
    BY <2>1, <2>2
<1> QED
  BY <1>5, <1>6, <1>7, <1>8 DEF k

LEMMA InsertOrderExact ==
    ASSUME BookAssumption, NEW ls \in ListMaps, NEW o \in Order, NEW contents \in Contents,
           NEW slot \in Int, NEW protected \in BOOLEAN \cup {Undefined}, NEW other,
           other = insertOrder(ls, o, contents, slot, protected),
           NEW s \in Int, NEW seen \in Int, Exact(ls, o, s, seen), slot <= s,
           getListForOrder(o, contents, slot) = "takingLimit" => ~isRestingLimitOrder(o, seen)
    PROVE  Exact(other, o, s, seen)
<1> DEFINE k    == getListForOrder(o, contents, slot)
           node == [order |-> contents, isUserProtectedMaker |-> protected]
<1>1. node \in Node
  BY DEF Node
<1>2. k \in Kind
  BY KindFacts
<1>3. other = InsertNode(ls, k, o, node)
  BY DEF insertOrder
<1>4. k = "restingLimit" => isRestingLimitOrder(o, slot)
  BY DEF getListForOrder
<1>5. k = "takingLimit" => ~isRestingLimitOrder(o, seen)
  OBVIOUS
<1> HIDE DEF k, node
<1>6. \A j \in Kind : other[j][o] = IF j = k /\ ls[k][o] = None THEN node ELSE ls[j][o]
  BY <1>1, <1>2, <1>3, Inserted
<1>7. "restingLimit" \in Kind /\ "takingLimit" \in Kind
  BY DEF Kind
<1>8. isRestingLimitOrder(o, slot) => isRestingLimitOrder(o, s)
  BY RestingStays
<1> QED
  BY <1>4, <1>5, <1>6, <1>7, <1>8 DEF Exact

(* The list that getListForOrder names is where the order is, but for a     *)
(* limit order on the other side of the end of its auction.                 *)
LEMMA WhereItIs ==
    ASSUME BookAssumption, NEW ls \in ListMaps, NEW o \in Order, NEW slot \in Int,
           NEW as, WellPlaced(ls, o, as),
           NEW contents \in Contents, NEW j \in Kind, ls[j][o] # None,
           KindsOf(o, ls[j][o].order) = KindsOf(o, contents),
           j # getListForOrder(o, contents, slot)
    PROVE  j \in {"restingLimit", "takingLimit"} /\ ~Exact(ls, o, slot, slot)
<1> DEFINE K == getListForOrder(o, contents, slot)
<1>1. K \in KindsOf(o, contents) /\ j \in KindsOf(o, contents)
  BY KindFacts DEF WellPlaced
<1>2. /\ K = "takingLimit" => ~isRestingLimitOrder(o, slot)
      /\ K = "restingLimit" => isRestingLimitOrder(o, slot)
  BY DEF getListForOrder
<1> HIDE DEF K
<1>3. \/ K = "takingLimit" /\ j = "restingLimit"
      \/ K = "restingLimit" /\ j = "takingLimit"
  BY <1>1 DEF KindsOf, K
<1> QED
  BY <1>2, <1>3 DEF Exact

Closing(record, amount) == record.action = "cancel" \/ (record.action = "fill" /\ amount = Base)

LEMMA HandledKeeps ==
    ASSUME BookAssumption, NEW ls \in ListMaps, NEW o \in Order, NEW slot \in Int, NEW amount \in 0 .. Base,
           NEW record, record.action \in {"trigger", "fill", "cancel"},
           record.action = "trigger" => mustBeTriggered(o),
           NEW as \in SUBSET BOOLEAN, WellPlaced(ls, o, as), Listed(ls, o),
           NEW other, other = HandleFor(ls, record, o, amount, slot)
    PROVE  /\ other \in ListMaps /\ OthersStay(ls, other, o) /\ WellPlaced(other, o, as)
           /\ \A s, seen : Exact(ls, o, s, seen) => Exact(other, o, s, seen)
           /\ IF Closing(record, amount)
              THEN /\ Lingers(other, o)
                   /\ Exact(ls, o, slot, slot) => Remains(other, o, as)
              ELSE Listed(other, o) /\ (mustBeTriggered(o) /\ HasTriggered(ls, o) => HasTriggered(other, o))
           /\ record.action = "fill" /\ amount # Base /\ Exact(ls, o, slot, slot) =>
                  getOrder(other, o).filled = amount
           /\ record.action = "trigger" => getOrder(other, o) = getOrder(ls, o)
<1> DEFINE c == getOrder(ls, o)
<1>1. PICK i \in 1 .. 5 : FirstAt(ls, o, i)
  BY FirstExists
<1>2. PICK k \in Kind : k = KindsInSearchOrder[i] /\ ls[k][o] # None /\ c = ls[k][o].order
  BY <1>1, KindsAreSearched, FoundAt DEF FirstAt
<1>3. c \in Contents /\ c.triggered \in BOOLEAN
  BY <1>2 DEF ListMaps, Node, Contents
<1>4. o # None
  BY DEF BookAssumption
<1>5. "restingLimit" \in Kind /\ "takingLimit" \in Kind /\ "trigger" \in Kind
  BY DEF Kind
<1>6. mustBeTriggered(o) /\ HasTriggered(ls, o) => c.triggered
  BY TriggeredIsFound
<1>7. \A j \in Kind : ls[j][o] # None =>
          ls[j][o].order \in Contents /\ ls[j][o].order.triggered \in BOOLEAN
  BY DEF ListMaps, Node, Contents
<1>8. c.triggered \in as
  BY <1>2 DEF WellPlaced
<1> HIDE DEF c
(* Another node than that of getListForOrder.                               *)
<1>9. ASSUME NEW j \in Kind, ls[j][o] # None, j # getListForOrder(o, c, slot)
      PROVE  /\ j \in {"restingLimit", "takingLimit", "trigger"}
             /\ Exact(ls, o, slot, slot) => j = "trigger" /\ as = BOOLEAN
  <2>1. ls[j][o].order \in Contents /\ ls[j][o].order.triggered \in BOOLEAN
    BY <1>7, <1>9
  <2>2. CASE mustBeTriggered(o) => ls[j][o].order.triggered = c.triggered
    <3>1. KindsOf(o, ls[j][o].order) = KindsOf(o, c)
      BY <1>3, <2>1, <2>2, KindFacts
    <3>2. j \in {"restingLimit", "takingLimit"} /\ ~Exact(ls, o, slot, slot)
      BY <1>3, <1>9, <3>1, WhereItIs
    <3> QED
      BY <3>2
  <2>3. CASE mustBeTriggered(o) /\ ls[j][o].order.triggered # c.triggered
    <3>1. c.triggered /\ ~ls[j][o].order.triggered
      BY <1>3, <1>6, <1>9, <2>1, <2>3 DEF HasTriggered
    <3>2. j = "trigger"
      BY <1>9, <2>3, <3>1 DEF WellPlaced, KindsOf
    <3>3. TRUE \in as /\ FALSE \in as
      <4>1. ls[j][o].order.triggered \in as
        BY <1>9 DEF WellPlaced
      <4>2. c.triggered = TRUE /\ ls[j][o].order.triggered = FALSE
        BY <1>3, <2>1, <3>1
      <4> QED
        BY <1>8, <4>1, <4>2
    <3>4. as = BOOLEAN
      BY <3>3
    <3> QED
      BY <3>2, <3>4
  <2> QED
    BY <2>2, <2>3
<1>10. CASE Closing(record, amount)
  <2> DEFINE K == getListForOrder(o, c, slot)
  <2>1. other = RemoveNode(ls, K, o)
    BY <1>4, <1>10 DEF HandleFor, Updated, Deleted, Closing, c
  <2>2. K \in Kind
    BY <1>3, KindFacts
  <2> HIDE DEF K
  <2>3. /\ other \in ListMaps /\ OthersStay(ls, other, o)
        /\ \A j \in Kind : other[j][o] = IF j = K THEN None ELSE ls[j][o]
    BY <2>1, <2>2, Removed
  <2>4. WellPlaced(other, o, as)
    BY <2>3 DEF WellPlaced
  <2>5. \A s, seen : Exact(ls, o, s, seen) => Exact(other, o, s, seen)
    BY <1>5, <2>3 DEF Exact
  <2>6. Lingers(other, o) /\ (Exact(ls, o, slot, slot) => Remains(other, o, as))
    BY <1>9, <2>3 DEF Lingers, Remains, K
  <2>7. record.action # "trigger" /\ ~(record.action = "fill" /\ amount # Base)
    BY <1>10 DEF Closing
  <2> QED
    BY <1>10, <2>3, <2>4, <2>5, <2>6, <2>7
<1>11. CASE record.action = "fill" /\ amount # Base
  <2> DEFINE K   == getListForOrder(o, c, slot)
             new == [c EXCEPT !.filled = amount]
  <2>1. other = UpdateNode(ls, K, o, new)
    BY <1>4, <1>11 DEF HandleFor, Updated, c
  <2>2. K \in Kind /\ K \in KindsOf(o, c)
    BY <1>3, KindFacts
  <2>3. new \in Contents /\ new.triggered = c.triggered /\ new.filled = amount
    BY <1>3 DEF Contents
  <2>4. KindsOf(o, new) = KindsOf(o, c)
    BY <1>3, <2>3, KindFacts
  <2> HIDE DEF K, new
  <2>5. /\ other \in ListMaps /\ OthersStay(ls, other, o)
        /\ \A j \in Kind : j # K => other[j][o] = ls[j][o]
        /\ IF ls[K][o] = None THEN other[K][o] = None
           ELSE other[K][o] # None /\ other[K][o].order = new
    BY <2>1, <2>2, <2>3, UpdatedNode
  <2>6. \A j \in Kind : other[j][o] # None <=> ls[j][o] # None
    BY <2>5
  <2>7. WellPlaced(other, o, as)
    <3> SUFFICES ASSUME NEW j \in Kind, other[j][o] # None
                 PROVE  /\ j \in KindsOf(o, other[j][o].order) /\ other[j][o].order.triggered \in as
                        /\ j = "takingLimit" => ~PostOnly[o] /\ AuctionDuration[o] # 0
      BY DEF WellPlaced
    <3>1. ls[j][o] # None
      BY <2>6
    <3>2. j = "takingLimit" => ~PostOnly[o] /\ AuctionDuration[o] # 0
      BY <3>1 DEF WellPlaced
    <3>3. CASE j = K
      BY <1>8, <2>2, <2>3, <2>4, <2>5, <3>1, <3>2, <3>3
    <3>4. CASE j # K
      BY <2>5, <3>1, <3>2, <3>4 DEF WellPlaced
    <3> QED
      BY <3>3, <3>4
  <2>8. \A s, seen : Exact(ls, o, s, seen) => Exact(other, o, s, seen)
    BY <1>5, <2>6 DEF Exact
  <2>9. Listed(other, o)
    BY <1>2, <2>6 DEF Listed
  <2>10. ASSUME Exact(ls, o, slot, slot) PROVE getOrder(other, o).filled = amount
    <3>1. FirstAt(other, o, i)
      <4>1. \A j \in 1 .. i - 1 : KindsInSearchOrder[j] \in Kind
        BY KindsAreSearched
      <4> QED
        BY <1>1, <1>2, <2>6, <4>1 DEF FirstAt
    <3>2. getOrder(other, o) = other[k][o].order
      BY <1>2, <3>1, FoundAt
    <3>3. k = K
      <4>1. KindsOf(o, ls[k][o].order) = KindsOf(o, c)
        BY <1>2
      <4> QED
        BY <1>2, <1>3, <2>10, <4>1, WhereItIs DEF K
    <3> QED
      BY <1>2, <2>3, <2>5, <3>2, <3>3
  <2>11. ASSUME mustBeTriggered(o), HasTriggered(ls, o) PROVE HasTriggered(other, o)
    <3>1. PICK j \in Kind : ls[j][o] # None /\ ls[j][o].order.triggered
      BY <2>11 DEF HasTriggered
    <3>2. CASE j # K
      BY <2>5, <3>1, <3>2 DEF HasTriggered
    <3>3. CASE j = K
      <4>1. other[K][o] # None /\ other[K][o].order.triggered
        BY <1>6, <2>3, <2>5, <2>11, <3>1, <3>3
      <4> QED
        BY <2>2, <4>1 DEF HasTriggered
    <3> QED
      BY <3>2, <3>3
  <2> QED
    BY <1>11, <2>5, <2>7, <2>8, <2>9, <2>10, <2>11 DEF Closing
<1>12. CASE record.action = "trigger"
  <2>1. other = Triggered(ls, o, slot)
    BY <1>4, <1>12 DEF HandleFor
  <2>2. CASE c.triggered
    <3>1. other = ls
      BY <2>1, <2>2 DEF Triggered, c
    <3> QED
      BY <1>12, <3>1 DEF Closing, OthersStay
  <2>3. CASE ~c.triggered
    <3> DEFINE without == RemoveNode(ls, "trigger", o)
    <3>1. other = insertOrder(without, o, c, slot, FALSE)
      BY <2>1, <2>3 DEF Triggered, c
    <3>2. /\ without \in ListMaps /\ OthersStay(ls, without, o)
          /\ \A j \in Kind : without[j][o] = IF j = "trigger" THEN None ELSE ls[j][o]
      BY <1>5, Removed
    <3> HIDE DEF without
    <3>3. KindsOf(o, c) = {"trigger"} /\ ~HasTriggered(ls, o)
      BY <1>6, <1>12, <2>3 DEF KindsOf
    <3>4. \A j \in Kind : ls[j][o] # None => j = "trigger"
      BY <1>12, <3>3 DEF WellPlaced, HasTriggered, KindsOf
    <3>5. \A j \in Kind : without[j][o] = None
      BY <3>2, <3>4
    <3>6. WellPlaced(without, o, as) /\ ~Listed(without, o)
      BY <3>5 DEF WellPlaced, Listed
    <3>7. /\ other \in ListMaps /\ OthersStay(without, other, o)
          /\ Listed(other, o) /\ WellPlaced(other, o, as) /\ getOrder(other, o) = c
      <4> DEFINE protected == FALSE
      <4>1. protected \in BOOLEAN \cup {Undefined} /\ other = insertOrder(without, o, c, slot, protected)
        BY <3>1
      <4> HIDE DEF protected
      <4>2. /\ other \in ListMaps /\ OthersStay(without, other, o)
            /\ Listed(other, o) /\ WellPlaced(other, o, as)
            /\ getOrder(other, o) = c \/ Listed(without, o)
        <5>1. Listed(other, o) /\ (getOrder(other, o) = c \/ Listed(without, o))
          BY <1>3, <3>2, <4>1, InsertOrderFinds
        <5>2. other \in ListMaps /\ OthersStay(without, other, o) /\ WellPlaced(other, o, as)
          <6>1. ToldAs(c, as)
            BY <1>8 DEF ToldAs
          <6> QED
            BY <1>3, <3>2, <3>6, <4>1, <6>1, InsertOrderKeeps
        <5> QED
          BY <5>1, <5>2
      <4> QED
        BY <3>6, <4>2
    <3>8. \A m \in Kind : other[m][o] # None => m = "trigger"
      <4> SUFFICES ASSUME NEW m \in Kind, other[m][o] # None, m # "trigger" PROVE FALSE
        OBVIOUS
      <4>1. HasTriggered(other, o)
        BY <1>12, <3>7 DEF WellPlaced, KindsOf, HasTriggered
      <4> QED
        BY <1>12, <2>3, <3>7, <4>1, TriggeredIsFound
    <3>9. \A s, seen : Exact(other, o, s, seen)
      BY <1>5, <3>8 DEF Exact
    <3>10. OthersStay(ls, other, o)
      BY <3>2, <3>7 DEF OthersStay
    <3> QED
      BY <1>12, <3>3, <3>7, <3>9, <3>10 DEF Closing, c
  <2> QED
    BY <2>2, <2>3
<1> QED
  BY <1>10, <1>11, <1>12 DEF Closing

-----------------------------------------------------------------------------
(* updateRestingLimitOrders moves what is taking and rests.                 *)
LEMMA RestingUpdated ==
    ASSUME BookAssumption, lists \in ListMaps, NEW slot \in Int, NEW other,
           other = updateRestingLimitOrders(slot)
    PROVE  /\ other \in ListMaps
           /\ \A k \in Kind \ {"restingLimit", "takingLimit"} : other[k] = lists[k]
           /\ \A o \in Order :
                  /\ other["takingLimit"][o] =
                         IF o \in NowResting(slot) THEN None ELSE lists["takingLimit"][o]
                  /\ IF o \in NowResting(slot) /\ lists["restingLimit"][o] = None
                     THEN /\ other["restingLimit"][o] # None
                          /\ other["restingLimit"][o].order = lists["takingLimit"][o].order
                     ELSE other["restingLimit"][o] = lists["restingLimit"][o]
<1> DEFINE taking  == NotTaking(NowResting(slot))
           resting == [o \in Order |->
                          IF o \in NowResting(slot) /\ lists["restingLimit"][o] = None
                          THEN MovedNode(o) ELSE lists["restingLimit"][o]]
<1>1. other = [lists EXCEPT !["takingLimit"] = taking, !["restingLimit"] = resting]
  BY DEF updateRestingLimitOrders
<1>2. \A o \in NowResting(slot) : MovedNode(o) \in Node /\ MovedNode(o).order = lists["takingLimit"][o].order
                                  /\ MovedNode(o) # None
  <2>1. "takingLimit" \in Kind
    BY DEF Kind
  <2>2. \A o \in NowResting(slot) : o \in Order /\ lists["takingLimit"][o] \in Node
    BY <2>1 DEF NowResting, ListMaps
  <2> QED
    BY <2>2 DEF MovedNode, Node, BookAssumption
<1>3. taking \in [Order -> Node \cup {None}] /\ resting \in [Order -> Node \cup {None}]
  <2>1. "takingLimit" \in Kind /\ "restingLimit" \in Kind
    BY DEF Kind
  <2> QED
    BY <1>2, <2>1 DEF NotTaking, ListMaps
<1>4. /\ \A o \in Order : taking[o] = IF o \in NowResting(slot) THEN None ELSE lists["takingLimit"][o]
      /\ \A o \in Order : resting[o] = IF o \in NowResting(slot) /\ lists["restingLimit"][o] = None
                                       THEN MovedNode(o) ELSE lists["restingLimit"][o]
  BY DEF NotTaking
<1> HIDE DEF taking, resting
<1>5. other \in ListMaps
  BY <1>1, <1>3 DEF ListMaps
<1>6. other["takingLimit"] = taking /\ other["restingLimit"] = resting
      /\ \A k \in Kind \ {"restingLimit", "takingLimit"} : other[k] = lists[k]
  <2>1. "takingLimit" \in Kind /\ "restingLimit" \in Kind
    BY DEF Kind
  <2> QED
    BY <1>1, <2>1 DEF ListMaps
<1> QED
  BY <1>2, <1>4, <1>5, <1>6

LEMMA RestingKeeps ==
    ASSUME BookAssumption, lists \in ListMaps, NEW slot \in Int, maxSlotForRestingLimitOrders \in Int,
           NEW o \in Order, WellPlaced(lists, o, told[o]), NEW other, other = updateRestingLimitOrders(slot)
    PROVE  /\ WellPlaced(other, o, told[o])
           /\ Listed(other, o) <=> Listed(lists, o)
           /\ Listed(lists, o) => getOrder(other, o) = getOrder(lists, o)
           /\ Lingers(lists, o) => Lingers(other, o)
           /\ Remains(lists, o, told[o]) => Remains(other, o, told[o])
           /\ mustBeTriggered(o) /\ HasTriggered(lists, o) => HasTriggered(other, o)
           /\ slot <= maxSlotForRestingLimitOrders => \A k \in Kind : other[k][o] = lists[k][o]
           /\ maxSlotForRestingLimitOrders <= slot /\ Exact(lists, o, slot, maxSlotForRestingLimitOrders) =>
                  Exact(other, o, slot, slot)
           /\ \A s \in Int : slot <= s /\ Exact(lists, o, s, maxSlotForRestingLimitOrders) =>
                  Exact(other, o, s, maxSlotAfter(slot))
<1>1. /\ \A k \in Kind \ {"restingLimit", "takingLimit"} : other[k][o] = lists[k][o]
      /\ other["takingLimit"][o] = IF o \in NowResting(slot) THEN None ELSE lists["takingLimit"][o]
      /\ IF o \in NowResting(slot) /\ lists["restingLimit"][o] = None
         THEN /\ other["restingLimit"][o] # None
              /\ other["restingLimit"][o].order = lists["takingLimit"][o].order
         ELSE other["restingLimit"][o] = lists["restingLimit"][o]
  BY RestingUpdated
<1>2. /\ "restingLimit" \in Kind /\ "takingLimit" \in Kind
      /\ \A k \in Kind : k \in Kind \ {"restingLimit", "takingLimit"} \/ k = "restingLimit" \/ k = "takingLimit"
  BY DEF Kind
<1>3. CASE o \notin NowResting(slot)
  <2>1. \A k \in Kind : other[k][o] = lists[k][o]
    BY <1>1, <1>2, <1>3
  <2>2. maxSlotForRestingLimitOrders <= slot /\ Exact(lists, o, slot, maxSlotForRestingLimitOrders) =>
            Exact(lists, o, slot, slot)
    BY <1>3 DEF NowResting, Exact
  <2>3. \A s \in Int : slot <= s /\ Exact(lists, o, s, maxSlotForRestingLimitOrders) =>
            Exact(lists, o, s, maxSlotAfter(slot))
    BY <1>3 DEF NowResting, Exact, maxSlotAfter
  <2>4. /\ Listed(other, o) <=> Listed(lists, o)
        /\ Listed(lists, o) => getOrder(other, o) = getOrder(lists, o)
        /\ WellPlaced(other, o, told[o]) /\ (Lingers(other, o) <=> Lingers(lists, o))
        /\ Remains(other, o, told[o]) <=> Remains(lists, o, told[o])
        /\ HasTriggered(other, o) <=> HasTriggered(lists, o)
        /\ \A s, seen : Exact(other, o, s, seen) <=> Exact(lists, o, s, seen)
    BY <2>1, SameEntries
  <2> QED
    BY <2>1, <2>2, <2>3, <2>4
<1>4. CASE o \in NowResting(slot)
  <2>1. lists["takingLimit"][o] # None /\ isRestingLimitOrder(o, slot)
    BY <1>4 DEF NowResting
  <2>2. other["takingLimit"][o] = None /\ other["restingLimit"][o] # None
    BY <1>1, <1>4
  <2>3. Listed(other, o) /\ Listed(lists, o)
    BY <1>2, <2>1, <2>2 DEF Listed
  <2>4. getOrder(other, o) = other["restingLimit"][o].order
    BY <2>2, <2>3, Found
  <2>5. getOrder(other, o) = getOrder(lists, o)
    <3>1. CASE lists["restingLimit"][o] # None
      BY <1>1, <2>3, <2>4, <3>1, Found
    <3>2. CASE lists["restingLimit"][o] = None
      <4>1. 2 \in 1 .. 5 /\ \A j \in 1 .. 2 - 1 : j = 1
        OBVIOUS
      <4>2. FirstAt(lists, o, 2)
        BY <2>1, <3>2, <4>1, KindsAreSearched DEF FirstAt
      <4>3. getOrder(lists, o) = lists["takingLimit"][o].order
        BY <4>1, <4>2, FoundAt, KindsAreSearched
      <4> QED
        BY <1>1, <1>4, <2>4, <3>2, <4>3
    <3> QED
      BY <3>1, <3>2
  <2>6. \A k \in Kind : other[k][o] # None =>
            \E m \in Kind : lists[m][o] # None /\ other[k][o].order = lists[m][o].order
                           /\ (m = k \/ (m = "takingLimit" /\ k = "restingLimit"))
    BY <1>1, <1>2, <1>4, <2>1, <2>2
  <2>7. WellPlaced(other, o, told[o])
    <3> SUFFICES ASSUME NEW k \in Kind, other[k][o] # None
                 PROVE  /\ k \in KindsOf(o, other[k][o].order) /\ other[k][o].order.triggered \in told[o]
                        /\ k = "takingLimit" => ~PostOnly[o] /\ AuctionDuration[o] # 0
      BY DEF WellPlaced
    <3>1. PICK m \in Kind : /\ lists[m][o] # None /\ other[k][o].order = lists[m][o].order
                            /\ m = k \/ (m = "takingLimit" /\ k = "restingLimit")
      BY <2>6
    <3>2. /\ m \in KindsOf(o, lists[m][o].order) /\ lists[m][o].order.triggered \in told[o]
          /\ m = "takingLimit" => ~PostOnly[o] /\ AuctionDuration[o] # 0
      BY <3>1 DEF WellPlaced
    <3>3. m = "takingLimit" => "restingLimit" \in KindsOf(o, lists[m][o].order)
      BY <3>2 DEF KindsOf
    <3> QED
      BY <3>1, <3>2, <3>3
  <2>8. ASSUME mustBeTriggered(o), HasTriggered(lists, o) PROVE HasTriggered(other, o)
    <3>1. getOrder(lists, o).triggered
      BY <2>8, TriggeredIsFound
    <3> QED
      BY <1>2, <2>2, <2>4, <2>5, <3>1 DEF HasTriggered
  <2>9. Lingers(lists, o) => Lingers(other, o)
    BY <2>6 DEF Lingers
  <2>10. ~Remains(lists, o, told[o])
    BY <1>2, <2>1 DEF Remains
  <2>11. /\ Exact(other, o, slot, slot)
         /\ slot > maxSlotForRestingLimitOrders /\ maxSlotAfter(slot) = slot
    BY <1>4, <2>1, <2>2 DEF Exact, NowResting, maxSlotAfter
  <2>12. \A s \in Int : slot <= s => Exact(other, o, s, maxSlotAfter(slot))
    BY <2>1, <2>2, RestingStays DEF Exact
  <2>13. ~(slot <= maxSlotForRestingLimitOrders)
    BY <2>11
  <2> QED
    BY <2>3, <2>5, <2>7, <2>8, <2>9, <2>10, <2>11, <2>12, <2>13
<1> QED
  BY <1>3, <1>4

(* A slot that is not older than those before, or on the same side of the   *)
(* end of the auction, finds an order of which this was so before.          *)
LEMMA JudgedRight ==
    ASSUME BookAssumption, lists \in ListMaps, NEW slot \in Int,
           maxSlotForRestingLimitOrders \in Int, newest \in Int, maxSlotForRestingLimitOrders <= newest,
           NEW o \in Order, WellPlaced(lists, o, told[o]),
           Exact(lists, o, newest, maxSlotForRestingLimitOrders),
           Listed(lists, o) => ~Misjudges(o, getOrder(lists, o), slot),
           NEW other, other = updateRestingLimitOrders(slot)
    PROVE  Exact(other, o, slot, slot)
<1>1. /\ "restingLimit" \in Kind /\ "takingLimit" \in Kind
      /\ slot <= maxSlotForRestingLimitOrders => \A k \in Kind : other[k][o] = lists[k][o]
      /\ maxSlotForRestingLimitOrders <= slot /\ Exact(lists, o, slot, maxSlotForRestingLimitOrders) =>
             Exact(other, o, slot, slot)
      /\ Listed(other, o) => Listed(lists, o)
  BY RestingKeeps DEF Kind
<1>2. CASE ~Listed(lists, o)
  BY <1>1, <1>2 DEF Listed, Exact
<1>3. ASSUME isRestingLimitOrder(o, newest) => isRestingLimitOrder(o, slot) PROVE Exact(other, o, slot, slot)
  <2>1. Exact(lists, o, slot, maxSlotForRestingLimitOrders)
    BY <1>3 DEF Exact
  <2>2. CASE maxSlotForRestingLimitOrders <= slot
    BY <1>1, <2>1, <2>2
  <2>3. CASE slot <= maxSlotForRestingLimitOrders
    <3>1. isRestingLimitOrder(o, slot) => isRestingLimitOrder(o, maxSlotForRestingLimitOrders)
      BY <2>3, RestingStays
    <3> QED
      BY <1>1, <2>1, <2>3, <3>1 DEF Exact
  <2> QED
    BY <2>2, <2>3
<1>4. CASE slot >= newest
  BY <1>3, <1>4, RestingStays
<1>5. CASE Listed(lists, o) /\ slot < newest
  <2>1. getListForOrder(o, getOrder(lists, o), slot) = getListForOrder(o, getOrder(lists, o), newest)
    BY <1>5 DEF Misjudges
  <2>2. PICK i \in 1 .. 5 : FirstAt(lists, o, i)
    BY <1>5, FirstExists
  <2>3. PICK k \in Kind : /\ k = KindsInSearchOrder[i] /\ lists[k][o] # None
                          /\ getOrder(lists, o) = lists[k][o].order
    BY <2>2, KindsAreSearched, FoundAt DEF FirstAt
  <2>4. CASE i = 1 \/ i = 2
    <3>1. k = "restingLimit" \/ k = "takingLimit"
      BY <2>3, <2>4, KindsAreSearched
    <3>2. k \in KindsOf(o, getOrder(lists, o))
      BY <2>3 DEF WellPlaced
    <3>3. \A t : getListForOrder(o, getOrder(lists, o), t) =
                 IF isRestingLimitOrder(o, t) THEN "restingLimit" ELSE "takingLimit"
      BY <3>1, <3>2 DEF KindsOf, getListForOrder
    <3>4. isRestingLimitOrder(o, newest) => isRestingLimitOrder(o, slot)
      <4>1. getListForOrder(o, getOrder(lists, o), slot) =
                IF isRestingLimitOrder(o, slot) THEN "restingLimit" ELSE "takingLimit"
        BY <3>3
      <4>2. getListForOrder(o, getOrder(lists, o), newest) =
                IF isRestingLimitOrder(o, newest) THEN "restingLimit" ELSE "takingLimit"
        BY <3>3
      <4> QED
        BY <2>1, <4>1, <4>2
    <3> QED
      BY <1>3, <3>4
  <2>5. CASE ~(i = 1 \/ i = 2)
    <3>1. 1 \in 1 .. i - 1 /\ 2 \in 1 .. i - 1
      BY <2>5
    <3>2. lists["restingLimit"][o] = None /\ lists["takingLimit"][o] = None
      BY <2>2, <3>1, KindsAreSearched DEF FirstAt
    <3>3. other["restingLimit"][o] = None /\ other["takingLimit"][o] = None
      BY <3>2, RestingUpdated DEF NowResting
    <3> QED
      BY <3>3 DEF Exact
  <2> QED
    BY <2>4, <2>5
<1> QED
  BY <1>2, <1>4, <1>5

-----------------------------------------------------------------------------
(* Records.                                                                 *)
OrderRecord  == [action : {"order"}, order : Order]
ActionRecord == [action : {"trigger", "fill", "cancel", "expire"},
                 taker : Order \cup {None}, maker : Order \cup {None},
                 takerFilled : 0 .. Base, makerFilled : 0 .. Base]
LogRecord == OrderRecord \cup ActionRecord

(* The chain fills two different orders, and triggers those that must be.   *)
Sensible(record) ==
    /\ record.taker # None => record.taker # record.maker
    /\ record.action = "trigger" =>
           record.maker = None /\ record.taker \in Order /\ mustBeTriggered(record.taker)

Names(record, o) == o \in {record.taker, record.maker}
FilledIn(record, o) == IF record.taker = o THEN record.takerFilled ELSE record.makerFilled

Same(ls, other, o) == \A k \in Kind : other[k][o] = ls[k][o]

(* What a record with the amount filled does to an order that it names.     *)
Effect(ls, other, record, o, amount, slot) ==
    /\ WellPlaced(other, o, told[o])
    /\ \A s, seen : Exact(ls, o, s, seen) => Exact(other, o, s, seen)
    /\ Listed(other, o) => Listed(ls, o)
    /\ IF Closing(record, amount)
       THEN /\ Lingers(other, o)
            /\ Exact(ls, o, slot, slot) => Remains(other, o, told[o])
       ELSE /\ Listed(ls, o) => Listed(other, o)
            /\ mustBeTriggered(o) /\ HasTriggered(ls, o) => HasTriggered(other, o)
    /\ Listed(ls, o) =>
           /\ record.action = "fill" /\ amount # Base /\ Exact(ls, o, slot, slot) =>
                  getOrder(other, o).filled = amount
           /\ record.action = "trigger" => getOrder(other, o) = getOrder(ls, o)

LEMMA OneHandled ==
    ASSUME BookAssumption, told \in [Order -> SUBSET BOOLEAN],
           NEW ls \in ListMaps, \A p \in Order : WellPlaced(ls, p, told[p]),
           NEW record, record.action \in {"trigger", "fill", "cancel"},
           NEW o \in Order \cup {None}, record.action = "trigger" /\ o # None => mustBeTriggered(o),
           NEW amount \in 0 .. Base, NEW slot \in Int,
           NEW other, other = HandleFor(ls, record, o, amount, slot)
    PROVE  /\ other \in ListMaps /\ \A p \in Order : WellPlaced(other, p, told[p])
           /\ \A p \in Order : p # o => Same(ls, other, p)
           /\ o # None => Effect(ls, other, record, o, amount, slot)
<1>1. CASE o = None \/ ~Listed(ls, o)
  <2>1. other = ls
    BY <1>1 DEF HandleFor
  <2>2. o # None => Lingers(ls, o) /\ Remains(ls, o, told[o])
    BY <1>1 DEF Lingers, Remains, Listed
  <2> QED
    BY <1>1, <2>1, <2>2 DEF Same, Effect
<1>2. CASE o # None /\ Listed(ls, o)
  <2>1. o \in Order /\ told[o] \in SUBSET BOOLEAN /\ WellPlaced(ls, o, told[o])
        /\ (record.action = "trigger" => mustBeTriggered(o))
    BY <1>2
  <2>2. PICK as : as = told[o]
    OBVIOUS
  <2>3. /\ other \in ListMaps /\ OthersStay(ls, other, o) /\ WellPlaced(other, o, as)
        /\ \A s, seen : Exact(ls, o, s, seen) => Exact(other, o, s, seen)
        /\ IF Closing(record, amount)
           THEN /\ Lingers(other, o)
                /\ Exact(ls, o, slot, slot) => Remains(other, o, as)
           ELSE Listed(other, o) /\ (mustBeTriggered(o) /\ HasTriggered(ls, o) => HasTriggered(other, o))
        /\ record.action = "fill" /\ amount # Base /\ Exact(ls, o, slot, slot) =>
               getOrder(other, o).filled = amount
        /\ record.action = "trigger" => getOrder(other, o) = getOrder(ls, o)
    BY <1>2, <2>1, <2>2, HandledKeeps
  <2>4. Effect(ls, other, record, o, amount, slot)
    BY <1>2, <2>2, <2>3 DEF Effect
  <2>5. \A p \in Order : p # o => Same(ls, other, p)
    BY <2>3 DEF OthersStay, Same
  <2>6. \A p \in Order : WellPlaced(other, p, told[p])
    BY <2>2, <2>3, <2>5, SameEntries DEF Same
  <2> QED
    BY <2>3, <2>4, <2>5, <2>6
<1> QED
  BY <1>1, <1>2

LEMMA SameEffect ==
    ASSUME NEW ls, NEW mid, NEW other, NEW record, NEW o, NEW amount, NEW slot
    PROVE  /\ Same(ls, mid, o) /\ Effect(mid, other, record, o, amount, slot) =>
                  Effect(ls, other, record, o, amount, slot)
           /\ Same(mid, other, o) /\ Effect(ls, mid, record, o, amount, slot) =>
                  Effect(ls, other, record, o, amount, slot)
<1>1. ASSUME Same(ls, mid, o), Effect(mid, other, record, o, amount, slot)
      PROVE  Effect(ls, other, record, o, amount, slot)
  <2>1. /\ Listed(mid, o) <=> Listed(ls, o)
        /\ Listed(ls, o) => getOrder(mid, o) = getOrder(ls, o)
        /\ \A s, seen : Exact(mid, o, s, seen) <=> Exact(ls, o, s, seen)
        /\ HasTriggered(mid, o) <=> HasTriggered(ls, o)
    BY <1>1, SameEntries DEF Same
  <2> QED
    BY <1>1, <2>1 DEF Effect
<1>2. ASSUME Same(mid, other, o), Effect(ls, mid, record, o, amount, slot)
      PROVE  Effect(ls, other, record, o, amount, slot)
  <2>1. /\ Listed(other, o) <=> Listed(mid, o)
        /\ Listed(mid, o) => getOrder(other, o) = getOrder(mid, o)
        /\ \A s, seen : Exact(other, o, s, seen) <=> Exact(mid, o, s, seen)
        /\ Lingers(other, o) <=> Lingers(mid, o)
        /\ Remains(other, o, told[o]) <=> Remains(mid, o, told[o])
        /\ HasTriggered(other, o) <=> HasTriggered(mid, o)
        /\ WellPlaced(other, o, told[o]) <=> WellPlaced(mid, o, told[o])
    BY <1>2, SameEntries DEF Same
  <2> QED
    BY <1>2, <2>1 DEF Effect, Closing
<1> QED
  BY <1>1, <1>2

(* The book after a record: what it names has changed as the record says,   *)
(* what it does not name has at most begun to rest.                         *)
LEMMA RecordHandled ==
    ASSUME BookAssumption, told \in [Order -> SUBSET BOOLEAN], lists \in ListMaps, \A p \in Order : WellPlaced(lists, p, told[p]),
           maxSlotForRestingLimitOrders \in Int, NEW slot \in Int,
           NEW record \in ActionRecord, record.action # "expire", Sensible(record),
           NEW other, other = BothHandled(record, slot)
    PROVE  /\ other \in ListMaps
           /\ \A o \in Order :
                  /\ Names(record, o) =>
                         Effect(updateRestingLimitOrders(slot), other, record, o, FilledIn(record, o), slot)
                  /\ ~Names(record, o) => Same(updateRestingLimitOrders(slot), other, o)
<1>1. /\ record.action \in {"trigger", "fill", "cancel"}
      /\ record.taker \in Order \cup {None} /\ record.maker \in Order \cup {None}
      /\ record.takerFilled \in 0 .. Base /\ record.makerFilled \in 0 .. Base
  BY DEF ActionRecord
<1>2. PICK first : first = updateRestingLimitOrders(slot)
  OBVIOUS
<1>3. first \in ListMaps /\ \A p \in Order : WellPlaced(first, p, told[p])
  BY <1>2, RestingUpdated, RestingKeeps
<1>4. record.action = "trigger" /\ record.taker # None => mustBeTriggered(record.taker)
  BY DEF Sensible
<1>5. record.action = "trigger" /\ record.maker # None => mustBeTriggered(record.maker)
  BY DEF Sensible
<1>6. PICK second :
        /\ second = HandleFor(first, record, record.taker, record.takerFilled, slot)
        /\ other = HandleFor(second, record, record.maker, record.makerFilled, slot)
  BY <1>2 DEF BothHandled
<1>7. /\ second \in ListMaps /\ \A p \in Order : WellPlaced(second, p, told[p])
      /\ \A p \in Order : p # record.taker => Same(first, second, p)
      /\ record.taker # None => Effect(first, second, record, record.taker, record.takerFilled, slot)
  <2>1. CASE record.taker = None
    <3>1. second = first
      BY <1>6, <2>1 DEF HandleFor
    <3> QED
      BY <1>3, <2>1, <3>1 DEF Same
  <2>2. CASE record.taker # None
    <3>1. record.taker \in Order /\ (record.action = "trigger" => mustBeTriggered(record.taker))
      BY <1>1, <1>4, <2>2
    <3> QED
      BY <1>1, <1>3, <1>6, <2>2, <3>1, OneHandled
  <2> QED
    BY <2>1, <2>2
<1>8. /\ other \in ListMaps
      /\ \A p \in Order : p # record.maker => Same(second, other, p)
      /\ record.maker # None => Effect(second, other, record, record.maker, record.makerFilled, slot)
  <2>1. CASE record.maker = None
    <3>1. other = second
      BY <1>6, <2>1 DEF HandleFor
    <3> QED
      BY <1>7, <2>1, <3>1 DEF Same
  <2>2. CASE record.maker # None
    <3>1. record.maker \in Order /\ (record.action = "trigger" => mustBeTriggered(record.maker))
      BY <1>1, <1>5, <2>2
    <3> QED
      BY <1>1, <1>6, <1>7, <2>2, <3>1, OneHandled
  <2> QED
    BY <2>1, <2>2
<1>9. ASSUME NEW o \in Order, Names(record, o)
      PROVE  Effect(first, other, record, o, FilledIn(record, o), slot)
  <2>1. o # None
    BY DEF BookAssumption
  <2>2. CASE record.taker = o
    <3>1. record.maker # o /\ FilledIn(record, o) = record.takerFilled
      BY <2>1, <2>2 DEF Sensible, FilledIn
    <3> QED
      BY <1>7, <1>8, <2>1, <2>2, <3>1, SameEffect
  <2>3. CASE record.taker # o
    <3>1. record.maker = o /\ FilledIn(record, o) = record.makerFilled
      BY <1>9, <2>3 DEF Names, FilledIn
    <3> QED
      BY <1>7, <1>8, <2>1, <2>3, <3>1, SameEffect
  <2> QED
    BY <2>2, <2>3
<1>10. ASSUME NEW o \in Order, ~Names(record, o) PROVE Same(first, other, o)
  BY <1>7, <1>8, <1>10 DEF Names, Same
<1> QED
  BY <1>2, <1>8, <1>9, <1>10

-----------------------------------------------------------------------------
(* What the log makes up for.                                               *)
Index == 1 .. Len(log)

IsOrder(o, record) == record.action = "order" /\ record.order = o
IsFill(o, record)  == record.action = "fill" /\ Names(record, o)
Closes(o, record)  == Closing(record, FilledIn(record, o)) /\ Names(record, o)

FillPending(o)  == \E i \in Index : IsFill(o, log[i])
ClosePending(o) == \E i \in Index : Closes(o, log[i]) /\ \A j \in Index : j > i => ~Concerned(o, log[j])

BookTypes ==
    /\ TypeOK /\ setting \in Settings
    /\ maxSlotForRestingLimitOrders <= newest
    /\ log \in Seq(LogRecord)
    /\ \A i \in Index : log[i].action # "order" => Sensible(log[i])

ChainOK(o) ==
    /\ chain[o].status = "absent" => chain[o].filled = 0
    /\ chain[o].status = "open" => chain[o].filled < Base
    /\ chain[o].triggered => mustBeTriggered(o)

(* The records of an order begin with that of its placement and end with    *)
(* the one that closes it; the last fill among them has what is filled.     *)
LogOK(o) ==
    /\ \A i \in Index : Concerned(o, log[i]) => chain[o].status # "absent"
    /\ \A i \in Index : IsOrder(o, log[i]) =>
           /\ \A j \in Index : j < i => ~Concerned(o, log[j])
           /\ FillPending(o) \/ chain[o].filled = 0
    /\ \A i \in Index : Closes(o, log[i]) => chain[o].status = "closed"
    /\ \A i \in Index : IsFill(o, log[i]) /\ (\A j \in Index : j > i => ~IsFill(o, log[j])) =>
           FilledIn(log[i], o) = chain[o].filled

ListOK(o) ==
    /\ WellPlaced(lists, o, told[o])
    /\ o \notin misjudged => Exact(lists, o, newest, maxSlotForRestingLimitOrders)
    /\ told[o] # {} => chain[o].status # "absent"
    /\ TRUE \in told[o] => chain[o].triggered
    /\ told[o] # {} /\ ~setting.overlap => initialized

(* An order that is closed has left, or its last record will remove it; an  *)
(* open one that the book was told of is there, and is filled as the chain  *)
(* says or as the pending fills will say.                                   *)
Known(o) ==
    /\ chain[o].status = "closed" =>
           \/ ClosePending(o)
           \/ UpToDate(o) /\ (Remains(lists, o, told[o]) \/ (o \in misjudged /\ Lingers(lists, o)))
    /\ told[o] # {} /\ Open(o) =>
           /\ Listed(lists, o)
           /\ TRUE \in told[o] => HasTriggered(lists, o)
           /\ o \notin misjudged => FillPending(o) \/ getOrder(lists, o).filled = chain[o].filled

BookIInv == BookTypes /\ \A o \in Order : ChainOK(o) /\ LogOK(o) /\ ListOK(o) /\ Known(o)

-----------------------------------------------------------------------------
(* The chain's steps: one record more.                                      *)
ChainStates == [Order -> [status : {"absent", "open", "closed", "expired"},
                          filled : 0 .. Base, triggered : BOOLEAN]]

LEMMA RecordFacts ==
    ASSUME NEW o, NEW record
    PROVE  /\ IsOrder(o, record) => Concerned(o, record) /\ record.action = "order"
           /\ IsFill(o, record) => Concerned(o, record) /\ record.action = "fill"
           /\ Closes(o, record) => Concerned(o, record) /\ record.action # "order"
           /\ Concerned(o, record) => IsOrder(o, record) \/ (Names(record, o) /\ record.action # "order")
BY DEF IsOrder, IsFill, Closes, Closing, Concerned, Names

(* The step that logs the record, seen from one order.                      *)
Moved(o, record) ==
    /\ chain[o].triggered => chain'[o].triggered
    /\ chain'[o].triggered => chain[o].triggered \/ mustBeTriggered(o)
    /\ \/ ~Concerned(o, record) /\ chain'[o] = chain[o]
       \/ /\ IsOrder(o, record)
          /\ chain[o].status = "absent" /\ chain'[o].status = "open" /\ chain'[o].filled = chain[o].filled
       \/ /\ Names(record, o) /\ record.action # "order" /\ chain[o].status = "open"
          /\ IF record.action = "fill" THEN FilledIn(record, o) = chain'[o].filled
             ELSE chain'[o].filled = chain[o].filled
          /\ \/ chain'[o].status = "open" /\ ~Closes(o, record) /\ chain'[o].filled < Base
             \/ chain'[o].status = "closed" /\ Closes(o, record)
             \/ chain'[o].status = "expired" /\ ~Closes(o, record)

LEMMA LogGrows ==
    ASSUME BookAssumption, NEW o \in Order, NEW record, log \in Seq(LogRecord), record \in LogRecord,
           log' = Append(log, record), Moved(o, record),
           ChainOK(o), LogOK(o), ListOK(o), Known(o),
           UNCHANGED <<setting, book, initialized, history, now>>
    PROVE  ChainOK(o)' /\ LogOK(o)' /\ ListOK(o)' /\ Known(o)'
<1> DEFINE n == Len(log) + 1
<1>1. /\ n \in Nat /\ Index' = Index \cup {n} /\ n \notin Index /\ log'[n] = record
      /\ \A i \in Index : log'[i] = log[i] /\ i \in Nat /\ i < n /\ ~(n < i)
  BY AppendProperties DEF Index
<1>2. /\ \A i \in Index' : i = n \/ i \in Index
      /\ Index \subseteq Index' /\ n \in Index'
  BY <1>1
<1> HIDE DEF n
<1>3. /\ setting' = setting /\ lists' = lists /\ initialized' = initialized /\ told' = told /\ now' = now
      /\ maxSlotForRestingLimitOrders' = maxSlotForRestingLimitOrders
      /\ newest' = newest /\ misjudged' = misjudged
      /\ (chain[o].triggered => chain'[o].triggered) /\ (chain'[o].triggered => mustBeTriggered(o))
  BY DEF book, history, Moved, ChainOK
<1>4. /\ FillPending(o)' <=> FillPending(o) \/ IsFill(o, record)
      /\ ClosePending(o) /\ ~Concerned(o, record) => ClosePending(o)'
      /\ Closes(o, record) => ClosePending(o)'
  <2>1. FillPending(o)' <=> FillPending(o) \/ IsFill(o, record)
    BY <1>1, <1>2 DEF FillPending
  <2>2. ASSUME ClosePending(o), ~Concerned(o, record) PROVE ClosePending(o)'
    <3>1. PICK i \in Index : Closes(o, log[i]) /\ \A j \in Index : j > i => ~Concerned(o, log[j])
      BY <2>2 DEF ClosePending
    <3>2. Closes(o, log'[i]) /\ \A j \in Index' : j > i => ~Concerned(o, log'[j])
      BY <1>1, <1>2, <2>2, <3>1
    <3> QED
      BY <1>2, <3>2 DEF ClosePending
  <2>3. ASSUME Closes(o, record) PROVE ClosePending(o)'
    <3>1. Closes(o, log'[n]) /\ \A j \in Index' : j > n => ~Concerned(o, log'[j])
      BY <1>1, <1>2, <2>3
    <3> QED
      BY <1>2, <3>1 DEF ClosePending
  <2> QED
    BY <2>1, <2>2, <2>3
<1>5. ASSUME chain'[o].status # "absent" \/ chain'[o] = chain[o]
      PROVE  ListOK(o)'
  <2>1. TRUE \in told'[o] => chain'[o].triggered
    BY <1>3 DEF ListOK
  <2>2. told'[o] # {} => chain'[o].status # "absent"
    BY <1>3, <1>5 DEF ListOK
  <2>3. WellPlaced(lists', o, told'[o])
    BY <1>3 DEF ListOK
  <2>4. o \notin misjudged' => Exact(lists', o, newest', maxSlotForRestingLimitOrders')
    BY <1>3 DEF ListOK
  <2>5. told'[o] # {} /\ ~setting'.overlap => initialized'
    BY <1>3 DEF ListOK
  <2> QED
    BY <2>1, <2>2, <2>3, <2>4, <2>5 DEF ListOK
<1>6. CASE ~Concerned(o, record) /\ chain'[o] = chain[o]
  <2>1. ~IsOrder(o, record) /\ ~IsFill(o, record) /\ ~Closes(o, record)
    BY <1>6, RecordFacts
  <2>2. LogOK(o)'
    BY <1>1, <1>2, <1>4, <1>6, <2>1 DEF LogOK
  <2>3. UpToDate(o) => UpToDate(o)'
    BY <1>1, <1>2, <1>6 DEF UpToDate, Index
  <2>4. ListOK(o)'
    BY <1>6, <1>5
  <2>5. Known(o)'
    BY <1>3, <1>4, <1>6, <2>1, <2>3 DEF Known, Open
  <2> QED
    BY <1>3, <1>6, <2>2, <2>4, <2>5 DEF ChainOK
<1>7. CASE /\ IsOrder(o, record)
           /\ chain[o].status = "absent" /\ chain'[o].status = "open" /\ chain'[o].filled = chain[o].filled
  <2>1. \A i \in Index : ~Concerned(o, log[i])
    BY <1>7 DEF LogOK
  <2>2. ~IsFill(o, record) /\ ~Closes(o, record)
    BY <1>7, RecordFacts
  <2>3. \A i \in Index : ~IsOrder(o, log[i]) /\ ~IsFill(o, log[i]) /\ ~Closes(o, log[i])
    BY <2>1, RecordFacts
  <2>4. chain'[o].filled = 0
    BY <1>7 DEF ChainOK
  <2>5. LogOK(o)'
    <3>1. \A i \in Index' : ~IsFill(o, log'[i]) /\ ~Closes(o, log'[i])
      BY <1>1, <1>2, <2>2, <2>3
    <3>2. \A i \in Index' : IsOrder(o, log'[i]) => \A j \in Index' : j < i => ~Concerned(o, log'[j])
      <4> SUFFICES ASSUME NEW i \in Index', IsOrder(o, log'[i]), NEW j \in Index', j < i
                   PROVE  ~Concerned(o, log'[j])
        OBVIOUS
      <4>1. i = n
        BY <1>1, <1>2, <2>3
      <4>2. j \in Index
        BY <1>1, <1>2, <4>1
      <4> QED
        BY <1>1, <2>1, <4>2
    <3> QED
      BY <1>7, <2>4, <3>1, <3>2 DEF LogOK
  <2>6. told[o] = {}
    BY <1>7 DEF ListOK
  <2>7. ListOK(o)' /\ Known(o)'
    BY <1>3, <1>5, <1>7, <2>6 DEF Known
  <2>8. ChainOK(o)'
    BY <1>3, <1>7, <2>4 DEF ChainOK, BookAssumption
  <2> QED
    BY <2>5, <2>7, <2>8
<1>8. CASE /\ Names(record, o) /\ record.action # "order" /\ chain[o].status = "open"
           /\ IF record.action = "fill" THEN FilledIn(record, o) = chain'[o].filled
              ELSE chain'[o].filled = chain[o].filled
           /\ \/ chain'[o].status = "open" /\ ~Closes(o, record) /\ chain'[o].filled < Base
              \/ chain'[o].status = "closed" /\ Closes(o, record)
              \/ chain'[o].status = "expired" /\ ~Closes(o, record)
  <2>1. ~IsOrder(o, record) /\ (IsFill(o, record) <=> record.action = "fill")
    BY <1>8 DEF IsOrder, IsFill
  <2>2. \A i \in Index : ~Closes(o, log[i])
    BY <1>8 DEF LogOK
  <2>3. /\ chain'[o].status # "absent" /\ (Closes(o, record) => chain'[o].status = "closed")
        /\ IsFill(o, record) => FilledIn(record, o) = chain'[o].filled
        /\ ~IsFill(o, record) => chain'[o].filled = chain[o].filled
    BY <1>8, <2>1
  <2>4. LogOK(o)'
    <3>1. \A i \in Index' : Concerned(o, log'[i]) => chain'[o].status # "absent"
      BY <2>3
    <3>2. \A i \in Index' : IsOrder(o, log'[i]) =>
              /\ \A j \in Index' : j < i => ~Concerned(o, log'[j])
              /\ FillPending(o)' \/ chain'[o].filled = 0
      BY <1>1, <1>2, <1>4, <2>1, <2>3 DEF LogOK
    <3>3. \A i \in Index' : Closes(o, log'[i]) => chain'[o].status = "closed"
      BY <1>1, <1>2, <2>2, <2>3
    <3>4. \A i \in Index' : IsFill(o, log'[i]) /\ (\A j \in Index' : j > i => ~IsFill(o, log'[j])) =>
              FilledIn(log'[i], o) = chain'[o].filled
      <4> SUFFICES ASSUME NEW i \in Index', IsFill(o, log'[i]), \A j \in Index' : j > i => ~IsFill(o, log'[j])
                   PROVE  FilledIn(log'[i], o) = chain'[o].filled
        OBVIOUS
      <4>1. CASE i = n
        BY <1>1, <2>3, <4>1
      <4>2. CASE i \in Index
        <5>1. ~IsFill(o, record)
          BY <1>1, <1>2, <4>2
        <5>2. \A j \in Index : j > i => ~IsFill(o, log[j])
          BY <1>1, <1>2, <4>2
        <5> QED
          BY <1>1, <2>3, <4>2, <5>1, <5>2 DEF LogOK
      <4> QED
        BY <1>2, <4>1, <4>2
    <3> QED
      BY <3>1, <3>2, <3>3, <3>4 DEF LogOK
  <2>5. ListOK(o)'
    BY <1>5, <2>3
  <2>6. Known(o)'
    BY <1>3, <1>4, <1>8, <2>3 DEF Known, Open
  <2> QED
    BY <1>3, <1>8, <2>4, <2>5, <2>6 DEF ChainOK
<1> QED
  BY <1>6, <1>7, <1>8 DEF Moved

LEMMA Grows ==
    ASSUME BookAssumption, BookIInv, NEW record \in LogRecord, record.action # "order" => Sensible(record),
           log' = Append(log, record), chain' \in ChainStates, \A o \in Order : Moved(o, record),
           UNCHANGED <<setting, book, initialized, history, now>>
    PROVE  BookIInv'
<1>1. log \in Seq(LogRecord) /\ log' \in Seq(LogRecord)
  BY AppendProperties DEF BookIInv, BookTypes
<1>2. \A i \in Index' : log'[i].action # "order" => Sensible(log'[i])
  <2>1. \A i \in Index' : IF i \in Index THEN log'[i] = log[i] ELSE log'[i] = record
    BY <1>1, AppendProperties DEF Index
  <2> QED
    BY <2>1 DEF BookIInv, BookTypes
<1>3. BookTypes'
  BY <1>1, <1>2 DEF BookIInv, BookTypes, TypeOK, ChainStates, book, history
<1>4. ASSUME NEW o \in Order PROVE ChainOK(o)' /\ LogOK(o)' /\ ListOK(o)' /\ Known(o)'
  BY <1>1, LogGrows DEF BookIInv
<1> QED
  BY <1>3, <1>4 DEF BookIInv

LEMMA RecordMade ==
    ASSUME BookAssumption, NEW action \in {"trigger", "fill", "cancel", "expire"},
           NEW taker \in Order \cup {None}, NEW maker \in Order \cup {None}, NEW after \in ChainStates,
           NEW record, record = Record(action, taker, maker, after)
    PROVE  /\ record \in LogRecord
           /\ record.action = action /\ record.taker = taker /\ record.maker = maker
           /\ \A o \in Order : /\ Names(record, o) <=> o = taker \/ o = maker
                               /\ Names(record, o) => FilledIn(record, o) = after[o].filled
                               /\ Concerned(o, record) <=> Names(record, o)
<1>1. /\ record.action = action /\ record.taker = taker /\ record.maker = maker
      /\ record.takerFilled = IF taker = None THEN 0 ELSE after[taker].filled
      /\ record.makerFilled = IF maker = None THEN 0 ELSE after[maker].filled
  BY DEF Record
<1>2. /\ taker # None => after[taker].filled \in 0 .. Base
      /\ maker # None => after[maker].filled \in 0 .. Base
      /\ 0 \in 0 .. Base
  BY DEF ChainStates, BookAssumption
<1>3. record \in ActionRecord
  BY <1>1, <1>2 DEF ActionRecord, Record
<1>4. None \notin Order
  BY DEF BookAssumption
<1> QED
  BY <1>1, <1>3, <1>4 DEF LogRecord, Names, FilledIn, Concerned

LEMMA PlaceKeeps ==
    ASSUME BookAssumption, BookIInv, NEW p \in Order, Place(p)
    PROVE  BookIInv'
<1> DEFINE record == [action |-> "order", order |-> p]
<1>1. record \in OrderRecord /\ record.action = "order" /\ record.order = p
  BY DEF OrderRecord
<1>2. log' = Append(log, record) /\ chain' = [chain EXCEPT ![p].status = "open"]
      /\ chain[p].status = "absent"
      /\ UNCHANGED <<setting, book, initialized, history, now>>
  BY DEF Place
<1> HIDE DEF record
<1>3. chain \in ChainStates
  BY DEF BookIInv, BookTypes, TypeOK, ChainStates
<1>4. /\ chain' \in ChainStates
      /\ chain'[p].status = "open" /\ chain'[p].filled = chain[p].filled
      /\ chain'[p].triggered = chain[p].triggered
      /\ \A o \in Order : o # p => chain'[o] = chain[o]
  BY <1>2, <1>3 DEF ChainStates
<1>5. \A o \in Order : Moved(o, record)
  BY <1>1, <1>2, <1>4 DEF Moved, Concerned, IsOrder
<1>6. record \in LogRecord
  BY <1>1 DEF LogRecord
<1> QED
  BY <1>1, <1>2, <1>4, <1>5, <1>6, Grows

(* An order that is open is triggered, cancelled or expires.                *)
LEMMA OneMoves ==
    ASSUME BookAssumption, BookIInv, NEW p \in Order, chain[p].status = "open",
           NEW action \in {"trigger", "cancel", "expire"}, action = "trigger" => mustBeTriggered(p),
           NEW taker \in {p, None}, NEW maker \in {p, None}, taker # maker, action = "trigger" => maker = None,
           log' = Append(log, Record(action, taker, maker, chain')),
           chain' \in ChainStates, chain'[p].filled = chain[p].filled,
           chain[p].triggered => chain'[p].triggered,
           chain'[p].triggered => chain[p].triggered \/ action = "trigger",
           \A o \in Order : o # p => chain'[o] = chain[o],
           chain'[p].status = CASE action = "trigger" -> "open" [] action = "cancel" -> "closed"
                                [] action = "expire" -> "expired",
           UNCHANGED <<setting, book, initialized, history, now>>
    PROVE  BookIInv'
<1>1. PICK record, after : after = chain' /\ record = Record(action, taker, maker, after)
  OBVIOUS
<1>2. taker \in Order \cup {None} /\ maker \in Order \cup {None} /\ p # None
  BY DEF BookAssumption
<1>3. /\ record \in LogRecord
      /\ record.action = action /\ record.taker = taker /\ record.maker = maker
      /\ \A o \in Order : Names(record, o) <=> o = taker \/ o = maker
      /\ \A o \in Order : Concerned(o, record) <=> Names(record, o)
  <2>1. action \in {"trigger", "fill", "cancel", "expire"} /\ after \in ChainStates
    BY <1>1
  <2> QED
    BY <1>1, <1>2, <2>1, RecordMade
<1>4. \/ taker = p /\ maker = None
      \/ taker = None /\ maker = p
  OBVIOUS
<1>5. \A o \in Order : Names(record, o) <=> o = p
  <2>1. None \notin Order
    BY DEF BookAssumption
  <2> QED
    BY <1>3, <1>4, <2>1
<1>6. Closes(p, record) <=> action = "cancel"
  BY <1>3, <1>5 DEF Closes, Closing
<1>7. chain[p].filled < Base
  BY DEF BookIInv, ChainOK
<1>8. Moved(p, record)
  <2>1. record.action # "order" /\ record.action # "fill" /\ Names(record, p)
    BY <1>3, <1>5
  <2>2. \/ chain'[p].status = "open" /\ ~Closes(p, record)
        \/ chain'[p].status = "closed" /\ Closes(p, record)
        \/ chain'[p].status = "expired" /\ ~Closes(p, record)
    BY <1>6
  <2>3. /\ chain[p].triggered => chain'[p].triggered
        /\ chain'[p].triggered => chain[p].triggered \/ mustBeTriggered(p)
    OBVIOUS
  <2> QED
    BY <1>7, <2>1, <2>2, <2>3 DEF Moved
<1>9. \A o \in Order : o # p => Moved(o, record)
  BY <1>3, <1>5 DEF Moved
<1>10. Sensible(record)
  BY <1>2, <1>3, <1>4 DEF Sensible
<1> QED
  BY <1>1, <1>3, <1>8, <1>9, <1>10, Grows

LEMMA TriggerKeeps ==
    ASSUME BookAssumption, BookIInv, NEW p \in Order, TriggerOnChain(p)
    PROVE  BookIInv'
<1>1. /\ chain[p].status = "open" /\ mustBeTriggered(p)
      /\ chain' = [chain EXCEPT ![p].triggered = TRUE]
      /\ log' = Append(log, Record("trigger", p, None, chain'))
      /\ UNCHANGED <<setting, book, initialized, history, now>>
  BY DEF TriggerOnChain, Open
<1>2. chain \in ChainStates /\ p # None
  BY DEF BookIInv, BookTypes, TypeOK, ChainStates, BookAssumption
<1>3. /\ chain' \in ChainStates /\ chain'[p].status = "open" /\ chain'[p].filled = chain[p].filled
      /\ chain'[p].triggered = TRUE
      /\ \A o \in Order : o # p => chain'[o] = chain[o]
  <2> DEFINE yes == TRUE
             new == [chain[p] EXCEPT !.triggered = yes]
  <2>1. yes \in BOOLEAN /\ chain' = [chain EXCEPT ![p] = new]
    BY <1>1
  <2> HIDE DEF yes
  <2>2. /\ new \in [status : {"absent", "open", "closed", "expired"}, filled : 0 .. Base, triggered : BOOLEAN]
        /\ new.status = chain[p].status /\ new.filled = chain[p].filled /\ new.triggered = yes
    BY <1>2, <2>1 DEF ChainStates
  <2>3. yes = TRUE
    BY DEF yes
  <2> HIDE DEF new
  <2> QED
    BY <1>1, <1>2, <2>1, <2>2, <2>3 DEF ChainStates
<1> QED
  BY <1>1, <1>2, <1>3, OneMoves

LEMMA EndKeeps ==
    ASSUME BookAssumption, BookIInv, NEW p \in Order, CancelOnChain(p) \/ ExpireOnChain(p)
    PROVE  BookIInv'
<1>1. PICK action \in {"cancel", "expire"}, taker \in {p, None}, maker \in {p, None} :
        /\ chain[p].status = "open" /\ taker # maker
        /\ log' = Append(log, Record(action, taker, maker, chain'))
        /\ chain' = [chain EXCEPT ![p].status = IF action = "cancel" THEN "closed" ELSE "expired"]
        /\ UNCHANGED <<setting, book, initialized, history, now>>
  <2>1. p # None
    BY DEF BookAssumption
  <2>2. CASE CancelOnChain(p)
    BY <2>1, <2>2 DEF CancelOnChain, Open
  <2>3. CASE ExpireOnChain(p)
    BY <2>1, <2>3 DEF ExpireOnChain, Open
  <2> QED
    BY <2>2, <2>3
<1>2. chain \in ChainStates
  BY DEF BookIInv, BookTypes, TypeOK, ChainStates
<1>3. /\ chain' \in ChainStates /\ chain'[p].filled = chain[p].filled
      /\ chain'[p].triggered = chain[p].triggered
      /\ chain'[p].status = IF action = "cancel" THEN "closed" ELSE "expired"
      /\ \A o \in Order : o # p => chain'[o] = chain[o]
  BY <1>1, <1>2 DEF ChainStates
<1> QED
  BY <1>1, <1>3, OneMoves

(* A unit more for one order or for two.                                    *)
LEMMA FillKeeps ==
    ASSUME BookAssumption, BookIInv, NEW taker \in Order, NEW maker \in Order \cup {None},
           FillOnChain(taker, maker)
    PROVE  BookIInv'
<1>1. /\ taker # maker
      /\ chain' = [o \in Order |-> IF o \in {taker, maker} THEN OneUnit(chain[o]) ELSE chain[o]]
      /\ log' = Append(log, Record("fill", taker, maker, chain'))
      /\ UNCHANGED <<setting, book, initialized, history, now>>
  BY DEF FillOnChain
<1>2. None \notin Order /\ Base \in Nat
  BY DEF BookAssumption
<1>3. \A o \in Order : o = taker \/ o = maker => chain[o].status = "open" /\ chain[o].filled < Base
  BY <1>2 DEF FillOnChain, Active, Open, BookIInv, ChainOK
<1>4. ASSUME NEW o \in Order, o = taker \/ o = maker
      PROVE  /\ chain'[o] = OneUnit(chain[o])
             /\ chain'[o] \in [status : {"absent", "open", "closed", "expired"},
                               filled : 0 .. Base, triggered : BOOLEAN]
             /\ chain'[o].triggered = chain[o].triggered
             /\ \/ chain'[o].status = "open" /\ chain'[o].filled < Base
                \/ chain'[o].status = "closed" /\ chain'[o].filled = Base
  <2>1. chain'[o] = OneUnit(chain[o])
    BY <1>1, <1>4
  <2>2. /\ chain[o] \in [status : {"absent", "open", "closed", "expired"},
                         filled : 0 .. Base, triggered : BOOLEAN]
        /\ chain[o].filled < Base
    BY <1>3, <1>4 DEF BookIInv, BookTypes, TypeOK
  <2>3. chain[o].filled + 1 \in 0 .. Base /\ (chain[o].filled + 1 # Base => chain[o].filled + 1 < Base)
    BY <1>2, <2>2
  <2> QED
    BY <2>1, <2>2, <2>3 DEF OneUnit
<1>5. \A o \in Order : ~(o = taker \/ o = maker) => chain'[o] = chain[o]
  BY <1>1
<1>6. chain \in ChainStates
  BY DEF BookIInv, BookTypes, TypeOK, ChainStates
<1>7. chain' \in ChainStates
  BY <1>1, <1>4, <1>5, <1>6 DEF ChainStates
<1>8. PICK record, after : after = chain' /\ record = Record("fill", taker, maker, after)
  OBVIOUS
<1>9. /\ record \in LogRecord
      /\ record.action = "fill" /\ record.taker = taker /\ record.maker = maker
      /\ \A o \in Order : /\ Names(record, o) <=> o = taker \/ o = maker
                          /\ Names(record, o) => FilledIn(record, o) = after[o].filled
                          /\ Concerned(o, record) <=> Names(record, o)
  <2>1. "fill" \in {"trigger", "fill", "cancel", "expire"} /\ after \in ChainStates
    BY <1>7, <1>8
  <2> QED
    BY <1>8, <2>1, RecordMade
<1>10. Sensible(record)
  BY <1>1, <1>9 DEF Sensible
<1>11. ASSUME NEW o \in Order PROVE Moved(o, record)
  <2>1. CASE Names(record, o)
    <3>1. FilledIn(record, o) = chain'[o].filled /\ (o = taker \/ o = maker)
      BY <1>8, <1>9, <2>1
    <3>2. Closes(o, record) <=> chain'[o].filled = Base
      BY <1>9, <2>1, <3>1 DEF Closes, Closing
    <3> QED
      BY <1>2, <1>3, <1>4, <1>9, <2>1, <3>1, <3>2 DEF Moved
  <2>2. CASE ~Names(record, o)
    BY <1>5, <1>9, <2>2 DEF Moved
  <2> QED
    BY <2>1, <2>2
<1> QED
  BY <1>1, <1>7, <1>8, <1>9, <1>10, <1>11, Grows

LEMMA AdvanceKeeps ==
    ASSUME BookAssumption, BookIInv, AdvanceSlot
    PROVE  BookIInv'
<1>1. /\ now' \in 1 .. MaxSlot
      /\ setting' = setting /\ lists' = lists /\ initialized' = initialized /\ told' = told
      /\ newest' = newest /\ misjudged' = misjudged
      /\ chain' = chain /\ log' = log /\ maxSlotForRestingLimitOrders' = maxSlotForRestingLimitOrders
  BY DEF AdvanceSlot, BookIInv, BookTypes, TypeOK, book, history, BookAssumption
<1>2. BookTypes'
  <2>1. TypeOK'
    BY <1>1 DEF BookIInv, BookTypes, TypeOK
  <2>2. \A i \in Index' : log'[i].action # "order" => Sensible(log'[i])
    BY <1>1 DEF BookIInv, BookTypes, Index
  <2> QED
    BY <1>1, <2>1, <2>2 DEF BookIInv, BookTypes
<1>3. ASSUME NEW o \in Order PROVE ChainOK(o)' /\ LogOK(o)' /\ ListOK(o)' /\ Known(o)'
  <2>1. ChainOK(o) /\ LogOK(o) /\ ListOK(o) /\ Known(o)
    BY DEF BookIInv
  <2>2. /\ FillPending(o)' <=> FillPending(o)
        /\ ClosePending(o)' <=> ClosePending(o)
        /\ UpToDate(o)' <=> UpToDate(o)
    BY <1>1 DEF FillPending, ClosePending, UpToDate, Index
  <2>3. ChainOK(o)' /\ LogOK(o)'
    BY <1>1, <2>1, <2>2 DEF ChainOK, LogOK, Index
  <2>4. ListOK(o)'
    BY <1>1, <2>1 DEF ListOK
  <2>5. Known(o)'
    BY <1>1, <2>1, <2>2 DEF Known, Open
  <2> QED
    BY <2>3, <2>4, <2>5
<1> QED
  BY <1>2, <1>3 DEF BookIInv

-----------------------------------------------------------------------------
(* The book's steps: the oldest record is handled, or none.                 *)
LEMMA LogShrinks ==
    ASSUME log \in Seq(LogRecord), log # <<>>, log' = Tail(log), chain' = chain, setting' = setting,
           NEW o \in Order, ChainOK(o), LogOK(o)
    PROVE  /\ ChainOK(o)' /\ LogOK(o)'
           /\ FillPending(o) => FillPending(o)' \/ IsFill(o, Head(log))
           /\ FillPending(o)' => FillPending(o)
           /\ ClosePending(o) => ClosePending(o)' \/ (Closes(o, Head(log)) /\ UpToDate(o)')
           /\ UpToDate(o) => UpToDate(o)' /\ ~Concerned(o, Head(log))
           /\ Concerned(o, Head(log)) => chain[o].status # "absent"
           /\ Closes(o, Head(log)) => chain[o].status = "closed"
           /\ IsFill(o, Head(log)) => FillPending(o)' \/ FilledIn(Head(log), o) = chain[o].filled
           /\ IsOrder(o, Head(log)) => FillPending(o)' \/ chain[o].filled = 0
<1>1. /\ Len(log) \in Nat /\ 1 \in Index /\ Head(log) = log[1] /\ Index' = 1 .. Len(log) - 1
      /\ \A i \in Index' : log'[i] = log[i + 1] /\ i + 1 \in Index /\ i \in Nat
  BY HeadTailProperties DEF Index
<1>2. /\ \A k \in Index : k = 1 \/ (k - 1 \in Index' /\ k = (k - 1) + 1)
      /\ \A i \in Index' : 1 < i + 1
      /\ \A i, j \in Index' : (i + 1 < j + 1 <=> i < j) /\ (i + 1 > j + 1 <=> i > j)
  BY <1>1 DEF Index
<1>3. \A P \in {log[k] : k \in Index} : P = Head(log) \/ \E i \in Index' : P = log'[i]
  BY <1>1, <1>2
<1>4. /\ FillPending(o) => FillPending(o)' \/ IsFill(o, Head(log))
      /\ FillPending(o)' => FillPending(o)
  BY <1>1, <1>3 DEF FillPending
<1>5. UpToDate(o) => UpToDate(o)' /\ ~Concerned(o, Head(log))
  BY <1>1 DEF UpToDate, Index
<1>6. ASSUME ClosePending(o) PROVE ClosePending(o)' \/ (Closes(o, Head(log)) /\ UpToDate(o)')
  <2>1. PICK k \in Index : Closes(o, log[k]) /\ \A j \in Index : j > k => ~Concerned(o, log[j])
    BY <1>6 DEF ClosePending
  <2>2. CASE k = 1
    <3>1. \A i \in Index' : ~Concerned(o, log'[i])
      BY <1>1, <1>2, <2>1, <2>2
    <3> QED
      BY <1>1, <2>1, <2>2, <3>1 DEF UpToDate, Index
  <2>3. CASE k # 1
    <3>1. k - 1 \in Index' /\ log'[k - 1] = log[k]
      BY <1>1, <1>2, <2>3
    <3>2. \A j \in Index' : j > k - 1 => ~Concerned(o, log'[j])
      <4> SUFFICES ASSUME NEW j \in Index', j > k - 1 PROVE ~Concerned(o, log'[j])
        OBVIOUS
      <4>1. j \in Int /\ k \in Int
        BY <1>1 DEF Index
      <4>2. j + 1 > k
        BY <4>1
      <4> QED
        BY <1>1, <2>1, <4>2
    <3> QED
      BY <2>1, <3>1, <3>2 DEF ClosePending
  <2> QED
    BY <2>2, <2>3
<1>7. IsFill(o, Head(log)) => FillPending(o)' \/ FilledIn(Head(log), o) = chain[o].filled
  <2> SUFFICES ASSUME IsFill(o, Head(log)), ~FillPending(o)'
               PROVE  FilledIn(Head(log), o) = chain[o].filled
    OBVIOUS
  <2>1. \A j \in Index : j > 1 => ~IsFill(o, log[j])
    <3> SUFFICES ASSUME NEW j \in Index, j > 1 PROVE ~IsFill(o, log[j])
      OBVIOUS
    <3>1. j - 1 \in Index' /\ log'[j - 1] = log[j]
      BY <1>1, <1>2
    <3> QED
      BY <3>1 DEF FillPending
  <2> QED
    BY <1>1, <2>1 DEF LogOK
<1>8. ASSUME IsOrder(o, Head(log)) PROVE FillPending(o)' \/ chain[o].filled = 0
  <2>1. ~IsFill(o, Head(log))
    BY <1>8, RecordFacts
  <2> QED
    BY <1>1, <1>4, <1>8, <2>1 DEF LogOK
<1>9. LogOK(o)'
  <2>1. /\ \A i \in Index' : Concerned(o, log'[i]) => chain[o].status # "absent"
        /\ \A i \in Index' : Closes(o, log'[i]) => chain[o].status = "closed"
    BY <1>1 DEF LogOK
  <2>2. ASSUME NEW i \in Index', IsOrder(o, log'[i])
        PROVE  /\ \A j \in Index' : j < i => ~Concerned(o, log'[j])
               /\ FillPending(o)' \/ chain[o].filled = 0
    <3>1. /\ \A j \in Index : j < i + 1 => ~Concerned(o, log[j])
          /\ FillPending(o) \/ chain[o].filled = 0
      BY <1>1, <2>2 DEF LogOK
    <3>2. ~Concerned(o, Head(log))
      BY <1>1, <1>2, <3>1
    <3>3. ~IsFill(o, Head(log))
      BY <3>2, RecordFacts
    <3>4. \A j \in Index' : j < i => ~Concerned(o, log'[j])
      BY <1>1, <1>2, <3>1
    <3> QED
      BY <1>4, <3>1, <3>3, <3>4
  <2>3. ASSUME NEW i \in Index', IsFill(o, log'[i]), \A j \in Index' : j > i => ~IsFill(o, log'[j])
        PROVE  FilledIn(log'[i], o) = chain[o].filled
    <3>1. \A j \in Index : j > i + 1 => ~IsFill(o, log[j])
      <4> SUFFICES ASSUME NEW j \in Index, j > i + 1 PROVE ~IsFill(o, log[j])
        OBVIOUS
      <4>1. j # 1 /\ j \in Int /\ i \in Int
        BY <1>1 DEF Index
      <4>2. j - 1 \in Index' /\ log'[j - 1] = log[j]
        BY <1>1, <1>2, <4>1
      <4>3. j - 1 > i
        BY <4>1
      <4> QED
        BY <2>3, <4>2, <4>3
    <3> QED
      BY <1>1, <2>3, <3>1 DEF LogOK
  <2> QED
    BY <2>1, <2>2, <2>3 DEF LogOK
<1>10. /\ Concerned(o, Head(log)) => chain[o].status # "absent"
       /\ Closes(o, Head(log)) => chain[o].status = "closed"
  BY <1>1 DEF LogOK
<1> QED
  BY <1>4, <1>5, <1>6, <1>7, <1>8, <1>9, <1>10 DEF ChainOK

LEMMA SlotFacts ==
    ASSUME BookAssumption, BookIInv, NEW slot \in CallSlot
    PROVE  /\ slot \in Int /\ maxSlotForRestingLimitOrders \in Int /\ newest \in Int
           /\ maxSlotForRestingLimitOrders <= newest
           /\ maxSlotForRestingLimitOrders \in 0 .. MaxSlot /\ newest \in 0 .. MaxSlot
           /\ maxSlotAfter(slot) \in 0 .. MaxSlot /\ newestAfter(slot) \in 0 .. MaxSlot
           /\ newestAfter(slot) \in Int /\ newest <= newestAfter(slot) /\ slot <= newestAfter(slot)
           /\ maxSlotForRestingLimitOrders <= newestAfter(slot) /\ maxSlotAfter(slot) <= newestAfter(slot)
<1>1. /\ newest \in 0 .. MaxSlot /\ maxSlotForRestingLimitOrders \in 0 .. MaxSlot /\ MaxSlot \in Nat
      /\ maxSlotForRestingLimitOrders <= newest
  BY DEF BookIInv, BookTypes, TypeOK, BookAssumption
<1>2. slot \in 1 .. MaxSlot
  BY DEF CallSlot
<1> QED
  BY <1>1, <1>2 DEF maxSlotAfter, newestAfter

(* An order whose entries are what they were, or have begun to rest, and    *)
(* none of whose records was handled.                                       *)
Kept(o) ==
    /\ WellPlaced(lists', o, told[o])
    /\ o \in misjudged => o \in misjudged'
    /\ o \notin misjudged' => Exact(lists', o, newest', maxSlotForRestingLimitOrders')
    /\ Listed(lists', o) <=> Listed(lists, o)
    /\ Listed(lists, o) => getOrder(lists', o) = getOrder(lists, o)
    /\ Lingers(lists, o) => Lingers(lists', o)
    /\ Remains(lists, o, told[o]) => Remains(lists', o, told[o])
    /\ mustBeTriggered(o) /\ HasTriggered(lists, o) => HasTriggered(lists', o)

NotHandled(o) ==
    /\ FillPending(o)' <=> FillPending(o)
    /\ ClosePending(o) => ClosePending(o)'
    /\ UpToDate(o) => UpToDate(o)'

LEMMA KeptOK ==
    ASSUME NEW o \in Order, Kept(o), NotHandled(o), ChainOK(o), ListOK(o), Known(o),
           chain' = chain, setting' = setting, told'[o] = told[o], initialized => initialized'
    PROVE  ListOK(o)' /\ Known(o)'
<1>1. ListOK(o)'
  BY DEF ListOK, Kept
<1>2. TRUE \in told[o] => mustBeTriggered(o)
  BY DEF ListOK, ChainOK
<1>3. Known(o)'
  BY <1>2 DEF Known, Kept, NotHandled, Open
<1> QED
  BY <1>1, <1>3

LEMMA EntriesKept ==
    ASSUME NEW o \in Order, \A k \in Kind : lists'[k][o] = lists[k][o], ListOK(o),
           o \in misjudged' <=> o \in misjudged,
           o \notin misjudged => Exact(lists, o, newest', maxSlotForRestingLimitOrders')
    PROVE  Kept(o)
<1>1. PICK other : other = lists'
  OBVIOUS
<1>2. /\ Listed(other, o) <=> Listed(lists, o)
      /\ Listed(lists, o) => getOrder(other, o) = getOrder(lists, o)
      /\ WellPlaced(other, o, told[o]) <=> WellPlaced(lists, o, told[o])
      /\ \A s, seen : Exact(other, o, s, seen) <=> Exact(lists, o, s, seen)
      /\ Lingers(other, o) <=> Lingers(lists, o)
      /\ Remains(other, o, told[o]) <=> Remains(lists, o, told[o])
      /\ HasTriggered(other, o) <=> HasTriggered(lists, o)
  BY <1>1, SameEntries
<1> QED
  BY <1>1, <1>2 DEF Kept, ListOK

LEMMA TailNotHandled ==
    ASSUME log \in Seq(LogRecord), log # <<>>, log' = Tail(log), chain' = chain, setting' = setting,
           NEW o \in Order, ChainOK(o), LogOK(o), ~Concerned(o, Head(log))
    PROVE  ChainOK(o)' /\ LogOK(o)' /\ NotHandled(o)
<1>1. ~IsFill(o, Head(log)) /\ ~Closes(o, Head(log))
  BY RecordFacts
<1> QED
  BY <1>1, LogShrinks DEF NotHandled

LEMMA TailTypes ==
    ASSUME BookTypes, log # <<>>, log' = Tail(log)
    PROVE  /\ log' \in Seq(LogRecord)
           /\ \A i \in Index' : log'[i].action # "order" => Sensible(log'[i])
           /\ Head(log) \in LogRecord /\ (Head(log).action # "order" => Sensible(Head(log)))
<1>1. log \in Seq(LogRecord)
  BY DEF BookTypes
<1>2. /\ Head(log) = log[1] /\ 1 \in Index /\ log' \in Seq(LogRecord)
      /\ \A i \in Index' : log'[i] = log[i + 1] /\ i + 1 \in Index
  BY <1>1, HeadTailProperties DEF Index
<1>3. Head(log) \in LogRecord
  BY <1>1, HeadTailProperties
<1> QED
  BY <1>2, <1>3 DEF BookTypes

LEMMA ExactLater ==
    ASSUME BookAssumption, NEW ls, NEW o \in Order, NEW s \in Int, NEW t \in Int, s <= t, NEW seen,
           Exact(ls, o, s, seen)
    PROVE  Exact(ls, o, t, seen)
BY RestingStays DEF Exact

LEMMA ViewKeeps ==
    ASSUME BookAssumption, BookIInv, NEW slot \in CallSlot, View(slot)
    PROVE  BookIInv'
<1>1. /\ lists' = updateRestingLimitOrders(slot) /\ maxSlotForRestingLimitOrders' = maxSlotAfter(slot)
      /\ newest' = newestAfter(slot)
      /\ UNCHANGED <<setting, initialized, told, misjudged, now, chain, log>>
  BY DEF View
<1>2. lists \in ListMaps
  BY DEF BookIInv, BookTypes, TypeOK, ListMaps
<1>3. lists' \in ListMaps
  <2>1. PICK other : other = updateRestingLimitOrders(slot)
    OBVIOUS
  <2> QED
    BY <1>1, <1>2, <2>1, RestingUpdated, SlotFacts
<1>4. BookTypes'
  BY <1>1, <1>3, SlotFacts DEF BookIInv, BookTypes, TypeOK, ListMaps, Index
<1>5. ASSUME NEW o \in Order PROVE ChainOK(o)' /\ LogOK(o)' /\ ListOK(o)' /\ Known(o)'
  <2>1. ChainOK(o) /\ LogOK(o) /\ ListOK(o) /\ Known(o)
    BY DEF BookIInv
  <2>2. NotHandled(o) /\ ChainOK(o)' /\ LogOK(o)'
    BY <1>1, <2>1 DEF NotHandled, FillPending, ClosePending, UpToDate, Index, ChainOK, LogOK
  <2>3. Kept(o)
    <3>1. PICK other : other = updateRestingLimitOrders(slot)
      OBVIOUS
    <3>2. WellPlaced(lists, o, told[o])
      BY <2>1 DEF ListOK
    <3>3. o \notin misjudged => Exact(lists, o, newestAfter(slot), maxSlotForRestingLimitOrders)
      BY <2>1, ExactLater, SlotFacts DEF ListOK
    <3>4. /\ WellPlaced(other, o, told[o])
          /\ Listed(other, o) <=> Listed(lists, o)
          /\ Listed(lists, o) => getOrder(other, o) = getOrder(lists, o)
          /\ Lingers(lists, o) => Lingers(other, o)
          /\ Remains(lists, o, told[o]) => Remains(other, o, told[o])
          /\ mustBeTriggered(o) /\ HasTriggered(lists, o) => HasTriggered(other, o)
          /\ o \notin misjudged => Exact(other, o, newestAfter(slot), maxSlotAfter(slot))
      BY <1>2, <3>1, <3>2, <3>3, RestingKeeps, SlotFacts
    <3> QED
      BY <1>1, <3>1, <3>4 DEF Kept
  <2> QED
    BY <1>1, <2>1, <2>2, <2>3, KeptOK
<1> QED
  BY <1>4, <1>5 DEF BookIInv

LEMMA IgnoreKeeps ==
    ASSUME BookAssumption, BookIInv, IgnoreActionRecord
    PROVE  BookIInv'
<1>1. /\ log # <<>> /\ Head(log).action = "expire" /\ log' = Tail(log)
      /\ setting' = setting /\ lists' = lists /\ initialized' = initialized /\ told' = told
      /\ newest' = newest /\ misjudged' = misjudged
      /\ now' = now /\ chain' = chain /\ maxSlotForRestingLimitOrders' = maxSlotForRestingLimitOrders
  BY DEF IgnoreActionRecord, book, history
<1>2. BookTypes'
  BY <1>1, TailTypes DEF BookIInv, BookTypes, TypeOK
<1>3. ASSUME NEW o \in Order PROVE ChainOK(o)' /\ LogOK(o)' /\ ListOK(o)' /\ Known(o)'
  <2>1. ChainOK(o) /\ LogOK(o) /\ ListOK(o) /\ Known(o) /\ log \in Seq(LogRecord)
    BY DEF BookIInv, BookTypes
  <2>2. ~IsOrder(o, Head(log)) /\ ~IsFill(o, Head(log)) /\ ~Closes(o, Head(log))
    BY <1>1 DEF IsOrder, IsFill, Closes, Closing
  <2>3. NotHandled(o) /\ ChainOK(o)' /\ LogOK(o)'
    BY <1>1, <2>1, <2>2, LogShrinks DEF NotHandled
  <2>4. Kept(o)
    BY <1>1, <2>1 DEF Kept, ListOK
  <2> QED
    BY <1>1, <2>1, <2>3, <2>4, KeptOK
<1> QED
  BY <1>2, <1>3 DEF BookIInv

LEMMA ClearKeeps ==
    ASSUME BookAssumption, BookIInv, clear
    PROVE  BookIInv'
<1>1. /\ lists' = NoLists /\ maxSlotForRestingLimitOrders' = 0 /\ told' = [o \in Order |-> {}]
      /\ newest' = 0 /\ misjudged' = {}
      /\ UNCHANGED <<setting, initialized, now, chain, log>>
  BY DEF clear
<1>2. NoLists \in ListMaps /\ \A o \in Order : \A k \in Kind : NoLists[k][o] = None
  BY DEF NoLists, ListMaps
<1>3. \A o \in Order : /\ WellPlaced(NoLists, o, {}) /\ Remains(NoLists, o, {})
                       /\ \A slot, seen : Exact(NoLists, o, slot, seen)
  <2>1. "restingLimit" \in Kind /\ "takingLimit" \in Kind
    BY DEF Kind
  <2> QED
    BY <1>2, <2>1 DEF Remains, WellPlaced, Exact
<1>4. BookTypes'
  BY <1>1, <1>2 DEF BookIInv, BookTypes, TypeOK, ListMaps, Index, BookAssumption
<1>5. ASSUME NEW o \in Order PROVE ChainOK(o)' /\ LogOK(o)' /\ ListOK(o)' /\ Known(o)'
  <2>1. ChainOK(o) /\ LogOK(o) /\ Known(o)
    BY DEF BookIInv
  <2>2. NotHandled(o) /\ ChainOK(o)' /\ LogOK(o)'
    BY <1>1, <2>1 DEF NotHandled, FillPending, ClosePending, UpToDate, Index, ChainOK, LogOK
  <2>3. told'[o] = {}
    BY <1>1
  <2>4. ListOK(o)' /\ Known(o)'
    BY <1>1, <1>3, <2>1, <2>2, <2>3 DEF ListOK, Known, NotHandled
  <2> QED
    BY <2>2, <2>4
<1> QED
  BY <1>4, <1>5 DEF BookIInv

(* The entries of an order after it was inserted.                           *)
LEMMA InsertKnown ==
    ASSUME BookAssumption, BookIInv, NEW o \in Order, NEW contents \in Contents, NEW slot \in CallSlot,
           NEW protected \in BOOLEAN \cup {Undefined}, NEW other,
           other = insertOrder(lists, o, contents, slot, protected)
    PROVE  /\ other \in ListMaps /\ OthersStay(lists, other, o)
           /\ Listed(other, o) /\ WellPlaced(other, o, told[o] \cup {contents.triggered})
           /\ o \notin misjudged /\ ~Misjudges(o, contents, slot) =>
                  Exact(other, o, newestAfter(slot), maxSlotForRestingLimitOrders)
           /\ getOrder(other, o) = contents \/ (Listed(lists, o) /\ getOrder(other, o) = getOrder(lists, o))
           /\ HasTriggered(lists, o) => HasTriggered(other, o)
           /\ mustBeTriggered(o) /\ contents.triggered => HasTriggered(other, o)
<1>1. lists \in ListMaps /\ ListOK(o)
  BY DEF BookIInv, BookTypes, TypeOK, ListMaps
<1>2. PICK as : as = told[o] \cup {contents.triggered}
  OBVIOUS
<1>3. WellPlaced(lists, o, as) /\ ToldAs(contents, as)
  BY <1>1, <1>2 DEF ListOK, WellPlaced, ToldAs
<1>4. PICK max, to : max = maxSlotForRestingLimitOrders /\ to = newestAfter(slot)
  OBVIOUS
<1>5. max \in Int /\ to \in Int /\ slot \in Int /\ slot <= to /\ newest \in Int /\ max <= newest /\ newest <= to
  BY <1>4, SlotFacts
<1>6. /\ other \in ListMaps /\ OthersStay(lists, other, o)
      /\ Listed(other, o) /\ WellPlaced(other, o, as)
      /\ /\ Exact(lists, o, to, max)
         /\ getListForOrder(o, contents, slot) = "takingLimit" => ~isRestingLimitOrder(o, max)
         => Exact(other, o, to, max)
      /\ getOrder(other, o) = contents \/ (Listed(lists, o) /\ getOrder(other, o) = getOrder(lists, o))
      /\ HasTriggered(lists, o) => HasTriggered(other, o)
      /\ mustBeTriggered(o) /\ getListForOrder(o, contents, slot) # "trigger" => HasTriggered(other, o)
  <2>1. /\ Listed(other, o)
        /\ getOrder(other, o) = contents \/ (Listed(lists, o) /\ getOrder(other, o) = getOrder(lists, o))
    BY <1>1, <1>5, InsertOrderFinds
  <2>2. /\ other \in ListMaps /\ OthersStay(lists, other, o) /\ WellPlaced(other, o, as)
        /\ HasTriggered(lists, o) => HasTriggered(other, o)
        /\ mustBeTriggered(o) /\ getListForOrder(o, contents, slot) # "trigger" => HasTriggered(other, o)
    <3>1. slot \in Int /\ lists \in ListMaps
      BY <1>1, <1>5
    <3>2. other \in ListMaps /\ OthersStay(lists, other, o) /\ (HasTriggered(lists, o) => HasTriggered(other, o))
      BY <3>1, InsertOrderKeeps
    <3>3. \A t : WellPlaced(lists, o, t) /\ ToldAs(contents, t) => WellPlaced(other, o, t)
      BY <3>1, InsertOrderKeeps
    <3>4. \A t : WellPlaced(lists, o, t) /\ ToldAs(contents, t) =>
             (mustBeTriggered(o) /\ getListForOrder(o, contents, slot) # "trigger" => HasTriggered(other, o))
      BY <3>1, InsertOrderKeeps
    <3> QED
      BY <1>3, <3>2, <3>3, <3>4
  <2>3. ASSUME Exact(lists, o, to, max),
               getListForOrder(o, contents, slot) = "takingLimit" => ~isRestingLimitOrder(o, max)
        PROVE  Exact(other, o, to, max)
    BY <1>1, <1>5, <2>3, InsertOrderExact
  <2> QED
    BY <2>1, <2>2, <2>3
<1>7. ASSUME o \notin misjudged, ~Misjudges(o, contents, slot) PROVE Exact(other, o, to, max)
  <2>1. Exact(lists, o, to, max)
    BY <1>1, <1>4, <1>5, <1>7, ExactLater DEF ListOK
  <2>2. ASSUME getListForOrder(o, contents, slot) = "takingLimit" PROVE ~isRestingLimitOrder(o, max)
    <3>1. ~isRestingLimitOrder(o, slot)
      BY <2>2 DEF getListForOrder
    <3>2. CASE slot >= newest
      <4>1. max <= slot
        BY <1>5, <3>2
      <4> QED
        BY <1>5, <3>1, <4>1, RestingStays
    <3>3. CASE slot < newest
      <4>1. getListForOrder(o, contents, newest) = "takingLimit"
        BY <1>7, <2>2, <3>3 DEF Misjudges
      <4>2. ~isRestingLimitOrder(o, newest)
        BY <4>1 DEF getListForOrder
      <4> QED
        BY <1>5, <4>2, RestingStays
    <3> QED
      BY <1>5, <3>2, <3>3
  <2> QED
    BY <1>6, <2>1, <2>2
<1>8. mustBeTriggered(o) /\ contents.triggered => HasTriggered(other, o)
  BY <1>6 DEF getListForOrder, isLimitOrder
<1> QED
  BY <1>2, <1>4, <1>6, <1>7, <1>8

LEMMA OrderRecordKeeps ==
    ASSUME BookAssumption, BookIInv, NEW slot \in CallSlot, handleOrderRecord(slot)
    PROVE  BookIInv'
<1>1. PICK p :
      /\ p = Head(log).order
      /\ Listening /\ log # <<>> /\ Head(log).action = "order" /\ log' = Tail(log)
      /\ lists' = insertOrder(lists, p, AsPlaced, slot, FALSE)
      /\ told' = [told EXCEPT ![p] = @ \cup {FALSE}]
      /\ newest' = newestAfter(slot)
      /\ misjudged' = misjudged \cup {o \in {p} : Misjudges(o, AsPlaced, slot)}
      /\ setting' = setting /\ initialized' = initialized /\ now' = now /\ chain' = chain
      /\ maxSlotForRestingLimitOrders' = maxSlotForRestingLimitOrders
  BY DEF handleOrderRecord
<1>2. p \in Order /\ BookTypes /\ IsOrder(p, Head(log))
  BY <1>1, TailTypes DEF BookIInv, LogRecord, OrderRecord, ActionRecord, IsOrder
<1>3. PICK fresh, no : /\ fresh = AsPlaced /\ fresh \in Contents /\ fresh.filled = 0
                      /\ fresh.triggered = no /\ no = FALSE
  <2> DEFINE no == FALSE
             fresh == [filled |-> 0, triggered |-> no]
  <2>1. 0 \in 0 .. Base /\ no \in BOOLEAN /\ no = FALSE /\ fresh = AsPlaced
    BY DEF BookAssumption, AsPlaced
  <2> HIDE DEF no
  <2>2. fresh \in Contents /\ fresh.filled = 0 /\ fresh.triggered = no
    BY <2>1 DEF Contents
  <2> HIDE DEF fresh
  <2> QED
    BY <2>1, <2>2
<1>4. /\ ChainOK(p) /\ LogOK(p) /\ ListOK(p) /\ Known(p) /\ log \in Seq(LogRecord)
      /\ told \in [Order -> SUBSET BOOLEAN] /\ misjudged \in SUBSET Order
  BY <1>2 DEF BookIInv, BookTypes, TypeOK
<1>5. /\ ChainOK(p)' /\ LogOK(p)'
      /\ FillPending(p) => FillPending(p)'
      /\ ClosePending(p) => ClosePending(p)'
      /\ ~UpToDate(p) /\ chain[p].status # "absent"
      /\ FillPending(p)' \/ chain[p].filled = 0
  <2>1. Concerned(p, Head(log)) /\ ~IsFill(p, Head(log)) /\ ~Closes(p, Head(log))
    BY <1>2, RecordFacts
  <2> QED
    BY <1>1, <1>2, <1>4, <2>1, LogShrinks
<1>6. /\ told'[p] = told[p] \cup {no} /\ told' \in [Order -> SUBSET BOOLEAN]
      /\ \A o \in Order : o # p => told'[o] = told[o]
      /\ TRUE \in told'[p] <=> TRUE \in told[p]
  <2>1. told[p] \cup {no} \in SUBSET BOOLEAN
    BY <1>2, <1>3, <1>4
  <2>2. told' = [told EXCEPT ![p] = told[p] \cup {no}]
    BY <1>1, <1>3
  <2>3. TRUE \in told[p] \cup {no} <=> TRUE \in told[p]
    BY <1>3
  <2> QED
    BY <1>2, <1>4, <2>1, <2>2, <2>3
<1>7. /\ lists' \in ListMaps /\ OthersStay(lists, lists', p)
      /\ Listed(lists', p) /\ WellPlaced(lists', p, told'[p])
      /\ p \notin misjudged' => Exact(lists', p, newest', maxSlotForRestingLimitOrders)
      /\ getOrder(lists', p) = fresh \/ (Listed(lists, p) /\ getOrder(lists', p) = getOrder(lists, p))
      /\ HasTriggered(lists, p) => HasTriggered(lists', p)
  <2>1. PICK other, protected : /\ protected = FALSE /\ other = insertOrder(lists, p, fresh, slot, protected)
                                /\ other = lists'
    BY <1>1, <1>3
  <2>2. protected \in BOOLEAN \cup {Undefined}
    BY <2>1
  <2>3. /\ other \in ListMaps /\ OthersStay(lists, other, p)
        /\ Listed(other, p) /\ WellPlaced(other, p, told[p] \cup {fresh.triggered})
        /\ p \notin misjudged /\ ~Misjudges(p, fresh, slot) =>
               Exact(other, p, newestAfter(slot), maxSlotForRestingLimitOrders)
        /\ getOrder(other, p) = fresh \/ (Listed(lists, p) /\ getOrder(other, p) = getOrder(lists, p))
        /\ HasTriggered(lists, p) => HasTriggered(other, p)
    BY <1>2, <1>3, <2>1, <2>2, InsertKnown
  <2>4. p \notin misjudged' => p \notin misjudged /\ ~Misjudges(p, fresh, slot)
    BY <1>1, <1>3
  <2> QED
    BY <1>1, <1>3, <1>6, <2>1, <2>3, <2>4
<1>8. BookTypes'
  <2>1. misjudged' \in SUBSET Order
    BY <1>1, <1>2, <1>4
  <2> QED
    BY <1>1, <1>2, <1>6, <1>7, <2>1, TailTypes, SlotFacts DEF BookTypes, TypeOK, ListMaps
<1>9. ListOK(p)'
  BY <1>1, <1>4, <1>5, <1>6, <1>7 DEF ListOK, Listening
<1>10. Known(p)'
  <2>1. chain'[p].status = "closed" => ClosePending(p)'
    BY <1>1, <1>4, <1>5 DEF Known
  <2>2. ASSUME chain[p].status = "open", p \notin misjudged'
        PROVE  FillPending(p)' \/ getOrder(lists', p).filled = chain[p].filled
    <3>1. CASE getOrder(lists', p) = fresh
      BY <1>3, <1>5, <3>1
    <3>2. CASE Listed(lists, p) /\ getOrder(lists', p) = getOrder(lists, p)
      <4>1. told[p] # {} /\ p \notin misjudged
        BY <1>1, <1>4, <2>2, <3>2 DEF ListOK, Listed, WellPlaced
      <4>2. FillPending(p) \/ getOrder(lists, p).filled = chain[p].filled
        BY <1>4, <2>2, <4>1 DEF Known, Open
      <4> QED
        BY <1>5, <3>2, <4>2
    <3> QED
      BY <1>7, <3>1, <3>2
  <2>3. chain[p].status = "open" /\ TRUE \in told'[p] => HasTriggered(lists', p)
    BY <1>4, <1>6, <1>7 DEF Known, Open
  <2> QED
    BY <1>1, <1>7, <2>1, <2>2, <2>3 DEF Known, Open
<1>11. ASSUME NEW o \in Order, o # p PROVE ChainOK(o)' /\ LogOK(o)' /\ ListOK(o)' /\ Known(o)'
  <2>1. ChainOK(o) /\ LogOK(o) /\ ListOK(o) /\ Known(o)
    BY DEF BookIInv
  <2>2. ~Concerned(o, Head(log))
    BY <1>1, <1>2, <1>11 DEF Concerned, IsOrder
  <2>3. ChainOK(o)' /\ LogOK(o)' /\ NotHandled(o)
    BY <1>1, <1>4, <2>1, <2>2, TailNotHandled
  <2>4. \A k \in Kind : lists'[k][o] = lists[k][o]
    BY <1>7, <1>11 DEF OthersStay
  <2>5. o \in misjudged' <=> o \in misjudged
    BY <1>1, <1>11
  <2>6. o \notin misjudged => Exact(lists, o, newest', maxSlotForRestingLimitOrders)
    BY <1>1, <2>1, ExactLater, SlotFacts DEF ListOK
  <2>7. Kept(o)
    BY <1>1, <2>1, <2>4, <2>5, <2>6, EntriesKept
  <2> QED
    BY <1>1, <1>6, <1>11, <2>1, <2>3, <2>7, KeptOK
<1>12. ASSUME NEW o \in Order PROVE ChainOK(o)' /\ LogOK(o)' /\ ListOK(o)' /\ Known(o)'
  <2>1. CASE o = p
    BY <1>5, <1>9, <1>10, <2>1
  <2>2. CASE o # p
    BY <1>11, <2>2
  <2> QED
    BY <2>1, <2>2
<1> QED
  BY <1>8, <1>12 DEF BookIInv

LEMMA SnapshotKeeps ==
    ASSUME BookAssumption, BookIInv, NEW slot \in CallSlot, initFromUserMap(slot)
    PROVE  BookIInv'
<1> DEFINE entry(o) == insertOrder(lists, o, ContentsOnChain(o), slot, o \in ProtectedUser)
           added(o) == told[o] \cup (IF Open(o) THEN {chain[o].triggered} ELSE {})
           wrong == {o \in Order : Open(o) /\ Misjudges(o, ContentsOnChain(o), slot)}
<1>1. /\ ~initialized /\ initialized' = TRUE
      /\ lists' = [kind \in Kind |-> [o \in Order |-> IF Open(o) THEN entry(o)[kind][o] ELSE lists[kind][o]]]
      /\ told' = [o \in Order |-> added(o)]
      /\ newest' = newestAfter(slot) /\ misjudged' = misjudged \cup wrong
      /\ log' = IF setting.overlap THEN log ELSE <<>>
      /\ setting' = setting /\ now' = now /\ chain' = chain
      /\ maxSlotForRestingLimitOrders' = maxSlotForRestingLimitOrders
  BY DEF initFromUserMap
<1>2. \A o \in Order : o \notin misjudged' => /\ o \notin misjudged
                                               /\ Open(o) => ~Misjudges(o, ContentsOnChain(o), slot)
  BY <1>1
<1>3. /\ \A o \in Order : told'[o] = told[o] \cup (IF Open(o) THEN {chain[o].triggered} ELSE {})
      /\ misjudged \subseteq misjudged' /\ \A o \in Order : ~Open(o) => (o \in misjudged' <=> o \in misjudged)
      /\ told' \in [Order -> SUBSET BOOLEAN] /\ misjudged' \in SUBSET Order
  <2>1. told \in [Order -> SUBSET BOOLEAN] /\ misjudged \in SUBSET Order /\ \A o \in Order : chain[o].triggered \in BOOLEAN
    BY DEF BookIInv, BookTypes, TypeOK
  <2>2. \A o \in Order : added(o) \in SUBSET BOOLEAN
    BY <2>1
  <2> QED
    BY <1>1, <2>1, <2>2
<1> HIDE DEF entry, added, wrong
<1>4. /\ \A k \in Kind : \A o \in Order :
             lists'[k][o] = IF Open(o) THEN entry(o)[k][o] ELSE lists[k][o]
      /\ lists' = [kind \in Kind |-> [o \in Order |-> lists'[kind][o]]]
  BY <1>1
<1>5. lists \in ListMaps /\ log \in Seq(LogRecord)
  BY DEF BookIInv, BookTypes, TypeOK, ListMaps
<1>6. ASSUME NEW o \in Order PROVE /\ ContentsOnChain(o) \in Contents
                                    /\ ContentsOnChain(o).filled = chain[o].filled
                                    /\ ContentsOnChain(o).triggered = chain[o].triggered
  <2>1. chain[o].filled \in 0 .. Base /\ chain[o].triggered \in BOOLEAN
    BY DEF BookIInv, BookTypes, TypeOK
  <2> QED
    BY <2>1 DEF ContentsOnChain, Contents
<1>7. ASSUME NEW o \in Order, ~setting.overlap PROVE told[o] = {} /\ ~Listed(lists, o)
  BY <1>1, <1>7 DEF BookIInv, ListOK, Listed, WellPlaced
<1>8. ASSUME NEW o \in Order, Open(o)
      PROVE  /\ entry(o) \in ListMaps /\ OthersStay(lists, entry(o), o)
             /\ Listed(entry(o), o) /\ WellPlaced(entry(o), o, told'[o])
             /\ o \notin misjudged' => Exact(entry(o), o, newest', maxSlotForRestingLimitOrders)
             /\ \/ getOrder(entry(o), o) = ContentsOnChain(o)
                \/ Listed(lists, o) /\ getOrder(entry(o), o) = getOrder(lists, o)
             /\ TRUE \in told'[o] => HasTriggered(entry(o), o)
  <2>1. PICK contents, protected, other :
          /\ contents = ContentsOnChain(o) /\ protected = (o \in ProtectedUser)
          /\ other = insertOrder(lists, o, contents, slot, protected) /\ other = entry(o)
    BY DEF entry
  <2>2. protected \in BOOLEAN \cup {Undefined}
    <3>1. (o \in ProtectedUser) \in BOOLEAN
      OBVIOUS
    <3> QED
      BY <2>1, <3>1
  <2>3. contents \in Contents /\ contents.triggered = chain[o].triggered
    BY <1>6, <2>1
  <2>4. other = insertOrder(lists, o, contents, slot, protected)
    BY <2>1
  <2>5. /\ other \in ListMaps /\ OthersStay(lists, other, o)
        /\ Listed(other, o) /\ WellPlaced(other, o, told[o] \cup {contents.triggered})
        /\ o \notin misjudged /\ ~Misjudges(o, contents, slot) =>
               Exact(other, o, newestAfter(slot), maxSlotForRestingLimitOrders)
        /\ getOrder(other, o) = contents \/ (Listed(lists, o) /\ getOrder(other, o) = getOrder(lists, o))
        /\ HasTriggered(lists, o) => HasTriggered(other, o)
        /\ mustBeTriggered(o) /\ contents.triggered => HasTriggered(other, o)
    BY <2>2, <2>3, <2>4, InsertKnown
  <2>6. told'[o] = told[o] \cup {contents.triggered}
    BY <1>3, <1>8, <2>3
  <2>7. ASSUME TRUE \in told'[o] PROVE HasTriggered(other, o)
    <3>1. ListOK(o) /\ Known(o) /\ ChainOK(o)
      BY DEF BookIInv
    <3>2. CASE TRUE \in told[o]
      BY <1>8, <2>5, <3>1, <3>2 DEF Known
    <3>3. CASE contents.triggered
      BY <2>3, <2>5, <3>1, <3>3 DEF ChainOK
    <3> QED
      BY <2>6, <2>7, <3>2, <3>3
  <2>8. o \notin misjudged' => Exact(other, o, newest', maxSlotForRestingLimitOrders)
    <3>1. newest' = newestAfter(slot) /\ (o \notin misjudged' => o \notin misjudged /\ ~Misjudges(o, contents, slot))
      BY <1>1, <1>2, <1>8, <2>1
    <3> QED
      BY <2>5, <3>1
  <2>9. WellPlaced(other, o, told'[o])
    BY <2>5, <2>6
  <2> QED
    BY <2>1, <2>5, <2>7, <2>8, <2>9
<1>9. lists' \in ListMaps
  <2>1. ASSUME NEW k \in Kind, NEW o \in Order PROVE lists'[k][o] \in Node \cup {None}
    <3>1. CASE Open(o)
      <4>1. entry(o) \in ListMaps /\ lists'[k][o] = entry(o)[k][o]
        BY <1>4, <1>8, <3>1
      <4> QED
        BY <4>1 DEF ListMaps
    <3>2. CASE ~Open(o)
      BY <1>4, <1>5, <3>2 DEF ListMaps
    <3> QED
      BY <3>1, <3>2
  <2> QED
    BY <1>4, <2>1 DEF ListMaps
<1>10. BookTypes'
  <2>1. log' \in Seq(LogRecord) /\ (\A i \in Index' : log'[i].action # "order" => Sensible(log'[i]))
    <3>1. CASE setting.overlap
      BY <1>1, <1>5, <3>1 DEF BookIInv, BookTypes, Index
    <3>2. CASE ~setting.overlap
      <4>1. log' = <<>> /\ Index' = {}
        BY <1>1, <3>2 DEF Index
      <4> QED
        BY <4>1
    <3> QED
      BY <3>1, <3>2
  <2>2. initialized' \in BOOLEAN
    <3> DEFINE yes == TRUE
    <3>1. yes \in BOOLEAN /\ initialized' = yes
      BY <1>1
    <3> QED
      BY <3>1
  <2> QED
    BY <1>1, <1>3, <1>9, <2>1, <2>2, SlotFacts DEF BookIInv, BookTypes, TypeOK, ListMaps
<1>11. ASSUME NEW o \in Order, Open(o)
       PROVE  /\ Listed(lists', o) /\ WellPlaced(lists', o, told'[o])
              /\ o \notin misjudged' => Exact(lists', o, newest', maxSlotForRestingLimitOrders)
              /\ \/ getOrder(lists', o).filled = chain[o].filled
                 \/ Listed(lists, o) /\ getOrder(lists', o) = getOrder(lists, o)
              /\ TRUE \in told'[o] => HasTriggered(lists', o)
  <2>1. \A k \in Kind : lists'[k][o] = entry(o)[k][o]
    BY <1>4, <1>11
  <2>2. PICK other, before, as : other = lists' /\ before = entry(o) /\ as = told'[o]
    OBVIOUS
  <2>3. /\ Listed(other, o) <=> Listed(before, o)
        /\ Listed(before, o) => getOrder(other, o) = getOrder(before, o)
        /\ WellPlaced(other, o, as) <=> WellPlaced(before, o, as)
        /\ \A s, seen : Exact(other, o, s, seen) <=> Exact(before, o, s, seen)
        /\ HasTriggered(other, o) <=> HasTriggered(before, o)
    BY <2>1, <2>2, SameEntries
  <2> QED
    BY <1>6, <1>8, <1>11, <2>2, <2>3
<1>12. ASSUME NEW o \in Order, Open(o) PROVE ListOK(o)'
  <2>1. ListOK(o)
    BY DEF BookIInv
  <2>2. TRUE \in told'[o] => chain[o].triggered
    BY <1>3, <1>12, <2>1 DEF ListOK
  <2> QED
    BY <1>1, <1>11, <1>12, <2>2 DEF ListOK, Open
<1>13. ASSUME NEW o \in Order, ~setting.overlap PROVE ChainOK(o)' /\ LogOK(o)' /\ ListOK(o)' /\ Known(o)'
  <2>1. Index' = {} /\ ChainOK(o) /\ LogOK(o)
    BY <1>1, <1>13 DEF Index, BookIInv
  <2>2. ChainOK(o)' /\ LogOK(o)' /\ UpToDate(o)'
    BY <1>1, <2>1 DEF ChainOK, LogOK, UpToDate, Index
  <2>3. CASE Open(o)
    <3>1. Known(o)'
      BY <1>1, <1>7, <1>11, <1>13, <2>3 DEF Known, Open
    <3> QED
      BY <1>12, <2>2, <2>3, <3>1
  <2>4. CASE ~Open(o)
    <3>1. told'[o] = {}
      BY <1>3, <1>7, <1>13, <2>4
    <3>2. \A k \in Kind : lists'[k][o] = None
      BY <1>4, <1>7, <1>13, <2>4 DEF Listed
    <3>3. "restingLimit" \in Kind /\ "takingLimit" \in Kind
      BY DEF Kind
    <3>4. /\ Remains(lists', o, told'[o]) /\ WellPlaced(lists', o, told'[o])
          /\ Exact(lists', o, newest', maxSlotForRestingLimitOrders)
      BY <3>2, <3>3 DEF Remains, WellPlaced, Exact
    <3> QED
      BY <1>1, <2>2, <3>1, <3>4 DEF ListOK, Known
  <2> QED
    BY <2>3, <2>4
<1>14. ASSUME NEW o \in Order, setting.overlap PROVE ChainOK(o)' /\ LogOK(o)' /\ ListOK(o)' /\ Known(o)'
  <2>1. ChainOK(o) /\ LogOK(o) /\ ListOK(o) /\ Known(o) /\ log' = log
    BY <1>1, <1>14 DEF BookIInv
  <2>2. NotHandled(o) /\ ChainOK(o)' /\ LogOK(o)'
    BY <1>1, <2>1 DEF NotHandled, FillPending, ClosePending, UpToDate, Index, ChainOK, LogOK
  <2>3. CASE Open(o)
    <3>1. ASSUME o \notin misjudged' PROVE FillPending(o)' \/ getOrder(lists', o).filled = chain[o].filled
      <4> SUFFICES ASSUME Listed(lists, o), getOrder(lists', o) = getOrder(lists, o)
                   PROVE  FillPending(o)' \/ getOrder(lists', o).filled = chain[o].filled
        BY <1>11, <2>3
      <4>1. told[o] # {} /\ o \notin misjudged
        <5>1. PICK k \in Kind : lists[k][o] # None
          BY DEF Listed
        <5>2. lists[k][o].order.triggered \in told[o]
          BY <2>1, <5>1 DEF ListOK, WellPlaced
        <5>3. told[o] # {}
          BY <5>2, Zenon
        <5>4. o \notin misjudged
          BY <1>3, <3>1
        <5> QED
          BY <5>3, <5>4
      <4> QED
        BY <2>1, <2>2, <2>3, <4>1 DEF Known, NotHandled
    <3>2. Known(o)'
      BY <1>1, <1>11, <2>3, <3>1 DEF Known, Open
    <3> QED
      BY <1>12, <2>2, <2>3, <3>2
  <2>4. CASE ~Open(o)
    <3>1. \A k \in Kind : lists'[k][o] = lists[k][o]
      BY <1>4, <2>4
    <3>2. o \notin misjudged => Exact(lists, o, newest', maxSlotForRestingLimitOrders)
      BY <1>1, <2>1, ExactLater, SlotFacts DEF ListOK
    <3>3. Kept(o)
      BY <1>1, <1>3, <2>1, <2>4, <3>1, <3>2, EntriesKept
    <3>4. told'[o] = told[o]
      BY <1>3, <2>4
    <3> QED
      BY <1>1, <2>1, <2>2, <3>3, <3>4, KeptOK
  <2> QED
    BY <2>3, <2>4
<1> QED
  BY <1>10, <1>13, <1>14 DEF BookIInv

(* What handling a record has done to an order that it names.               *)
Handled(o, record) ==
    /\ WellPlaced(lists', o, told[o])
    /\ o \in misjudged => o \in misjudged'
    /\ o \notin misjudged' => Exact(lists', o, newest', maxSlotForRestingLimitOrders')
    /\ IF Closes(o, record)
       THEN Remains(lists', o, told[o]) \/ (o \in misjudged' /\ Lingers(lists', o))
       ELSE /\ Listed(lists, o) => Listed(lists', o)
            /\ mustBeTriggered(o) /\ HasTriggered(lists, o) => HasTriggered(lists', o)
            /\ Listed(lists, o) /\ o \notin misjudged' =>
                   IF record.action = "fill" THEN getOrder(lists', o).filled = FilledIn(record, o)
                   ELSE getOrder(lists', o) = getOrder(lists, o)

LEMMA BookAfterRecord ==
    ASSUME BookAssumption, BookIInv, NEW slot \in CallSlot, handleOrderActionRecord(slot),
           NEW record, record = Head(log)
    PROVE  /\ lists' \in ListMaps /\ misjudged' \in SUBSET Order
           /\ maxSlotForRestingLimitOrders' \in 0 .. MaxSlot /\ newest' \in 0 .. MaxSlot
           /\ maxSlotForRestingLimitOrders' <= newest'
           /\ \A o \in Order : IF Names(record, o) THEN Handled(o, record) ELSE Kept(o)
<1>1. /\ log # <<>> /\ record.action \in {"trigger", "fill", "cancel"}
      /\ record \in ActionRecord /\ Sensible(record) /\ lists \in ListMaps
      /\ \A o \in Order : ListOK(o)
      /\ told \in [Order -> SUBSET BOOLEAN] /\ misjudged \in SUBSET Order
  <2>1. log # <<>> /\ record.action \in {"trigger", "fill", "cancel"}
    BY DEF handleOrderActionRecord
  <2>2. record \in LogRecord /\ Sensible(record)
    <3>1. log \in Seq(LogRecord)
      BY DEF BookIInv, BookTypes
    <3>2. Head(log) \in LogRecord /\ 1 \in Index /\ Head(log) = log[1]
      BY <2>1, <3>1, HeadTailProperties DEF Index
    <3> QED
      BY <2>1, <3>2 DEF BookIInv, BookTypes
  <2> QED
    BY <2>1, <2>2 DEF LogRecord, OrderRecord, BookIInv, BookTypes, TypeOK, ListMaps
<1>2. /\ Named(record) \subseteq Order
      /\ \A o \in Order : o \in Named(record) <=> Names(record, o) /\ Listed(lists, o)
  <2>1. None \notin Order /\ record.taker \in Order \cup {None} /\ record.maker \in Order \cup {None}
    BY <1>1 DEF BookAssumption, ActionRecord
  <2> QED
    BY <2>1 DEF Named, Names
<1>3. CASE Named(record) = {}
  <2>1. /\ lists' = lists /\ maxSlotForRestingLimitOrders' = maxSlotForRestingLimitOrders
        /\ newest' = newest /\ misjudged' = misjudged
    BY <1>3 DEF handleOrderActionRecord, book
  <2>2. ASSUME NEW o \in Order PROVE IF Names(record, o) THEN Handled(o, record) ELSE Kept(o)
    <3>1. Names(record, o) => ~Listed(lists, o)
      BY <1>2, <1>3
    <3>2. /\ WellPlaced(lists, o, told[o])
          /\ o \notin misjudged => Exact(lists, o, newest, maxSlotForRestingLimitOrders)
      BY <1>1 DEF ListOK
    <3>3. ~Listed(lists, o) => Remains(lists, o, told[o]) /\ ~HasTriggered(lists, o)
      BY DEF Listed, Remains, HasTriggered
    <3>4. Names(record, o) => Handled(o, record)
      BY <2>1, <3>1, <3>2, <3>3 DEF Handled
    <3>5. Kept(o)
      BY <2>1, <3>2 DEF Kept
    <3> QED
      BY <3>4, <3>5
  <2> QED
    BY <1>1, <2>1, <2>2, SlotFacts
<1>4. CASE Named(record) # {}
  <2>1. PICK other, first :
          /\ first = updateRestingLimitOrders(slot) /\ other = BothHandled(record, slot) /\ other = lists'
          /\ maxSlotForRestingLimitOrders' = maxSlotAfter(slot) /\ newest' = newestAfter(slot)
          /\ misjudged' = misjudged \cup {o \in Named(record) : Misjudges(o, getOrder(lists, o), slot)}
    BY <1>4 DEF handleOrderActionRecord
  <2>2. /\ other \in ListMaps
        /\ \A o \in Order :
               /\ Names(record, o) => Effect(first, other, record, o, FilledIn(record, o), slot)
               /\ ~Names(record, o) => Same(first, other, o)
    <3>1. \A p \in Order : WellPlaced(lists, p, told[p])
      BY <1>1 DEF ListOK
    <3>2. record.action # "expire"
      BY <1>1
    <3> QED
      BY <1>1, <2>1, <3>1, <3>2, RecordHandled, SlotFacts
  <2>3. ASSUME NEW o \in Order PROVE IF Names(record, o) THEN Handled(o, record) ELSE Kept(o)
    <3>1. /\ WellPlaced(lists, o, told[o])
          /\ o \notin misjudged => Exact(lists, o, newest, maxSlotForRestingLimitOrders)
      BY <1>1 DEF ListOK
    <3>2. o \notin misjudged => Exact(lists, o, newestAfter(slot), maxSlotForRestingLimitOrders)
      BY <3>1, ExactLater, SlotFacts
    <3>3. /\ WellPlaced(first, o, told[o])
          /\ Listed(first, o) <=> Listed(lists, o)
          /\ Listed(lists, o) => getOrder(first, o) = getOrder(lists, o)
          /\ Lingers(lists, o) => Lingers(first, o)
          /\ Remains(lists, o, told[o]) => Remains(first, o, told[o])
          /\ mustBeTriggered(o) /\ HasTriggered(lists, o) => HasTriggered(first, o)
          /\ o \notin misjudged => Exact(first, o, newestAfter(slot), maxSlotAfter(slot))
      BY <1>1, <2>1, <3>1, <3>2, RestingKeeps, SlotFacts
    <3>4. /\ o \in misjudged => o \in misjudged'
          /\ ~Names(record, o) => (o \in misjudged' <=> o \in misjudged)
      BY <1>2, <2>1
    <3>5. ASSUME Names(record, o), o \notin misjudged' PROVE Exact(first, o, slot, slot)
      <4>1. o \notin misjudged /\ (Listed(lists, o) => ~Misjudges(o, getOrder(lists, o), slot))
        BY <1>2, <2>1, <3>5
      <4> QED
        BY <1>1, <2>1, <3>1, <4>1, JudgedRight, SlotFacts
    <3>6. CASE Names(record, o)
      <4>1. PICK amount : amount = FilledIn(record, o)
        OBVIOUS
      <4>2. /\ Effect(first, other, record, o, amount, slot)
            /\ Closing(record, amount) <=> Closes(o, record)
        BY <2>2, <3>6, <4>1 DEF Closes
      <4>3. o \notin misjudged' => Exact(other, o, newestAfter(slot), maxSlotAfter(slot))
        BY <3>3, <3>4, <4>2 DEF Effect
      <4>4. WellPlaced(other, o, told[o])
        BY <4>2 DEF Effect
      <4>5. ASSUME Closing(record, amount)
            PROVE  Remains(other, o, told[o]) \/ (o \in misjudged' /\ Lingers(other, o))
        BY <3>5, <3>6, <4>2, <4>5 DEF Effect
      <4>6. ASSUME ~Closing(record, amount)
            PROVE  /\ Listed(lists, o) => Listed(other, o)
                   /\ mustBeTriggered(o) /\ HasTriggered(lists, o) => HasTriggered(other, o)
        BY <3>3, <4>2, <4>6 DEF Effect
      <4>7. ASSUME ~Closing(record, amount), Listed(lists, o), o \notin misjudged'
            PROVE  IF record.action = "fill" THEN getOrder(other, o).filled = amount
                   ELSE getOrder(other, o) = getOrder(lists, o)
        <5>1. record.action = "fill" => amount # Base
          BY <4>7 DEF Closing
        <5>2. record.action = "fill" \/ record.action = "trigger"
          BY <1>1, <4>7 DEF Closing
        <5>3. Exact(first, o, slot, slot) /\ Listed(first, o) /\ getOrder(first, o) = getOrder(lists, o)
          BY <3>3, <3>5, <3>6, <4>7
        <5>4. /\ record.action = "fill" => getOrder(other, o).filled = amount
              /\ record.action = "trigger" => getOrder(other, o) = getOrder(first, o)
          BY <4>2, <5>1, <5>3 DEF Effect
        <5> QED
          BY <5>2, <5>3, <5>4
      <4> QED
        BY <2>1, <3>4, <3>6, <4>1, <4>2, <4>3, <4>4, <4>5, <4>6, <4>7 DEF Handled
    <3>7. CASE ~Names(record, o)
      <4>1. \A k \in Kind : other[k][o] = first[k][o]
        BY <2>2, <3>7 DEF Same
      <4>2. /\ Listed(other, o) <=> Listed(first, o)
            /\ Listed(first, o) => getOrder(other, o) = getOrder(first, o)
            /\ WellPlaced(other, o, told[o]) <=> WellPlaced(first, o, told[o])
            /\ \A s, seen : Exact(other, o, s, seen) <=> Exact(first, o, s, seen)
            /\ Lingers(other, o) <=> Lingers(first, o)
            /\ Remains(other, o, told[o]) <=> Remains(first, o, told[o])
            /\ HasTriggered(other, o) <=> HasTriggered(first, o)
        BY <4>1, SameEntries
      <4> QED
        BY <2>1, <3>3, <3>4, <3>7, <4>2 DEF Kept
    <3> QED
      BY <3>6, <3>7
  <2>4. misjudged' \in SUBSET Order
    BY <1>1, <1>2, <2>1
  <2> QED
    BY <2>1, <2>2, <2>3, <2>4, SlotFacts
<1> QED
  BY <1>3, <1>4

LEMMA ActionRecordKeeps ==
    ASSUME BookAssumption, BookIInv, NEW slot \in CallSlot, handleOrderActionRecord(slot)
    PROVE  BookIInv'
<1>1. /\ Listening /\ log # <<>> /\ Head(log).action \in {"trigger", "fill", "cancel"} /\ log' = Tail(log)
      /\ setting' = setting /\ initialized' = initialized /\ told' = told /\ now' = now /\ chain' = chain
  BY DEF handleOrderActionRecord
<1>2. PICK record : record = Head(log)
  OBVIOUS
<1>3. /\ lists' \in ListMaps /\ misjudged' \in SUBSET Order
      /\ maxSlotForRestingLimitOrders' \in 0 .. MaxSlot /\ newest' \in 0 .. MaxSlot
      /\ maxSlotForRestingLimitOrders' <= newest'
      /\ \A o \in Order : IF Names(record, o) THEN Handled(o, record) ELSE Kept(o)
  BY <1>2, BookAfterRecord
<1>4. BookTypes'
  BY <1>1, <1>3, TailTypes DEF BookIInv, BookTypes, TypeOK, ListMaps
<1>5. ASSUME NEW o \in Order PROVE ChainOK(o)' /\ LogOK(o)' /\ ListOK(o)' /\ Known(o)'
  <2>1. ChainOK(o) /\ LogOK(o) /\ ListOK(o) /\ Known(o) /\ log \in Seq(LogRecord)
    BY DEF BookIInv, BookTypes
  <2>2. Concerned(o, record) <=> Names(record, o)
    BY <1>1, <1>2 DEF Concerned, Names
  <2>3. CASE ~Names(record, o)
    <3>1. ChainOK(o)' /\ LogOK(o)' /\ NotHandled(o)
      BY <1>1, <1>2, <2>1, <2>2, <2>3, TailNotHandled
    <3> QED
      BY <1>1, <1>3, <2>1, <2>3, <3>1, KeptOK
  <2>4. CASE Names(record, o)
    <3>1. Handled(o, record)
      BY <1>3, <2>4
    <3>2. /\ ChainOK(o)' /\ LogOK(o)'
          /\ FillPending(o) => FillPending(o)' \/ IsFill(o, record)
          /\ ClosePending(o) => ClosePending(o)' \/ (Closes(o, record) /\ UpToDate(o)')
          /\ ~UpToDate(o)
          /\ Closes(o, record) => chain[o].status = "closed"
          /\ IsFill(o, record) => FillPending(o)' \/ FilledIn(record, o) = chain[o].filled
      BY <1>1, <1>2, <2>1, <2>2, <2>4, LogShrinks
    <3>3. IsFill(o, record) <=> record.action = "fill"
      BY <2>4 DEF IsFill
    <3>4. ListOK(o)'
      BY <1>1, <2>1, <3>1 DEF ListOK, Handled
    <3>5. chain[o].status = "closed" =>
            \/ ClosePending(o)'
            \/ UpToDate(o)' /\ (Remains(lists', o, told[o]) \/ (o \in misjudged' /\ Lingers(lists', o)))
      BY <2>1, <3>1, <3>2 DEF Known, Handled
    <3>6. ASSUME told[o] # {}, chain[o].status = "open"
          PROVE  /\ Listed(lists', o)
                 /\ TRUE \in told[o] => HasTriggered(lists', o)
                 /\ o \notin misjudged' => FillPending(o)' \/ getOrder(lists', o).filled = chain[o].filled
      <4>1. /\ ~Closes(o, record) /\ Listed(lists, o)
            /\ TRUE \in told[o] => HasTriggered(lists, o)
            /\ o \notin misjudged => FillPending(o) \/ getOrder(lists, o).filled = chain[o].filled
        BY <2>1, <3>2, <3>6 DEF Known, Open
      <4>2. TRUE \in told[o] => mustBeTriggered(o)
        BY <2>1 DEF ListOK, ChainOK
      <4> QED
        BY <3>1, <3>2, <3>3, <4>1, <4>2 DEF Handled
    <3>7. Known(o)'
      BY <1>1, <3>5, <3>6 DEF Known, Open
    <3> QED
      BY <3>2, <3>4, <3>7
  <2> QED
    BY <2>3, <2>4
<1> QED
  BY <1>4, <1>5 DEF BookIInv

-----------------------------------------------------------------------------
LEMMA InitOK == ASSUME BookAssumption, Init PROVE BookIInv
<1>1. /\ setting \in Settings /\ lists = NoLists /\ maxSlotForRestingLimitOrders = 0
      /\ told = [o \in Order |-> {}] /\ newest = 0 /\ misjudged = {} /\ now = 1 /\ log = <<>>
  BY DEF Init
<1>2. NoLists \in ListMaps /\ \A o \in Order : \A k \in Kind : NoLists[k][o] = None
  BY DEF NoLists, ListMaps
<1>3. /\ chain \in ChainStates /\ initialized \in BOOLEAN
      /\ \A o \in Order : chain[o].status = "absent" /\ chain[o].filled = 0 /\ chain[o].triggered = FALSE
  <2> DEFINE no == FALSE
             absent == [status |-> "absent", filled |-> 0, triggered |-> no]
  <2>1. initialized = no /\ chain = [o \in Order |-> absent] /\ no \in BOOLEAN
    BY DEF Init
  <2>2. absent.status = "absent" /\ absent.filled = 0 /\ absent.triggered = FALSE
    OBVIOUS
  <2> HIDE DEF no
  <2>3. absent \in [status : {"absent", "open", "closed", "expired"}, filled : 0 .. Base, triggered : BOOLEAN]
    BY <2>1 DEF BookAssumption
  <2> HIDE DEF absent
  <2> QED
    BY <2>1, <2>2, <2>3 DEF ChainStates
<1>4. Index = {} /\ log \in Seq(LogRecord)
  BY <1>1 DEF Index
<1>5. BookTypes
  BY <1>1, <1>2, <1>3, <1>4 DEF BookTypes, TypeOK, ListMaps, ChainStates, BookAssumption
<1>6. ASSUME NEW o \in Order PROVE ChainOK(o) /\ LogOK(o) /\ ListOK(o) /\ Known(o)
  <2>1. "restingLimit" \in Kind /\ "takingLimit" \in Kind
    BY DEF Kind
  <2>2. /\ ~Listed(lists, o) /\ WellPlaced(lists, o, {}) /\ \A slot, seen : Exact(lists, o, slot, seen)
        /\ told[o] = {}
    BY <1>1, <1>2, <2>1 DEF Listed, WellPlaced, Exact
  <2>3. ChainOK(o)
    BY <1>3 DEF ChainOK
  <2>4. LogOK(o)
    BY <1>4 DEF LogOK
  <2>5. ListOK(o)
    BY <1>1, <2>2 DEF ListOK
  <2>6. Known(o)
    BY <1>3, <2>2 DEF Known
  <2> QED
    BY <2>3, <2>4, <2>5, <2>6
<1> QED
  BY <1>5, <1>6 DEF BookIInv

LEMMA Step == ASSUME BookAssumption, BookIInv, [Next]_vars PROVE BookIInv'
<1>1. CASE AdvanceSlot
  BY <1>1, AdvanceKeeps
<1>2. ASSUME NEW o \in Order, Place(o) PROVE BookIInv'
  BY <1>2, PlaceKeeps
<1>3. ASSUME NEW o \in Order, TriggerOnChain(o) PROVE BookIInv'
  BY <1>3, TriggerKeeps
<1>4. ASSUME NEW o \in Order, CancelOnChain(o) \/ ExpireOnChain(o) PROVE BookIInv'
  BY <1>4, EndKeeps
<1>5. ASSUME NEW taker \in Order, NEW maker \in Order \cup {None}, FillOnChain(taker, maker) PROVE BookIInv'
  BY <1>5, FillKeeps
<1>6. ASSUME NEW slot \in CallSlot, initFromUserMap(slot) PROVE BookIInv'
  BY <1>6, SnapshotKeeps
<1>7. ASSUME NEW slot \in CallSlot, handleOrderRecord(slot) PROVE BookIInv'
  BY <1>7, OrderRecordKeeps
<1>8. ASSUME NEW slot \in CallSlot, handleOrderActionRecord(slot) PROVE BookIInv'
  BY <1>8, ActionRecordKeeps
<1>9. ASSUME NEW slot \in CallSlot, View(slot) PROVE BookIInv'
  BY <1>9, ViewKeeps
<1>10. CASE IgnoreActionRecord
  BY <1>10, IgnoreKeeps
<1>11. CASE clear
  BY <1>11, ClearKeeps
<1>12. CASE UNCHANGED vars
  <2>1. /\ setting' = setting /\ lists' = lists /\ initialized' = initialized /\ told' = told /\ log' = log
        /\ newest' = newest /\ misjudged' = misjudged
        /\ now' = now /\ chain' = chain /\ maxSlotForRestingLimitOrders' = maxSlotForRestingLimitOrders
    BY <1>12 DEF vars, history
  <2>2. BookTypes'
    BY <2>1 DEF BookIInv, BookTypes, TypeOK, Index
  <2>3. ASSUME NEW o \in Order PROVE ChainOK(o)' /\ LogOK(o)' /\ ListOK(o)' /\ Known(o)'
    BY <2>1 DEF BookIInv, ChainOK, LogOK, ListOK, Known, Open, FillPending, ClosePending, UpToDate, Index
  <2> QED
    BY <2>2, <2>3 DEF BookIInv
<1> QED
  BY <1>1, <1>2, <1>3, <1>4, <1>5, <1>6, <1>7, <1>8, <1>9, <1>10, <1>11, <1>12 DEF Next

LEMMA BookInvariance == ASSUME BookAssumption PROVE Spec => []BookIInv
<1>1. Init => BookIInv
  BY InitOK
<1>2. BookIInv /\ [Next]_vars => BookIInv'
  BY Step
<1> QED
  BY <1>1, <1>2, PTL DEF Spec

-----------------------------------------------------------------------------
(* Once the records of an order are handled, the book has it exactly if it  *)
(* is open on the chain, with what is filled of it: handleOrderActionRecord *)
(* finds it on whichever side of the end of its auction it is.  What a      *)
(* closed order may leave are the nodes of one that a caller's old slot     *)
(* made a method look for in the wrong list, and a node in trigger of one   *)
(* that was inserted both as it was placed and as it is, triggered.         *)
THEOREM BookHasTheOpenOrders == ASSUME BookAssumption PROVE Spec => []BookIsTheOpenOrders
<1>1. ASSUME BookIInv PROVE BookIsTheOpenOrders
  <2>1. ASSUME NEW o \in Order, chain[o].status = "closed", UpToDate(o), Listed(lists, o)
        PROVE  \/ o \in misjudged /\ KindsWith(o) \subseteq {"restingLimit", "takingLimit", "trigger"}
               \/ InsertedAsBoth(o) /\ KindsWith(o) = {"trigger"}
    <3>1. Known(o)
      BY <1>1 DEF BookIInv
    <3>2. ~ClosePending(o)
      BY <2>1, RecordFacts DEF ClosePending, UpToDate, Index
    <3>3. Remains(lists, o, told[o]) \/ (o \in misjudged /\ Lingers(lists, o))
      BY <2>1, <3>1, <3>2 DEF Known
    <3>4. Lingers(lists, o) => KindsWith(o) \subseteq {"restingLimit", "takingLimit", "trigger"}
      BY DEF Lingers, KindsWith
    <3>5. Remains(lists, o, told[o]) => InsertedAsBoth(o) /\ KindsWith(o) = {"trigger"}
      BY <2>1 DEF Remains, KindsWith, InsertedAsBoth, Listed
    <3> QED
      BY <3>3, <3>4, <3>5
  <2>2. ASSUME NEW o \in Order, told[o] # {}, Open(o), UpToDate(o)
        PROVE  /\ Listed(lists, o)
               /\ o \notin misjudged => getOrder(lists, o).filled = chain[o].filled
               /\ getOrder(lists, o).triggered <=> TRUE \in told[o]
    <3>1. Known(o) /\ ListOK(o) /\ lists \in ListMaps /\ told[o] \in SUBSET BOOLEAN
      BY <1>1 DEF BookIInv, BookTypes, TypeOK, ListMaps
    <3>2. ~FillPending(o)
      BY <2>2, RecordFacts DEF FillPending, UpToDate, Index
    <3>3. /\ Listed(lists, o) /\ (TRUE \in told[o] => HasTriggered(lists, o))
          /\ o \notin misjudged => getOrder(lists, o).filled = chain[o].filled
      BY <2>2, <3>1, <3>2 DEF Known
    <3>4. getOrder(lists, o).triggered \in told[o]
      <4>1. PICK k \in Kind : lists[k][o] # None /\ getOrder(lists, o) = lists[k][o].order
        BY <3>3, Found
      <4> QED
        BY <3>1, <4>1 DEF ListOK, WellPlaced
    <3>5. ASSUME TRUE \in told[o] PROVE getOrder(lists, o).triggered
      <4>1. /\ WellPlaced(lists, o, told[o]) /\ HasTriggered(lists, o)
            /\ mustBeTriggered(o)
        BY <1>1, <3>1, <3>3, <3>5 DEF ListOK, BookIInv, ChainOK
      <4> QED
        BY <4>1, TriggeredIsFound
    <3>6. getOrder(lists, o).triggered => TRUE \in told[o]
      BY <3>1, <3>4
    <3> QED
      BY <3>3, <3>5, <3>6
  <2> QED
    BY <2>1, <2>2 DEF BookIsTheOpenOrders, ClosedOrdersLeave, OpenOrdersStay
<1>2. BookIInv => BookIsTheOpenOrders
  BY <1>1
<1> QED
  BY <1>2, BookInvariance, PTL

(* An order is in the list that getListForOrder gives for its node at the   *)
(* newest slot that the methods were called with, or was put there before   *)
(* its auction ended and no method has looked since; and in no other,       *)
(* unless it was inserted twice.  Left out is an order that a method was    *)
(* given too old a slot for.                                                *)
THEOREM TakersBecomeMakers == ASSUME BookAssumption PROVE Spec => []ListsAgreeWithAuctions
<1>1. ASSUME BookIInv, NEW o \in Order \ misjudged, NEW kind \in Kind, lists[kind][o] # None
      PROVE  \E slot \in {newest, maxSlotForRestingLimitOrders} :
                 kind = getListForOrder(o, lists[kind][o].order, slot)
  <2>1. WellPlaced(lists, o, told[o]) /\ Exact(lists, o, newest, maxSlotForRestingLimitOrders)
    BY <1>1 DEF BookIInv, ListOK
  <2>2. kind \in KindsOf(o, lists[kind][o].order)
    BY <1>1, <2>1 DEF WellPlaced
  <2>3. CASE kind = "restingLimit"
    BY <1>1, <2>1, <2>2, <2>3 DEF Exact, KindsOf, getListForOrder
  <2>4. CASE kind = "takingLimit"
    BY <1>1, <2>1, <2>2, <2>4 DEF Exact, KindsOf, getListForOrder
  <2>5. CASE kind \notin {"restingLimit", "takingLimit"}
    BY <2>2, <2>5 DEF KindsOf, getListForOrder
  <2> QED
    BY <2>3, <2>4, <2>5
<1>2. ASSUME BookIInv, NEW o \in Order \ misjudged
      PROVE  LET kinds == KindsWith(o) \ (IF InsertedAsBoth(o) THEN {"trigger"} ELSE {}) IN
             \/ Cardinality(kinds) <= 1
             \/ kinds = {"takingLimit", "restingLimit"} /\ isRestingLimitOrder(o, newest)
  <2> DEFINE kinds == KindsWith(o) \ (IF InsertedAsBoth(o) THEN {"trigger"} ELSE {})
  <2>1. /\ WellPlaced(lists, o, told[o]) /\ Exact(lists, o, newest, maxSlotForRestingLimitOrders)
        /\ told[o] \in SUBSET BOOLEAN
    BY <1>2 DEF BookIInv, BookTypes, TypeOK, ListOK
  <2>2. CASE \E k \in Kind : kinds \subseteq {k}
    <3>1. PICK k \in Kind : kinds = {} \/ kinds = {k}
      BY <2>2
    <3> HIDE DEF kinds
    <3>2. Cardinality(kinds) = 0 \/ Cardinality(kinds) = 1
      BY <3>1, FS_EmptySet, FS_Singleton
    <3> QED
      BY <3>2 DEF kinds
  <2>3. CASE ~ \E k \in Kind : kinds \subseteq {k}
    <3>1. PICK j \in Kind, k \in Kind : j # k /\ j \in kinds /\ k \in kinds
      BY <2>3 DEF KindsWith, Kind
    <3>2. /\ lists[j][o] # None /\ lists[k][o] # None
          /\ j \in KindsOf(o, lists[j][o].order) /\ lists[j][o].order.triggered \in told[o]
          /\ k \in KindsOf(o, lists[k][o].order) /\ lists[k][o].order.triggered \in told[o]
      BY <2>1, <3>1 DEF WellPlaced, KindsWith
    <3>3. lists \in ListMaps
      BY <1>2 DEF BookIInv, BookTypes, TypeOK, ListMaps
    <3>4. \A l \in kinds : l = "trigger" => \A m \in kinds : m = "trigger"
      <4> SUFFICES ASSUME NEW l \in kinds, NEW m \in kinds, l = "trigger", m # "trigger" PROVE FALSE
        OBVIOUS
      <4>1. /\ l \in Kind /\ m \in Kind /\ lists[l][o] # None /\ lists[m][o] # None /\ ~InsertedAsBoth(o)
        BY DEF KindsWith
      <4>2. /\ l \in KindsOf(o, lists[l][o].order) /\ lists[l][o].order.triggered \in told[o]
            /\ m \in KindsOf(o, lists[m][o].order) /\ lists[m][o].order.triggered \in told[o]
        BY <2>1, <4>1 DEF WellPlaced
      <4>3. lists[l][o].order.triggered \in BOOLEAN /\ lists[m][o].order.triggered \in BOOLEAN
        BY <2>1, <4>2
      <4>4. ~lists[l][o].order.triggered /\ lists[m][o].order.triggered
        BY <4>2 DEF KindsOf
      <4>5. told[o] = BOOLEAN
        BY <2>1, <4>2, <4>3, <4>4
      <4> QED
        BY <4>1, <4>5 DEF InsertedAsBoth
    <3>5. \A l \in kinds : l \in {"restingLimit", "takingLimit"}
      <4>1. j # "trigger" /\ k # "trigger"
        BY <3>1, <3>4
      <4>2. j \in {"restingLimit", "takingLimit"} /\ k \in {"restingLimit", "takingLimit"}
        BY <3>1, <3>2, <4>1 DEF KindsOf
      <4>3. isLimitOrder(o) /\ ~Floating[o]
        BY <3>2, <4>1, <4>2 DEF KindsOf
      <4> SUFFICES ASSUME NEW l \in kinds PROVE l \in {"restingLimit", "takingLimit"}
        OBVIOUS
      <4>4. l \in Kind /\ lists[l][o] # None /\ l # "trigger"
        BY <3>4, <4>1, <3>1 DEF KindsWith
      <4>5. l \in KindsOf(o, lists[l][o].order)
        BY <2>1, <4>4 DEF WellPlaced
      <4> QED
        BY <4>3, <4>4, <4>5 DEF KindsOf
    <3>6. kinds = {"takingLimit", "restingLimit"}
      BY <3>1, <3>5
    <3>7. lists["restingLimit"][o] # None
      BY <3>6 DEF KindsWith
    <3> QED
      BY <2>1, <3>6, <3>7 DEF Exact
  <2> QED
    BY <2>2, <2>3
<1>3. BookIInv => ListsAgreeWithAuctions
  BY <1>1, <1>2 DEF ListsAgreeWithAuctions, TheRightList, OneListPerOrder, BookIInv, BookTypes
<1> QED
  BY <1>3, BookInvariance, PTL

(* Both: the book is what is open on the chain, once it has caught up, and  *)
(* every order is in the list it belongs in.                                *)
THEOREM BookFollowsTheChain == ASSUME BookAssumption PROVE Spec => []BookIsTheChains
<1>1. BookIsTheOpenOrders /\ ListsAgreeWithAuctions => BookIsTheChains
  BY DEF BookIsTheChains
<1> QED
  BY <1>1, BookHasTheOpenOrders, TakersBecomeMakers, PTL
=============================================================================
