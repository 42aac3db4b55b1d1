--------------------------- MODULE OrderSubscriber ---------------------------
(***************************************************************************)
(* orderSubscriber/OrderSubscriber.ts with its two subscriptions, and       *)
(* dlob/DLOBSubscriber.ts over it: the accounts of users with open orders,  *)
(* from fetches that are applied one account per turn of the event loop and *)
(* from notifications, the events about new orders, and the book that is    *)
(* rebuilt from the accounts on an interval.                                *)
(*                                                                         *)
(* An account is the list of its versions.  An answer holds, for a slot,    *)
(* the version of that slot; when the commitment is "processed", also an    *)
(* earlier one, and a slot may have several versions.                       *)
(***************************************************************************)
EXTENDS Naturals, Sequences

CONSTANTS
    User, Order,
    Owner,              \* the user of each order
    None,
    Configs,            \* configurations: polling, decodeData, resync, skipInitialLoad,
                        \* and whether the commitment is "processed"
    MaxTransactions,    \* bound: transactions of the chain
    MaxFailures,        \* bound: fetches that fail
    MaxUnsubscribes     \* bound: calls of unsubscribe()

ASSUME OrderSubscriberAssumption ==
    /\ Owner \in [Order -> User] /\ None \notin [slot : Nat, version : Nat]
    /\ Configs \subseteq [polling : BOOLEAN, decoded : BOOLEAN, resync : BOOLEAN,
                          skipInitialLoad : BOOLEAN, processed : BOOLEAN]
    /\ {MaxTransactions, MaxFailures, MaxUnsubscribes} \subseteq Nat

VARIABLES
    now,                \* slot of the chain
    versions,           \* versions[u]: slot, open orders and lastActiveSlot
    placed,             \* slot in which each order was placed, 0: not yet
    transactions,       \* how many there have been
    config,
    usersAccounts,      \* entry of each user, or None
    mostRecentSlot,
    fetchPromise,       \* the fetch that runs, and the accounts left to apply
    announced,          \* history: how often orderCreated named each order
    intervalId,         \* polling: TRUE while the interval is set
    subscriber,         \* websocket: "none", "on" or "leaving"
    awaitsFetch,        \* websocket: subscribe() waits for its fetch
    resync,             \* websocket: "off", "armed" or "fetching"
    baseline,           \* websocket: version of each account when the node began to listen,
                        \* None: it does not yet
    seen,               \* websocket: latest version the program subscription passed on
    dlob,               \* DLOBSubscriber: orders of the book
    dlobInterval,
    failures, unsubscribes

chain == <<now, versions, placed, transactions>>
subscription == <<intervalId, subscriber, awaitsFetch, resync, baseline, seen>>
book  == <<dlob, dlobInterval>>
vars  == <<chain, config, usersAccounts, mostRecentSlot, fetchPromise, announced, subscription,
           book, failures, unsubscribes>>

Idle == [at |-> "none", slot |-> 0, left |-> <<>>]
Last(u) == versions[u][Len(versions[u])]
OrdersOf(u) == {o \in Order : Owner[o] = u}

TypeOK ==
    /\ now \in 1 .. MaxTransactions + 1
    /\ \A u \in User : versions[u] \in Seq([slot : 1 .. now, open : SUBSET OrdersOf(u), active : 0 .. now])
    /\ placed \in [Order -> 0 .. now]
    /\ transactions \in 0 .. MaxTransactions
    /\ config \in Configs
    /\ \A u \in User : usersAccounts[u] # None =>
           usersAccounts[u].slot \in 1 .. now /\ usersAccounts[u].version \in 1 .. Len(versions[u])
    /\ mostRecentSlot \in 0 .. now
    /\ fetchPromise.at \in {"none", "asked", "applying"}
    /\ subscriber \in {"none", "on", "leaving"} /\ resync \in {"off", "armed", "fetching"}
    /\ dlob \subseteq Order

Init ==
    /\ now = 1
    /\ versions = [u \in User |-> <<[slot |-> 1, open |-> {}, active |-> 0]>>]
    /\ placed = [o \in Order |-> 0]
    /\ transactions = 0
    /\ config \in Configs
    /\ usersAccounts = [u \in User |-> None]
    /\ mostRecentSlot = 0
    /\ fetchPromise = Idle
    /\ announced = [o \in Order |-> 0]
    /\ intervalId = FALSE
    /\ subscriber = "none" /\ awaitsFetch = FALSE /\ resync = "off"
    /\ baseline = None /\ seen = [u \in User |-> 0]
    /\ dlob = {} /\ dlobInterval = FALSE
    /\ failures = 0 /\ unsubscribes = 0

client == <<config, usersAccounts, mostRecentSlot, fetchPromise, announced, subscription, book,
            failures, unsubscribes>>

(* A transaction opens or closes an order, in this slot or in the next;     *)
(* a fill leaves the user's lastActiveSlot.                                 *)
Transaction(o) ==
    \E slot \in {now + 1} \cup (IF config.processed THEN {now} ELSE {}), filled \in BOOLEAN :
        LET u == Owner[o]
            opens == placed[o] = 0
        IN  /\ transactions < MaxTransactions
            /\ transactions' = transactions + 1
            /\ opens \/ o \in Last(u).open
            /\ opens => ~filled
            /\ now' = slot
            /\ placed' = [placed EXCEPT ![o] = IF opens THEN slot ELSE @]
            /\ versions' = [versions EXCEPT ![u] = Append(@,
                   [slot |-> slot,
                    open |-> IF opens THEN Last(u).open \cup {o} ELSE Last(u).open \ {o},
                    active |-> IF filled THEN Last(u).active ELSE slot])]
            /\ UNCHANGED client

(* The versions that a node may answer for a slot.  Unless processed, a     *)
(* slot is answered and notified when it is complete.                       *)
Answers(u, slot) ==
    {v \in 1 .. Len(versions[u]) :
        /\ versions[u][v].slot <= slot
        /\ v < Len(versions[u]) =>
               versions[u][v + 1].slot > slot \/ (config.processed /\ versions[u][v + 1].slot = slot)}

-----------------------------------------------------------------------------
(* Updates of one account.                                                  *)

(* Mutant: the slot of the stored account is not excluded.                  *)
newOrdersAgain(u, v, slot) ==
    {o \in versions[u][v].open :
        /\ placed[o] <= slot
        /\ usersAccounts[u] # None => placed[o] >= usersAccounts[u].slot}

newOrders(u, v, slot) ==
    {o \in versions[u][v].open :
        /\ placed[o] <= slot
        /\ usersAccounts[u] # None => placed[o] > usersAccounts[u].slot}

(* Mutant: only the lastActiveSlot is compared.                             *)
IgnoredIfLessActive(u, v, slot, dataType) ==
    /\ usersAccounts[u] # None
    /\ versions[u][usersAccounts[u].version].active > versions[u][v].active

(* An older slot is ignored, and so is, unless it came decoded, an account  *)
(* with a lower lastActiveSlot.                                             *)
Ignored(u, v, slot, dataType) ==
    /\ usersAccounts[u] # None
    /\ \/ usersAccounts[u].slot > slot
       \/ /\ dataType # "decoded"
          /\ versions[u][usersAccounts[u].version].active > versions[u][v].active

tryUpdateUserAccount(u, v, slot, dataType) ==
    /\ mostRecentSlot' = IF slot > mostRecentSlot THEN slot ELSE mostRecentSlot
    /\ IF Ignored(u, v, slot, dataType) THEN UNCHANGED <<usersAccounts, announced>>
       ELSE /\ usersAccounts' = [usersAccounts EXCEPT ![u] = [slot |-> slot, version |-> v]]
            /\ announced' = [o \in Order |->
                   IF o \in newOrders(u, v, slot) THEN announced[o] + 1 ELSE announced[o]]

-----------------------------------------------------------------------------
(* Fetches.  Whoever calls fetch() while one runs waits for that one.       *)

Started == IF fetchPromise.at = "none" THEN [Idle EXCEPT !.at = "asked"] ELSE fetchPromise

(* Mutant: a fetch that ends leaves its promise.                            *)
FetchSettlesKeepingPromise ==
    /\ fetchPromise' = [Idle EXCEPT !.at = "applying"]
    /\ awaitsFetch' = FALSE /\ resync' = resync
    /\ UNCHANGED <<intervalId, subscriber, baseline, seen>>

(* The fetch ends: subscribe() of a websocket arms the resync timer, and so *)
(* does a resync unless unsubscribe() has cleared it.                       *)
FetchSettles ==
    /\ fetchPromise' = Idle
    /\ awaitsFetch' = FALSE
    /\ resync' = IF (awaitsFetch /\ config.resync) \/ resync = "fetching" THEN "armed" ELSE resync
    /\ UNCHANGED <<intervalId, subscriber, baseline, seen>>

(* The answer lists the accounts with open orders, in some order.           *)
FetchAnswered(slot) ==
    /\ fetchPromise.at = "asked"
    /\ \E answer \in [User -> 1 .. MaxTransactions + 1] :
           /\ \A u \in User : answer[u] \in Answers(u, slot)
           /\ LET listed == {u \in User : versions[u][answer[u]].open # {}}
              IN  IF listed = {} THEN FetchSettles
                  ELSE /\ fetchPromise' = [at |-> "applying", slot |-> slot,
                                           left |-> [u \in listed |-> answer[u]]]
                       /\ UNCHANGED subscription
    /\ UNCHANGED <<chain, config, usersAccounts, mostRecentSlot, announced, book, failures, unsubscribes>>

FetchApplies(u) ==
    LET rest == DOMAIN fetchPromise.left \ {u}
    IN  /\ fetchPromise.at = "applying" /\ u \in DOMAIN fetchPromise.left
        /\ tryUpdateUserAccount(u, fetchPromise.left[u], fetchPromise.slot, "raw")
        /\ IF rest = {} THEN FetchSettles
           ELSE /\ fetchPromise' = [fetchPromise EXCEPT !.left = [w \in rest |-> fetchPromise.left[w]]]
                /\ UNCHANGED subscription
        /\ UNCHANGED <<chain, config, book, failures, unsubscribes>>

FetchFails ==
    /\ fetchPromise.at = "asked" /\ failures < MaxFailures
    /\ failures' = failures + 1
    /\ FetchSettles
    /\ UNCHANGED <<chain, config, usersAccounts, mostRecentSlot, announced, book, unsubscribes>>

-----------------------------------------------------------------------------
(* Subscriptions.                                                           *)

subscribe ==
    /\ IF config.polling
       THEN /\ ~intervalId
            /\ intervalId' = TRUE
            /\ fetchPromise' = Started
            /\ UNCHANGED <<subscriber, awaitsFetch, resync, baseline, seen>>
       ELSE /\ subscriber = "none"
            /\ subscriber' = "on"
            /\ baseline' = None /\ seen' = [u \in User |-> 0]
            /\ IF config.skipInitialLoad
               THEN /\ resync' = IF config.resync THEN "armed" ELSE resync
                    /\ UNCHANGED <<awaitsFetch, fetchPromise>>
               ELSE awaitsFetch' = TRUE /\ fetchPromise' = Started /\ UNCHANGED resync
            /\ UNCHANGED intervalId
    /\ UNCHANGED <<chain, config, usersAccounts, mostRecentSlot, announced, book, failures, unsubscribes>>

(* The interval of the polling subscription, and the resync timer.          *)
IntervalFires ==
    /\ intervalId /\ fetchPromise.at = "none"
    /\ fetchPromise' = Started
    /\ UNCHANGED <<chain, config, usersAccounts, mostRecentSlot, announced, subscription, book,
                   failures, unsubscribes>>
recursiveResync ==
    /\ resync = "armed"
    /\ resync' = "fetching"
    /\ fetchPromise' = Started
    /\ UNCHANGED <<chain, config, usersAccounts, mostRecentSlot, announced, intervalId, subscriber,
                   awaitsFetch, baseline, seen, book, failures, unsubscribes>>

(* The node begins to listen some time after subscribe() has asked it to.    *)
ListensFrom ==
    /\ subscriber # "none" /\ baseline = None
    /\ baseline' = [u \in User |-> Len(versions[u])]
    /\ UNCHANGED <<chain, config, usersAccounts, mostRecentSlot, fetchPromise, announced, intervalId,
                   subscriber, awaitsFetch, resync, seen, book, failures, unsubscribes>>

(* From then on the program subscription passes on the versions that are    *)
(* new, in order, and none that was there before.                           *)
Notified(u, v) ==
    /\ subscriber # "none" /\ baseline # None /\ v > baseline[u] /\ v > seen[u]
    /\ seen' = [seen EXCEPT ![u] = v]
    /\ tryUpdateUserAccount(u, v, versions[u][v].slot, IF config.decoded THEN "decoded" ELSE "buffer")
    /\ UNCHANGED <<chain, config, fetchPromise, intervalId, subscriber, awaitsFetch, resync, baseline,
                   book, failures, unsubscribes>>

(* unsubscribe() clears the accounts first; a fetch that runs goes on.      *)
unsubscribe ==
    /\ unsubscribes < MaxUnsubscribes
    /\ unsubscribes' = unsubscribes + 1
    /\ usersAccounts' = [u \in User |-> None]
    /\ intervalId' = FALSE
    /\ subscriber' = IF subscriber = "on" THEN "leaving" ELSE subscriber
    /\ UNCHANGED <<chain, config, mostRecentSlot, fetchPromise, announced, awaitsFetch, resync,
                   baseline, seen, book, failures>>
unsubscribeReturns ==
    /\ subscriber = "leaving"
    /\ subscriber' = "none"
    /\ resync' = "off"
    /\ UNCHANGED <<chain, config, usersAccounts, mostRecentSlot, fetchPromise, announced, intervalId,
                   awaitsFetch, baseline, seen, book, failures, unsubscribes>>

-----------------------------------------------------------------------------
(* DLOBSubscriber: the book is built from the accounts in one turn.         *)

getDLOB == UNION {IF usersAccounts[u] = None THEN {} ELSE versions[u][usersAccounts[u].version].open : u \in User}
DLOBSubscribe ==
    /\ ~dlobInterval
    /\ dlobInterval' = TRUE
    /\ dlob' = getDLOB
    /\ UNCHANGED <<chain, config, usersAccounts, mostRecentSlot, fetchPromise, announced, subscription,
                   failures, unsubscribes>>
updateDLOB ==
    /\ dlobInterval /\ dlob # getDLOB
    /\ dlob' = getDLOB
    /\ UNCHANGED <<chain, config, usersAccounts, mostRecentSlot, fetchPromise, announced, subscription,
                   dlobInterval, failures, unsubscribes>>
DLOBUnsubscribe ==
    /\ dlobInterval /\ unsubscribes < MaxUnsubscribes
    /\ unsubscribes' = unsubscribes + 1
    /\ dlobInterval' = FALSE
    /\ UNCHANGED <<chain, config, usersAccounts, mostRecentSlot, fetchPromise, announced, subscription,
                   dlob, failures>>

Next ==
    \/ \E o \in Order : Transaction(o)
    \/ \E slot \in 1 .. now : FetchAnswered(slot)
    \/ \E u \in User : FetchApplies(u)
    \/ FetchFails
    \/ subscribe \/ unsubscribe \/ unsubscribeReturns
    \/ IntervalFires \/ recursiveResync \/ ListensFrom
    \/ \E u \in User : \E v \in 1 .. Len(versions[u]) : Notified(u, v)
    \/ DLOBSubscribe \/ updateDLOB \/ DLOBUnsubscribe

(* Timers fire, answers come and are at last of the newest slot, and the    *)
(* latest version of an account is notified if it came after the node began *)
(* to listen.                                                               *)
Fairness ==
    /\ WF_vars(IntervalFires) /\ WF_vars(recursiveResync) /\ WF_vars(updateDLOB)
    /\ SF_vars(FetchAnswered(now)) /\ WF_vars(unsubscribeReturns)
    /\ \A u \in User : WF_vars(FetchApplies(u)) /\ WF_vars(Notified(u, Len(versions[u])))

Spec == Init /\ [][Next]_vars /\ Fairness

-----------------------------------------------------------------------------
(* However fetches and notifications interleave, the account of a user is   *)
(* never replaced by one of an earlier slot, and no order is announced      *)
(* twice while the subscriber keeps its accounts.                           *)
AccountsMoveForward ==
    [][\A u \in User : usersAccounts[u] # None /\ usersAccounts'[u] # None =>
           /\ usersAccounts'[u].slot >= usersAccounts[u].slot
           /\ ~config.processed => usersAccounts'[u].version >= usersAccounts[u].version]_vars
AnnouncedOnce == unsubscribes = 0 => \A o \in Order : announced[o] <= 1

(* When a slot has one version of an account, every order that the map      *)
(* holds has been announced.                                                *)
HeldOrdersAnnounced ==
    ~config.processed => \A u \in User : usersAccounts[u] # None =>
        \A o \in versions[u][usersAccounts[u].version].open : announced[o] >= 1

OrdersAnnounced == TypeOK /\ AnnouncedOnce /\ HeldOrdersAnnounced

(* Unless processed, a book that stays subscribed comes to hold every order *)
(* that stays open, when the subscriber polls or resyncs; and with a        *)
(* websocket, exactly the open orders of each user whose account changed    *)
(* since the node began to listen, whatever fetches answer late.            *)
(* Not more: a subscriber asks for the accounts with orders only and keeps  *)
(* the last one of a user whose orders are all closed; and without a resync *)
(* what happened between a lagging first fetch and the node's listening is  *)
(* missed.                                                                  *)
IsNotified(u) == subscriber = "on" /\ baseline # None /\ Len(versions[u]) > baseline[u]
BookFollows(u) ==
    /\ config.polling \/ config.resync => Last(u).open \subseteq dlob
    /\ IsNotified(u) => dlob \cap OrdersOf(u) = Last(u).open
BookFollowsTheChain ==
    unsubscribes = 0 /\ ~config.processed /\ dlobInterval /\ (intervalId \/ subscriber = "on") ~>
        unsubscribes > 0 \/ \A u \in User : BookFollows(u)
=============================================================================
