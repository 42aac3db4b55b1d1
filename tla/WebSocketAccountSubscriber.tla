---------------------- MODULE WebSocketAccountSubscriber ----------------------
(***************************************************************************)
(* accounts/webSocketAccountSubscriber.ts and the subscribers that own one  *)
(* (webSocketUserAccountSubscriber.ts and its siblings): a websocket        *)
(* listener that is replaced when no notification came for resubTimeoutMs.  *)
(* All the subscribers of a client are given one resubOpts object           *)
(* (webSocketClientAccountSubscriber.ts), so resubTimeoutMs is shared.      *)
(*                                                                         *)
(* client[s] is the owner's isSubscribed together with the call it awaits,  *)
(* resub[s] the timer's callback, which unsubscribes and subscribes again.  *)
(***************************************************************************)
EXTENDS Integers, FiniteSets

CONSTANTS
    Sub,             \* account subscribers that share one resubOpts
    Value,           \* account buffers
    None,            \* undefined, or an account that does not exist
    MaxSlot,         \* bound: the last slot of the chain
    Ledger,          \* Ledger[s][slot]: the account of s on chain
    Listener,        \* listener ids of the connection; freed ids are used again
    ResubConfigured, \* TRUE: the application gave a resubTimeoutMs
    FetchMayFail,    \* TRUE: getAccountInfoAndContext may reject
    ResubRaces       \* TRUE: unsubscribe may be called during a resubscription

Slot == 1 .. MaxSlot
Entry == [slot : 0 .. MaxSlot, value : Value \cup {None}]

ASSUME NoneAssumption == None \notin Value /\ None \notin Listener /\ None \notin Entry
ASSUME SlotAssumption == MaxSlot \in Nat \ {0}
ASSUME LedgerAssumption == Ledger \in [Sub -> [Slot -> Value \cup {None}]]
ASSUME SwitchAssumption ==
    ResubConfigured \in BOOLEAN /\ FetchMayFail \in BOOLEAN /\ ResubRaces \in BOOLEAN

VARIABLES
    head,             \* the chain's newest slot
    listeners,        \* listeners[s]: ids whose callback the connection calls
    resubTimeoutMs,   \* TRUE while the shared option is defined
    client, resub,
    fetching,         \* a fetch() of the owner is in flight
    listenerId, isUnsubscribing, receivingData, timeoutId,
    bufferAndSlot, dataAndSlot,
    seen              \* history: slot of the data last given to onChange

connection == <<head, listeners>>
stored == <<bufferAndSlot, dataAndSlot, seen>>
flags == <<listenerId, isUnsubscribing, receivingData, timeoutId>>
vars == <<connection, resubTimeoutMs, client, resub, fetching, flags, stored>>

Init ==
    /\ head = 1
    /\ listeners = [s \in Sub |-> {}]
    /\ resubTimeoutMs = ResubConfigured
    /\ client = [s \in Sub |-> "off"]
    /\ resub = [s \in Sub |-> "none"]
    /\ fetching = [s \in Sub |-> FALSE]
    /\ listenerId = [s \in Sub |-> None]
    /\ isUnsubscribing = [s \in Sub |-> FALSE]
    /\ receivingData = [s \in Sub |-> FALSE]
    /\ timeoutId = [s \in Sub |-> FALSE]
    /\ bufferAndSlot = [s \in Sub |-> None]
    /\ dataAndSlot = [s \in Sub |-> None]
    /\ seen = [s \in Sub |-> 0]

AdvanceChain ==
    /\ head < MaxSlot
    /\ head' = head + 1
    /\ UNCHANGED <<listeners, resubTimeoutMs, client, resub, fetching, flags, stored>>

-----------------------------------------------------------------------------
(* handleRpcResponse keeps a first response whatever it holds, and then any *)
(* account that differs from the stored one and is not of an older slot.    *)
Newer(old, slot, value) ==
    old # None => slot >= old.slot /\ value # None /\ value # old.value

HandleRpcResponse(s, slot) ==
    LET value == Ledger[s][slot]
        entry == [slot |-> slot, value |-> value]
        taken == Newer(bufferAndSlot[s], slot, value)
    IN  /\ bufferAndSlot' = [bufferAndSlot EXCEPT ![s] = IF taken THEN entry ELSE @]
        /\ dataAndSlot' = [dataAndSlot EXCEPT ![s] = IF taken /\ value # None THEN entry ELSE @]
        /\ seen' = [seen EXCEPT ![s] = IF taken /\ value # None THEN slot ELSE @]

-----------------------------------------------------------------------------
(* subscribe(), called by the owner and by the watchdog's callback.         *)

Actor == {"client", "resub"}
At(s, a, phase) == IF a = "client" THEN client[s] = phase ELSE resub[s] = phase
GoesTo(s, a, phase) ==
    IF a = "client" THEN client' = [client EXCEPT ![s] = phase] /\ UNCHANGED resub
                    ELSE resub' = [resub EXCEPT ![s] = phase] /\ UNCHANGED client

Done(a)   == IF a = "client" THEN "on" ELSE "none"
Failed(a) == IF a = "client" THEN "off" ELSE "none"

(* The owner subscribes with a new WebSocketAccountSubscriber and may hand  *)
(* over an account it has already, without telling its slot (0).            *)
ClientSubscribe(s) ==
    /\ client[s] = "off" /\ resub[s] = "none" /\ ~fetching[s]
    /\ client' = [client EXCEPT ![s] = "subscribing"]
    /\ \E supplied \in {None} \cup {[slot |-> 0, value |-> v] : v \in {Ledger[s][i] : i \in 1 .. head} \ {None}} :
          dataAndSlot' = [dataAndSlot EXCEPT ![s] = supplied]
    /\ bufferAndSlot' = [bufferAndSlot EXCEPT ![s] = None]
    /\ seen' = [seen EXCEPT ![s] = 0]
    /\ listenerId' = [listenerId EXCEPT ![s] = None]
    /\ isUnsubscribing' = [isUnsubscribing EXCEPT ![s] = FALSE]
    /\ receivingData' = [receivingData EXCEPT ![s] = FALSE]
    /\ UNCHANGED <<connection, resubTimeoutMs, resub, fetching, timeoutId>>

(* onAccountChange hands out a listener; the watchdog starts with it.       *)
Register(s) ==
    /\ \E id \in Listener \ (listeners[s] \cup {listenerId[s]}) :
          /\ listeners' = [listeners EXCEPT ![s] = @ \cup {id}]
          /\ listenerId' = [listenerId EXCEPT ![s] = id]
    /\ receivingData' = [receivingData EXCEPT ![s] = @ \/ resubTimeoutMs]
    /\ timeoutId' = [timeoutId EXCEPT ![s] = @ \/ resubTimeoutMs]

(* subscribe() up to its first await: it fetches when there is no data and  *)
(* registers otherwise.  Its early return, when there is a listener or one  *)
(* is being removed, is met by neither actor (EarlyReturnNotTaken).         *)
SubscribeFetches(s, a) ==
    /\ At(s, a, "subscribing")
    /\ listenerId[s] = None /\ ~isUnsubscribing[s] /\ dataAndSlot[s] = None
    /\ GoesTo(s, a, "fetching")
    /\ UNCHANGED <<connection, resubTimeoutMs, fetching, flags, stored>>

SubscribeRegisters(s, a) ==
    /\ At(s, a, "subscribing")
    /\ listenerId[s] = None /\ ~isUnsubscribing[s] /\ dataAndSlot[s] # None
    /\ GoesTo(s, a, Done(a))
    /\ Register(s)
    /\ UNCHANGED <<head, resubTimeoutMs, fetching, isUnsubscribing, stored>>

(* The fetch that subscribe() awaits is answered.                           *)
SubscribeFetched(s, a, slot) ==
    /\ At(s, a, "fetching")
    /\ GoesTo(s, a, Done(a))
    /\ HandleRpcResponse(s, slot)
    /\ Register(s)
    /\ UNCHANGED <<head, resubTimeoutMs, fetching, isUnsubscribing>>

SubscribeFetchFails(s, a) ==
    /\ FetchMayFail
    /\ At(s, a, "fetching")
    /\ GoesTo(s, a, Failed(a))
    /\ UNCHANGED <<connection, resubTimeoutMs, fetching, flags, stored>>

-----------------------------------------------------------------------------
(* A subscribed owner: notifications, fetch() and updateData().             *)

Notification(s, slot) ==
    /\ listeners[s] # {}
    /\ Ledger[s][slot] # None
    /\ HandleRpcResponse(s, slot)
    /\ receivingData' = [receivingData EXCEPT ![s] = @ \/ resubTimeoutMs]
    /\ timeoutId' = [timeoutId EXCEPT ![s] = IF resubTimeoutMs THEN TRUE ELSE @]
    /\ UNCHANGED <<connection, resubTimeoutMs, client, resub, fetching, listenerId, isUnsubscribing>>

Fetch(s) ==
    /\ client[s] = "on" /\ ~fetching[s]
    /\ fetching' = [fetching EXCEPT ![s] = TRUE]
    /\ UNCHANGED <<connection, resubTimeoutMs, client, resub, flags, stored>>

FetchAnswered(s, slot) ==
    /\ fetching[s]
    /\ fetching' = [fetching EXCEPT ![s] = FALSE]
    /\ HandleRpcResponse(s, slot)
    /\ UNCHANGED <<connection, resubTimeoutMs, client, resub, flags>>

FetchFails(s) ==
    /\ FetchMayFail /\ fetching[s]
    /\ fetching' = [fetching EXCEPT ![s] = FALSE]
    /\ UNCHANGED <<connection, resubTimeoutMs, client, resub, flags, stored>>

(* Mutant: data is replaced whatever its slot.                              *)
AnyData(s, slot) == TRUE

(* updateData and setData compare with the stored data.                     *)
NotOlderData(s, slot) == dataAndSlot[s] # None => dataAndSlot[s].slot <= slot

UpdateData(s, slot) ==
    /\ client[s] = "on"
    /\ Ledger[s][slot] # None
    /\ NotOlderData(s, slot)
    /\ dataAndSlot' = [dataAndSlot EXCEPT ![s] = [slot |-> slot, value |-> Ledger[s][slot]]]
    /\ UNCHANGED <<connection, resubTimeoutMs, client, resub, fetching, flags, bufferAndSlot, seen>>

-----------------------------------------------------------------------------
(* unsubscribe(): the connection drops the callback at once, its promise    *)
(* resolves later.                                                          *)

RemoveListener(s) == listeners' = [listeners EXCEPT ![s] = @ \ {listenerId[s]}]

ClientUnsubscribe(s) ==
    /\ client[s] = "on"
    /\ resub[s] = "none" \/ (ResubRaces /\ resub[s] # "subscribing")
    /\ resubTimeoutMs' = FALSE
    /\ timeoutId' = [timeoutId EXCEPT ![s] = FALSE]
    /\ RemoveListener(s)
    /\ isUnsubscribing' = [isUnsubscribing EXCEPT ![s] = listenerId[s] # None]
    /\ client' = [client EXCEPT ![s] = IF listenerId[s] = None THEN "off" ELSE "removing"]
    /\ UNCHANGED <<head, resub, fetching, listenerId, receivingData, stored>>

(* The watchdog's timer: nothing was heard for resubTimeoutMs.              *)
TimerFires(s) ==
    /\ timeoutId[s]
    /\ timeoutId' = [timeoutId EXCEPT ![s] = FALSE]
    /\ IF isUnsubscribing[s] \/ ~receivingData[s]
       THEN UNCHANGED <<listeners, isUnsubscribing, resub>>
       ELSE /\ RemoveListener(s)
            /\ isUnsubscribing' = [isUnsubscribing EXCEPT ![s] = listenerId[s] # None]
            /\ resub' = [resub EXCEPT ![s] = "removing"]
    /\ UNCHANGED <<head, resubTimeoutMs, client, fetching, listenerId, receivingData, stored>>

(* Mutant: the listener id is kept when the listener was removed.           *)
IdKept(s) == listenerId[s]

IdAfterRemoval(s) == None

ClientUnsubscribed(s) ==
    /\ client[s] = "removing"
    /\ listenerId' = [listenerId EXCEPT ![s] = IdAfterRemoval(s)]
    /\ isUnsubscribing' = [isUnsubscribing EXCEPT ![s] = FALSE]
    /\ client' = [client EXCEPT ![s] = "off"]
    /\ UNCHANGED <<connection, resubTimeoutMs, resub, fetching, receivingData, timeoutId, stored>>

ResubUnsubscribed(s) ==
    /\ resub[s] = "removing"
    /\ listenerId' = [listenerId EXCEPT ![s] = IdAfterRemoval(s)]
    /\ isUnsubscribing' = [isUnsubscribing EXCEPT ![s] = FALSE]
    /\ receivingData' = [receivingData EXCEPT ![s] = FALSE]
    /\ resub' = [resub EXCEPT ![s] = "subscribing"]
    /\ UNCHANGED <<connection, resubTimeoutMs, client, fetching, timeoutId, stored>>

-----------------------------------------------------------------------------
Continues(s) ==
    \/ \E a \in Actor : SubscribeFetches(s, a) \/ SubscribeRegisters(s, a)
    \/ \E a \in Actor : SubscribeFetchFails(s, a) \/ \E slot \in 1 .. head : SubscribeFetched(s, a, slot)
    \/ ClientUnsubscribed(s) \/ ResubUnsubscribed(s)

Next ==
    \/ AdvanceChain
    \/ \E s \in Sub :
          \/ ClientSubscribe(s) \/ ClientUnsubscribe(s) \/ Fetch(s) \/ FetchFails(s)
          \/ \E slot \in 1 .. head :
                Notification(s, slot) \/ FetchAnswered(s, slot) \/ UpdateData(s, slot)
          \/ TimerFires(s)
          \/ Continues(s)

Spec == Init /\ [][Next]_vars

(* RPC calls and removals end, and the promises that await them continue.   *)
FairSpec == Spec /\ \A s \in Sub : WF_vars(Continues(s))

-----------------------------------------------------------------------------
(* Every variable has its type.                                             *)
TypeOK ==
    /\ head \in Slot
    /\ listeners \in [Sub -> SUBSET Listener]
    /\ resubTimeoutMs \in BOOLEAN
    /\ client \in [Sub -> {"off", "subscribing", "fetching", "on", "removing"}]
    /\ resub \in [Sub -> {"none", "removing", "subscribing", "fetching"}]
    /\ fetching \in [Sub -> BOOLEAN]
    /\ listenerId \in [Sub -> Listener \cup {None}]
    /\ isUnsubscribing \in [Sub -> BOOLEAN]
    /\ receivingData \in [Sub -> BOOLEAN]
    /\ timeoutId \in [Sub -> BOOLEAN]
    /\ bufferAndSlot \in [Sub -> Entry \cup {None}]
    /\ dataAndSlot \in [Sub -> Entry \cup {None}]
    /\ seen \in [Sub -> 0 .. MaxSlot]

(* No listener is lost: each one the connection still calls is the one that *)
(* listenerId names, so that unsubscribe can remove it.                     *)
ListenersTracked == \A s \in Sub : listeners[s] \subseteq {listenerId[s]}

(* When the owner's unsubscribe returned and no resubscription is going on, *)
(* the connection calls no callback of this subscriber.                     *)
NoListenerOnceUnsubscribed ==
    \A s \in Sub : client[s] = "off" /\ resub[s] = "none" => listeners[s] = {}

(* While the option is set, a listener that nobody is replacing has a timer *)
(* behind it: a silent websocket is noticed.                                *)
WatchdogArmed ==
    \A s \in Sub : resubTimeoutMs /\ client[s] = "on" /\ resub[s] = "none" /\ listenerId[s] # None
                   => timeoutId[s] /\ receivingData[s]

(* The data the owner reads is never older than the account last received   *)
(* from the websocket or a fetch, whatever updateData stored in between.    *)
DataNotOlderThanBuffer ==
    \A s \in Sub : bufferAndSlot[s] # None /\ bufferAndSlot[s].value # None
        => dataAndSlot[s] # None /\ dataAndSlot[s].slot >= bufferAndSlot[s].slot

(* What the subscriber keeps agrees with the connection and with its data.  *)
SubscriberConsistent ==
    /\ TypeOK /\ ListenersTracked /\ NoListenerOnceUnsubscribed
    /\ WatchdogArmed /\ DataNotOlderThanBuffer

(* What onChange is given never goes back in slots, across resubscriptions  *)
(* and late answers, as long as the owner stays subscribed.                 *)
OnChangeMovesForward ==
    [][\A s \in Sub : client'[s] # "subscribing" => seen[s] <= seen'[s]]_vars

(* A subscribed owner gets its listener back after every resubscription,    *)
(* unless the fetch in it failed, which ends it without a listener.         *)
ResubscriptionCompletes ==
    \A s \in Sub : client[s] = "on" ~>
        \/ listeners[s] # {} \/ client[s] # "on"
        \/ FetchMayFail /\ resub[s] = "none" /\ listenerId[s] = None
=============================================================================
