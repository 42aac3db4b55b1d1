--------------------------- MODULE EventSubscriber ---------------------------
(***************************************************************************)
(* events/: the log providers (polling, websocket, the events server), the  *)
(* subscriber that parses their logs into one bounded list per event type,  *)
(* the cache of transactions seen, the promises of awaitTx and the failover *)
(* to another provider.                                                     *)
(*                                                                         *)
(* An event is its transaction and its place in it.  The ledger is the      *)
(* transactions in the order they landed; an address is queried newest      *)
(* first.  A timer fires at any time after it was set.  Left out: block     *)
(* times, the parser (EventsOf is what it finds) and the second attempt when*)
(* a websocket refuses a subscription.                                      *)
(***************************************************************************)
EXTENDS Naturals, SequencesExt, FiniteSets

CONSTANTS
    Tx, EventType,
    EventsOf,           \* tx -> the types of its events, in order
    Failing,            \* transactions that fail on chain
    Configs,            \* options, see ConfigType
    None,
    MaxSlot,            \* bounds: of the ledger, on calls of subscribe, and
    MaxSubscribes,      \* on requests that fail
    MaxFailures,
    HistoryPage         \* signatures in one answer of getSignaturesForAddress

ProviderType == {"polling", "websocket", "events-server"}
ConfigType == [type : ProviderType, eventTypes : SUBSET EventType, maxEventsPerType : Nat \ {0},
               maxTx : Nat \ {0}, orderDir : {"asc", "desc"}, orderBy : {"blockchain", "client"},
               maxReconnectAttempts : Nat, careful : BOOLEAN,
               calls : SUBSET {"awaitTx", "fetchPreviousTx", "unsubscribe"}]    \* that are made
EventsAssumption ==
    /\ IsFiniteSet(Tx) /\ None \notin Tx /\ Failing \subseteq Tx
    /\ EventsOf \in [Tx -> Seq(EventType)] /\ Configs \subseteq ConfigType
    /\ {MaxSlot, MaxSubscribes, MaxFailures, HistoryPage} \subseteq Nat

VARIABLES
    config,
    ledger,             \* Seq(Tx)
    slotOf,             \* Tx -> slot, 0 before it lands
    eventListMap,       \* event type -> list of events; empty when cleared
    txEventCache,       \* transactions, the newest first
    awaitTxPromises,
    lastSeenTxSig,
    currentProviderType,
    providers,          \* the providers made so far; the last is this.logProvider
    history,            \* fetchPreviousTx: the signature to go back from
    handled,            \* history variable: handled since the lists were made
    skipped,            \* history variable: the node did not return these
    subscribes, failures

subscriber == <<eventListMap, txEventCache, awaitTxPromises, lastSeenTxSig, handled>>
vars == <<config, ledger, slotOf, subscriber, currentProviderType, providers, history, skipped,
    subscribes, failures>>

-----------------------------------------------------------------------------
(* eventList.ts and sort.ts.                                                *)
Event == [tx : Tx, index : Nat]
TypeOf(e) == EventsOf[e.tx][e.index]
blockchainSortFn(current, new) ==
    IF slotOf[current.tx] = slotOf[new.tx] THEN current.index < new.index
    ELSE slotOf[current.tx] < slotOf[new.tx]
(* A new event goes before the first of the list that gives way to it.      *)
GivesWay(current, new) ==
    \/ config.orderBy = "client"
    \/ blockchainSortFn(current, new) = (config.orderDir = "asc")
PlaceOf(list, e) ==
    LET places == {i \in DOMAIN list : GivesWay(list[i], e)}
    IN IF places = {} THEN Len(list) + 1 ELSE Min(places)
Unlimited(list, e) == InsertAt(list, PlaceOf(list, e), e)     \* mutant: nothing is detached
insert(list, e) ==
    LET longer == InsertAt(list, PlaceOf(list, e), e)
    IN IF Len(longer) > config.maxEventsPerType THEN Front(longer) ELSE longer

(* txEventCache.ts: the least recently added is dropped.                    *)
add(cache, t) ==
    LET place == CHOOSE n \in DOMAIN cache : cache[n] = t
        others == IF Contains(cache, t) THEN RemoveAt(cache, place)
                  ELSE IF Len(cache) = config.maxTx THEN Front(cache) ELSE cache
    IN <<t>> \o others

-----------------------------------------------------------------------------
(* handleTxLogs, as a function of the subscriber's state.                   *)
State == [lists |-> eventListMap, cache |-> txEventCache, awaiting |-> awaitTxPromises,
          last |-> lastSeenTxSig, handled |-> handled]
AllOf(t) == DOMAIN EventsOf[t]
parseEventsFromLogs(t, index) ==        \* index 0: the logs of the whole transaction
    IF index = 0 THEN [i \in AllOf(t) |-> [tx |-> t, index |-> i]] ELSE <<[tx |-> t, index |-> index]>>
Put(lists, e) ==
    IF TypeOf(e) \in DOMAIN lists THEN [lists EXCEPT ![TypeOf(e)] = insert(@, e)] ELSE lists
AllPut(lists, events) ==
    LET After[n \in 0..Len(events)] == IF n = 0 THEN lists ELSE Put(After[n - 1], events[n])
    IN After[Len(events)]
handleTxLogs(s, t, index, fromEventsServer) ==
    IF ~fromEventsServer /\ Contains(s.cache, t) THEN s
    ELSE [lists |-> AllPut(s.lists, parseEventsFromLogs(t, index)),
          cache |-> add(s.cache, t),
          awaiting |-> s.awaiting \ {t},
          last |-> IF s.last = None \/ slotOf[t] > slotOf[s.last] THEN t ELSE s.last,
          handled |-> IF DOMAIN s.lists = {} THEN s.handled ELSE s.handled \cup {t}]
AllHandled(s, txs, missing) ==          \* one after the other, without those that are missing
    LET After[n \in 0..Len(txs)] ==
            IF n = 0 THEN s
            ELSE IF txs[n] \in missing THEN After[n - 1] ELSE handleTxLogs(After[n - 1], txs[n], 0, FALSE)
    IN After[Len(txs)]
Becomes(new) == \E s \in {new} :
    /\ eventListMap' = s.lists /\ txEventCache' = s.cache /\ awaitTxPromises' = s.awaiting
    /\ lastSeenTxSig' = s.last /\ handled' = s.handled
Cleared == [State EXCEPT !.lists = <<>>, !.cache = <<>>, !.awaiting = {}, !.handled = {}]

-----------------------------------------------------------------------------
(* Providers.  sub: subscribed; timer: the watchdog is set; removing: who   *)
(* waits for the listener to be removed; reconnects: handlers of the event. *)
NewProvider(type) ==
    [type |-> type, sub |-> FALSE, isUnsubscribing |-> FALSE, externalUnsubscribe |-> FALSE,
     receivingData |-> FALSE, timer |-> FALSE, reconnectAttempts |-> 0, reconnects |-> 0,
     removing |-> {}, got |-> {}, mutex |-> FALSE, mostRecentSeenTx |-> None, firstFetch |-> TRUE,
     fetched |-> <<>>]
Last1 == Len(providers)
logProvider == providers[Last1]

(* A new listener hears of transactions from the newest slot on.            *)
SlotNow == IF ledger = <<>> THEN 1 ELSE slotOf[Last(ledger)]
OldLogs == UNION {{t} \X ({0} \cup AllOf(t)) : t \in {t \in Tx : slotOf[t] \in 1..(SlotNow - 1)}}
Subscribed(p) ==
    CASE p.sub -> p
      [] ~p.sub /\ p.type = "polling" -> [p EXCEPT !.sub = TRUE]
      [] OTHER -> [p EXCEPT !.sub = TRUE, !.timer = TRUE,
                            !.got = OldLogs]
Unsubscribed(p, external, who) ==
    LET closing == [p EXCEPT !.isUnsubscribing = p.sub, !.externalUnsubscribe = external, !.timer = FALSE]
    IN CASE p.type = "polling" -> [p EXCEPT !.sub = FALSE]
         [] p.type = "events-server" -> [closing EXCEPT !.sub = FALSE]
         [] p.type = "websocket" /\ p.sub -> [closing EXCEPT !.removing = @ \cup {who}]
         [] OTHER -> closing

-----------------------------------------------------------------------------
Init ==
    /\ config \in Configs
    /\ ledger = <<>> /\ slotOf = [t \in Tx |-> 0]
    /\ eventListMap = <<>> /\ txEventCache = <<>> /\ awaitTxPromises = {} /\ lastSeenTxSig = None
    /\ handled = {} /\ skipped = {}
    /\ currentProviderType = config.type
    /\ providers = <<NewProvider(config.type)>>
    /\ history = None
    /\ subscribes = 0 /\ failures = 0

(* A transaction lands, in the slot of the last one or in the next.         *)
Land(t) == \E slot \in {SlotNow, SlotNow + 1} :
    /\ slotOf[t] = 0 /\ slot =< MaxSlot
    /\ ledger' = Append(ledger, t) /\ slotOf' = [slotOf EXCEPT ![t] = slot]
    /\ UNCHANGED <<config, subscriber, currentProviderType, providers, history, skipped, subscribes, failures>>

(* The event subscriber's calls.  A careful caller waits for what is under  *)
(* way: an answer that comes while nothing is subscribed puts transactions  *)
(* into the cache without their events, which are then never read.          *)
Busy == history # None \/ \E i \in DOMAIN providers : providers[i].mutex \/ providers[i].removing # {}
subscribe ==
    LET listening == [logProvider EXCEPT !.reconnects = IF @ = 2 \/ logProvider.type = "polling"
                                                            \/ config.type = "polling" THEN @ ELSE @ + 1]
    IN /\ subscribes < MaxSubscribes /\ subscribes' = subscribes + 1
       /\ config.careful => ~Busy
       /\ ~logProvider.sub
       /\ eventListMap' = [type \in config.eventTypes |-> <<>>] /\ handled' = {}
       /\ providers' = [providers EXCEPT ![Last1] = Subscribed(listening)]
       /\ UNCHANGED <<config, ledger, slotOf, txEventCache, awaitTxPromises, lastSeenTxSig,
                      currentProviderType, history, skipped, failures>>
unsubscribe ==
    /\ "unsubscribe" \in config.calls /\ logProvider.sub
    /\ config.careful => ~Busy
    /\ Becomes(Cleared)
    /\ providers' = [providers EXCEPT ![Last1] = Unsubscribed(@, TRUE, "caller")]
    /\ UNCHANGED <<config, ledger, slotOf, currentProviderType, history, skipped, subscribes, failures>>
(* Resolved at once when the transaction is in the cache.                   *)
awaitTx(t) ==
    /\ "awaitTx" \in config.calls
    /\ t \notin awaitTxPromises /\ ~Contains(txEventCache, t) /\ logProvider.sub
    /\ awaitTxPromises' = awaitTxPromises \cup {t}
    /\ UNCHANGED <<config, ledger, slotOf, eventListMap, txEventCache, lastSeenTxSig, handled,
                   currentProviderType, providers, history, skipped, subscribes, failures>>

-----------------------------------------------------------------------------
(* Streams: logs of a landed transaction reach a listener once, at any time.*)
(* The events server sends each event by itself.                            *)
Alive(p) == IF p.isUnsubscribing THEN p
            ELSE [p EXCEPT !.receivingData = TRUE, !.timer = TRUE, !.reconnectAttempts = 0]
Delivered(i, t, index) ==
    LET p == providers[i]
        server == p.type = "events-server"
    IN /\ p.type # "polling" /\ p.sub /\ p.removing = {}
       /\ slotOf[t] # 0 /\ <<t, index>> \notin p.got
       /\ IF server THEN index \in AllOf(t) /\ EventsOf[t][index] \in config.eventTypes /\ t \notin Failing
          ELSE index = 0
       /\ providers' = [providers EXCEPT ![i] = [Alive(p) EXCEPT !.got = @ \cup {<<t, index>>}]]
       /\ IF t \in Failing THEN UNCHANGED subscriber
          ELSE Becomes(handleTxLogs(State, t, index, currentProviderType = "events-server"))
       /\ UNCHANGED <<config, ledger, slotOf, currentProviderType, history, skipped, subscribes, failures>>

(* updateFallbackProviderType and initializeLogProvider(true).              *)
Fallback(type) == IF type = "events-server" THEN "websocket" ELSE "polling"
FailsOver(p) == p.reconnects > 0 /\ p.reconnectAttempts > config.maxReconnectAttempts

(* After the watchdog's unsubscribe: the event is emitted.  Its handler     *)
(* unsubscribes the subscriber, then the provider subscribes again, then    *)
(* the handler goes on with the next provider.                              *)
Reconnects(i, p) ==
    LET counted == [p EXCEPT !.receivingData = IF p.type = "websocket" THEN FALSE ELSE @,
                             !.reconnectAttempts = @ + 1]
        handling == Unsubscribed([counted EXCEPT !.reconnects = 0], TRUE, "failover")
        next == Fallback(currentProviderType)
    IN IF FailsOver(counted)
       THEN /\ Becomes(Cleared)
            /\ IF handling.removing = {}
               THEN /\ currentProviderType' = next
                    /\ providers' = Append([providers EXCEPT ![i] = Subscribed(handling)],
                                           Subscribed(NewProvider(next)))
               ELSE /\ providers' = [providers EXCEPT ![i] = Subscribed(handling)]
                    /\ UNCHANGED currentProviderType
       ELSE /\ providers' = [providers EXCEPT ![i] = Subscribed(counted)]
            /\ UNCHANGED <<subscriber, currentProviderType>>

WatchdogFires(i) ==
    LET p == [providers[i] EXCEPT !.timer = FALSE]
        closed == Unsubscribed(p, FALSE, "watchdog")
    IN /\ providers[i].timer
       /\ CASE \/ p.isUnsubscribing \/ p.externalUnsubscribe
               \/ p.type = "websocket" /\ ~p.receivingData ->
                   providers' = [providers EXCEPT ![i] = p] /\ UNCHANGED <<subscriber, currentProviderType>>
            [] ~p.isUnsubscribing /\ ~p.externalUnsubscribe /\ p.type = "events-server" ->
                   Reconnects(i, closed)
            [] OTHER -> /\ providers' = [providers EXCEPT ![i] = closed]
                        /\ UNCHANGED <<subscriber, currentProviderType>>
       /\ UNCHANGED <<config, ledger, slotOf, history, skipped, subscribes, failures>>

(* The listener is removed, or not; who waited for it goes on.              *)
ListenerRemoved(i, who) == \E ok \in BOOLEAN :
    LET p == providers[i]
        done == [p EXCEPT !.removing = @ \ {who}, !.isUnsubscribing = FALSE, !.sub = @ /\ ~ok]
        next == Fallback(currentProviderType)
    IN /\ who \in p.removing
       /\ ok \/ failures < MaxFailures
       /\ failures' = IF ok THEN failures ELSE failures + 1
       /\ CASE who = "watchdog" -> Reconnects(i, done)
            [] who = "failover" ->
                   /\ currentProviderType' = next
                   /\ providers' = Append([providers EXCEPT ![i] = done], Subscribed(NewProvider(next)))
                   /\ UNCHANGED subscriber
            [] who = "caller" ->
                   providers' = [providers EXCEPT ![i] = done] /\ UNCHANGED <<subscriber, currentProviderType>>
       /\ UNCHANGED <<config, ledger, slotOf, history, skipped, subscribes>>

-----------------------------------------------------------------------------
(* fetchLogs.  Signatures come newest first; sorting by slot turns the      *)
(* slots around and leaves the order within a slot.                         *)
Place(t) == CHOOSE n \in DOMAIN ledger : ledger[n] = t
Page(before, until, limit) ==
    LET last == IF before = None THEN Len(ledger) ELSE Place(before) - 1
        first == IF until = None THEN 1 ELSE Place(until) + 1
    IN {ledger[n] : n \in {n \in first..last : n > last - limit}}
SortedBefore(t, u) == IF slotOf[t] = slotOf[u] THEN Place(t) > Place(u) ELSE slotOf[t] < slotOf[u]
fetchLogs(before, until, limit) ==      \* one sequence: the order is total
    LET filtered == Page(before, until, limit) \ Failing
    IN {page \in [1..Cardinality(filtered) -> filtered] :
           \A m, n \in DOMAIN page : m < n => SortedBefore(page[m], page[n])}

(* pollingLogProvider.ts: one request at a time.                            *)
UNLIMITED == Cardinality(Tx)
PollStarts(i) ==
    LET p == providers[i] IN
    /\ p.type = "polling" /\ p.sub /\ ~p.mutex
    /\ \E page \in fetchLogs(None, p.mostRecentSeenTx, IF p.firstFetch THEN 1 ELSE UNLIMITED) :
           providers' = [providers EXCEPT ![i].mutex = TRUE, ![i].fetched = page]
    /\ UNCHANGED <<config, ledger, slotOf, subscriber, currentProviderType, history, skipped, subscribes, failures>>
(* The node may return nothing for a signature it has just named.           *)
PollAnswered(i) == \E missing \in SUBSET ToSet(providers[i].fetched) :
    LET p == providers[i]
        idle == [p EXCEPT !.mutex = FALSE, !.fetched = <<>>]
    IN /\ p.mutex
       /\ failures + Cardinality(missing) =< MaxFailures
       /\ failures' = failures + Cardinality(missing)
       /\ providers' = [providers EXCEPT ![i] =
              IF p.fetched = <<>> THEN idle
              ELSE [idle EXCEPT !.firstFetch = FALSE, !.mostRecentSeenTx = Last(p.fetched)]]
       /\ Becomes(AllHandled(State, p.fetched, missing))
       /\ skipped' = skipped \cup missing
       /\ UNCHANGED <<config, ledger, slotOf, currentProviderType, history, subscribes>>
PollFailsForward(i) ==      \* mutant: the newest is taken for seen although the request failed
    /\ providers[i].mutex
    /\ failures < MaxFailures /\ failures' = failures + 1
    /\ providers' = [providers EXCEPT ![i].mutex = FALSE, ![i].fetched = <<>>,
           ![i].mostRecentSeenTx = IF providers[i].fetched = <<>> THEN @ ELSE Last(providers[i].fetched)]
    /\ UNCHANGED <<config, ledger, slotOf, subscriber, currentProviderType, history, skipped, subscribes>>
PollFails(i) ==
    /\ providers[i].mutex
    /\ failures < MaxFailures /\ failures' = failures + 1
    /\ providers' = [providers EXCEPT ![i].mutex = FALSE, ![i].fetched = <<>>]
    /\ UNCHANGED <<config, ledger, slotOf, subscriber, currentProviderType, history, skipped, subscribes>>

(* fetchPreviousTx(true): pages, from the newest back, until nothing comes. *)
fetchPreviousTx ==
    /\ "fetchPreviousTx" \in config.calls
    /\ history = None /\ DOMAIN eventListMap # {}
    /\ history' = [before |-> None, fetched |-> 0]
    /\ UNCHANGED <<config, ledger, slotOf, subscriber, currentProviderType, providers, skipped, subscribes, failures>>
HistoryFetched == history # None /\ \E page \in fetchLogs(history.before, None, HistoryPage) :
    LET total == history.fetched + Len(page) IN
    /\ Becomes(AllHandled(State, page, {}))
    /\ history' = IF page = <<>> \/ total >= config.maxTx THEN None
                  ELSE [before |-> Head(page), fetched |-> total]
    /\ UNCHANGED <<config, ledger, slotOf, currentProviderType, providers, skipped, subscribes, failures>>

Next ==
    \/ \E t \in Tx : Land(t) \/ awaitTx(t)
    \/ subscribe \/ unsubscribe \/ fetchPreviousTx \/ HistoryFetched
    \/ \E i \in DOMAIN providers :
        \/ \E t \in Tx : \E index \in {0} \cup AllOf(t) : Delivered(i, t, index)
        \/ WatchdogFires(i)
        \/ \E who \in {"watchdog", "caller", "failover"} : ListenerRemoved(i, who)
        \/ PollStarts(i) \/ PollAnswered(i) \/ PollFails(i)

(* The interval keeps firing, and requests end.                             *)
Fairness == \A i \in 1..1 : WF_vars(PollStarts(i)) /\ WF_vars(PollAnswered(i))
Spec == Init /\ [][Next]_vars /\ Fairness

-----------------------------------------------------------------------------
(* Every variable has its type.                                             *)
TypeOK ==
    /\ slotOf \in [Tx -> 0..MaxSlot] /\ ToSet(ledger) = {t \in Tx : slotOf[t] # 0}
    /\ DOMAIN eventListMap \in SUBSET config.eventTypes
    /\ Len(txEventCache) =< config.maxTx /\ awaitTxPromises \subseteq Tx
    /\ currentProviderType = logProvider.type

(* A list is in order, within its limit, and holds each event once: exactly *)
(* those that come first in its order of all events of the transactions     *)
(* that were handled, whichever way and in whatever order their logs came.  *)
(* Duplicates are not excluded from the events server, which sends an event *)
(* again without being asked twice, nor with a cache that is too small.     *)
Before(d, e) == blockchainSortFn(e, d) = (config.orderDir = "asc") /\ blockchainSortFn(e, d) # blockchainSortFn(d, e)
ListsHoldTheFirst ==
    \A type \in DOMAIN eventListMap :
        LET list == eventListMap[type]
            all == {e \in UNION {{[tx |-> t, index |-> i] : i \in AllOf(t)} : t \in handled} : TypeOf(e) = type}
        IN /\ Len(list) =< config.maxEventsPerType
           /\ config.orderBy = "blockchain" => \A i, j \in DOMAIN list : i < j => ~Before(list[j], list[i])
           /\ config.type # "events-server" /\ config.maxTx >= Cardinality(Tx) =>
                  /\ IsInjective(list) /\ ToSet(list) \subseteq all
                  /\ Len(list) < config.maxEventsPerType => ToSet(list) = all
                  /\ config.orderBy = "blockchain" =>
                         \A e \in all \ ToSet(list) : ~Before(e, Last(list))

(* No promise waits for a transaction that was seen; and the watchdog never *)
(* counts to two, so that the fallback is reached only when no reconnection *)
(* is allowed at all.                                                       *)
AwaitedAreNew == awaitTxPromises \cap ToSet(txEventCache) = {}
OneReconnection == \A i \in DOMAIN providers : providers[i].reconnectAttempts =< 1
EventsAreKept == TypeOK /\ ListsHoldTheFirst /\ AwaitedAreNew /\ OneReconnection

(* Every transaction that lands after the one a poller has seen last is     *)
(* handled, unless the caller unsubscribes or the node does not return it:  *)
(* whichever requests fail, and however many of its slot come before it.    *)
(* The ledger is finite: at some time nothing is left to be handled.        *)
Due(t) ==
    LET p == providers[1] IN
    /\ slotOf[t] # 0 /\ t \notin Failing \cup handled \cup skipped
    /\ Place(t) > Place(p.mostRecentSeenTx)
PolledEventsArrive ==
    []<>(\/ providers[1].type # "polling" \/ ~providers[1].sub \/ providers[1].mostRecentSeenTx = None
         \/ \A t \in Tx : ~Due(t))
=============================================================================
