------------------- MODULE PollingClientAccountSubscriber -------------------
(***************************************************************************)
(* accounts/pollingClientAccountSubscriber.ts: the client's copies of the   *)
(* state account, of its markets and of their oracles, polled by a shared   *)
(* loader, and the map from markets to oracles by which prices are read.    *)
(*                                                                         *)
(* The loader is summarised: it stores the newest content of a polled       *)
(* account and calls the callbacks when the content changed                 *)
(* (BulkAccountLoader has its details).  Oracles are identified as in       *)
(* getOracleId, by key and source; an oracle's price is left out, only      *)
(* whether the client has one and whether it is still polled count.         *)
(***************************************************************************)
EXTENDS Naturals, FiniteSets

CONSTANTS
    PerpMarket, SpotMarket,     \* market indexes (disjoint here)
    OracleId,                   \* oracle ids, without that of PublicKey.default
    State,                      \* the key of the state account
    None,
    FirstOracle,                \* oracle on chain of the initialized markets, None: not yet
    Indexes,                    \* perpMarketIndexes and spotMarketIndexes
    oracleInfos,                \* oracles the subscriber is constructed with
    PolledByOthers,             \* keys that another subscriber polls, too
    delistedMarketSetting,      \* "Subscribe", "Unsubscribe" or "Discard"
    Retries,                    \* loads that subscribe() tries (5 in the code)
    Admin, FirstAdmin,          \* possible admins of the exchange, and the one it starts with
    Added,                      \* bound: markets and oracles that callers add
    MaxCalls,                   \* bound: calls under way that add the same market
    MaxChanges,                 \* bound: changes of the chain
    CarefulCallers              \* TRUE: a caller adds to the subscription and reads prices
                                \* only while subscribed, subscribes and unsubscribes only
                                \* when no call is under way, and unsubscribes after a
                                \* subscribe() that failed; calls that add may overlap

Market == PerpMarket \cup SpotMarket
Key    == {State} \cup Market \cup OracleId

ASSUME MarketsAssumption ==
    /\ PerpMarket \cap SpotMarket = {} /\ Indexes \subseteq Market
    /\ State \notin Market \cup OracleId /\ Market \cap OracleId = {} /\ None \notin Key
ASSUME NoneAssumption == None \notin [oracle : OracleId, delisted : BOOLEAN]
ASSUME AdminAssumption == FirstAdmin \in Admin
ASSUME OraclesAssumption ==
    FirstOracle \in [Market -> OracleId \cup {None}] /\ oracleInfos \subseteq OracleId
ASSUME SettingAssumption ==
    /\ delistedMarketSetting \in {"Subscribe", "Unsubscribe", "Discard"}
    /\ Retries \in Nat \ {0} /\ MaxChanges \in Nat /\ MaxCalls \in Nat

VARIABLES
    marketOracle,       \* chain: the oracle of each market, or None
    delisted,           \* chain: perp markets with status delisted
    admin,              \* chain: the admin of the exchange
    changes,
    registered,         \* registered[k]: this subscriber's callbacks in the loader
    buffers,            \* bufferAndSlotMap: content stored for a key, or None
    isSubscribed, isSubscribing,
    subscribing,        \* where subscribe() is, and the oracles it waits for
    accountsToPoll,     \* keys; callbackId[k] tells whether the id is known
    oraclesToPoll,
    callbackId,         \* keys whose callbackId is assigned
    copies,             \* state, perpMarket and spotMarket: the copy for a key, or None
    oracleMap,          \* perpOracleStringMap and spotOracleStringMap
    oracles,            \* ids with a price
    adding,             \* oracles whose addAccount has not returned
    calls,              \* calls[m]: how many addPerpMarket or addSpotMarket calls for m
                        \* have checked accountsToPoll and not set their entry, and how
                        \* many have added and wait for addAccount
    dropped,            \* history: the oracles that handleDelistedMarkets dropped in this
                        \* subscription, and the markets that it ever discarded
    overlapped          \* history: markets that a call added when another that checked at
                        \* the same time had added them already

chain  == <<marketOracle, delisted, admin, changes>>
loader == <<registered, buffers>>
client == <<isSubscribed, isSubscribing, subscribing, accountsToPoll, oraclesToPoll,
            callbackId, copies, oracleMap, oracles, adding, calls>>
history == <<dropped, overlapped>>
vars   == <<chain, loader, client, history>>

NoCalls == [checked |-> 0, added |-> 0]
NothingAdded == adding = {} /\ \A m \in Market : calls[m] = NoCalls

Initialized(M) == {m \in M : marketOracle[m] # None}
ContentOf(k) ==
    IF k \in Market THEN [oracle |-> marketOracle[k], delisted |-> k \in delisted]
    ELSE IF k = State
         THEN [admin |-> admin, numberOfMarkets |-> Cardinality(Initialized(PerpMarket))]
         ELSE [price |-> k]
Exists(k) == k \in Market => marketOracle[k] # None

Init ==
    /\ marketOracle = FirstOracle
    /\ delisted = {}
    /\ admin = FirstAdmin
    /\ changes = 0
    /\ registered = [k \in Key |-> 0]
    /\ buffers = [k \in Key |-> IF k \in PolledByOthers /\ Exists(k) THEN ContentOf(k) ELSE None]
    /\ isSubscribed = FALSE /\ isSubscribing = FALSE
    /\ subscribing = [at |-> "idle", tries |-> 0, waits |-> {}]
    /\ accountsToPoll = {} /\ oraclesToPoll = {} /\ callbackId = {}
    /\ copies = [k \in Key |-> None]
    /\ oracleMap = [m \in Market |-> None]
    /\ oracles = {}
    /\ adding = {}
    /\ calls = [m \in Market |-> NoCalls]
    /\ dropped = {} /\ overlapped = {}

-----------------------------------------------------------------------------
(* The chain and the loader.                                                *)

ChainBecomes(oracleOf, gone, adm) ==
    /\ changes < MaxChanges
    /\ changes' = changes + 1
    /\ marketOracle' = oracleOf
    /\ delisted' = gone
    /\ admin' = adm
OracleChanges(m, o) ==
    /\ marketOracle[m] \notin {None, o}
    /\ ChainBecomes([marketOracle EXCEPT ![m] = o], delisted, admin)
    /\ UNCHANGED <<loader, client, history>>
MarketDelisted(p) ==
    /\ marketOracle[p] # None /\ p \notin delisted
    /\ ChainBecomes(marketOracle, delisted \cup {p}, admin)
    /\ UNCHANGED <<loader, client, history>>

(* addAccount and removeAccount of the loader, for a set of keys.           *)
Register(keys) ==
    registered' = [k \in Key |-> IF k \in keys THEN registered[k] + 1 ELSE registered[k]]

Unregister(keys) ==
    /\ registered' = [k \in Key |-> IF k \in keys /\ registered[k] > 0 THEN registered[k] - 1
                                    ELSE registered[k]]
    /\ buffers' = [k \in Key |->
          IF k \in keys /\ registered[k] = 1 /\ k \notin PolledByOthers THEN None ELSE buffers[k]]

(* A poll finds new content for key k and calls the callbacks: those of     *)
(* addAccountToAccountLoader and addOracleToAccountLoader.                  *)
LoaderDelivers(k) ==
    /\ registered[k] > 0 \/ k \in PolledByOthers
    /\ Exists(k) /\ buffers[k] # ContentOf(k)
    /\ buffers' = [buffers EXCEPT ![k] = ContentOf(k)]
    /\ copies' = IF registered[k] > 0 /\ k \notin OracleId
                 THEN [copies EXCEPT ![k] = ContentOf(k)] ELSE copies
    /\ oracles' = IF registered[k] > 0 THEN oracles \cup ({k} \cap OracleId) ELSE oracles
    /\ isSubscribed' = (isSubscribed \/ (registered[k] > 0 /\ k \notin OracleId
                                           /\ copies'[State] # None))
    /\ UNCHANGED <<chain, registered, isSubscribing, subscribing, accountsToPoll,
                   oraclesToPoll, callbackId, oracleMap, adding, calls, history>>

-----------------------------------------------------------------------------
(* Markets whose oracle setPerpOracleMap and setSpotOracleMap look up: those *)
(* with a copy.  The oracles without a price are added, once each.          *)
Loaded(M)       == {m \in M : copies[m] # None}

(* Mutant: an oracle is only looked up for a market that had none.          *)
WithoutPriceIfNew(M) == {copies[m].oracle : m \in {n \in Loaded(M) : oracleMap[n] = None}} \ oracles

WithoutPrice(M) == {copies[m].oracle : m \in Loaded(M)} \ oracles

(* Mutant: addOracle without the test of oraclesToPoll.                     *)
AddedTwice(ids) == ids

(* addOracle: those it registers; the price of the others is on its way.    *)
NewOracles(ids) == ids \ oraclesToPoll

setOracleMaps(M) ==
    /\ oracleMap' = [m \in Market |-> IF m \in Loaded(M) THEN copies[m].oracle ELSE oracleMap[m]]
    /\ oraclesToPoll' = oraclesToPoll \cup WithoutPrice(M)
    /\ Register(NewOracles(WithoutPrice(M)))
    /\ adding' = adding \cup NewOracles(WithoutPrice(M))
SameKind(m) == IF m \in PerpMarket THEN PerpMarket ELSE SpotMarket

(* addAccount returns the id for oracle o.                                  *)
AddReturns(o) ==
    /\ o \in adding
    /\ adding' = adding \ {o}
    /\ callbackId' = callbackId \cup ({o} \cap oraclesToPoll)
    /\ UNCHANGED <<chain, loader, isSubscribed, isSubscribing, subscribing, accountsToPoll,
                   oraclesToPoll, copies, oracleMap, oracles, calls, history>>

-----------------------------------------------------------------------------
(* subscribe(), up to addToAccountLoader: every account is registered.      *)
subscribe ==
    LET accounts == IF accountsToPoll = {} THEN {State} \cup Indexes ELSE accountsToPoll
        polled   == accounts \cup oraclesToPoll \cup oracleInfos
    IN  /\ ~isSubscribed /\ ~isSubscribing
        /\ CarefulCallers => NothingAdded /\ accountsToPoll = {}
        /\ isSubscribing' = TRUE
        /\ subscribing' = [at |-> "adding", tries |-> 0, waits |-> {}]
        /\ accountsToPoll' = accounts
        /\ oraclesToPoll' = oraclesToPoll \cup oracleInfos
        /\ Register(polled)
        /\ UNCHANGED <<chain, buffers, isSubscribed, callbackId, copies, oracleMap, oracles,
                       adding, calls, history>>

addToAccountLoaderReturns ==
    /\ subscribing.at = "adding"
    /\ callbackId' = callbackId \cup accountsToPoll \cup oraclesToPoll
    /\ subscribing' = [subscribing EXCEPT !.at = "loading"]
    /\ UNCHANGED <<chain, loader, isSubscribed, isSubscribing, accountsToPoll, oraclesToPoll,
                   copies, oracleMap, oracles, adding, calls, history>>

(* fetch() after a load: the stored contents are copied.                    *)
Fetched ==
    /\ copies' = [k \in Key |-> IF k \in accountsToPoll /\ buffers[k] # None
                                THEN buffers[k] ELSE copies[k]]
    /\ oracles' = oracles \cup {o \in oraclesToPoll : buffers[o] # None}
fetch ==
    /\ Fetched
    /\ UNCHANGED <<chain, loader, isSubscribed, isSubscribing, subscribing, accountsToPoll,
                   oraclesToPoll, callbackId, oracleMap, adding, calls, history>>
subscribeFetches ==
    /\ subscribing.at = "loading"
    /\ Fetched
    /\ subscribing' = [subscribing EXCEPT
          !.tries = @ + 1,
          !.at = IF copies'[State] # None \/ subscribing.tries + 1 = Retries
                 THEN "loaded" ELSE "loading"]
    /\ UNCHANGED <<chain, loader, isSubscribed, isSubscribing, accountsToPoll, oraclesToPoll,
                   callbackId, oracleMap, adding, calls, history>>

(* findDelistedPerpMarketsAndOracles.                                       *)
DelistedMarkets == {p \in Loaded(PerpMarket) : copies[p].delisted}
DelistedOracles ==
    {copies[p].oracle : p \in DelistedMarkets} \ {copies[s].oracle : s \in Loaded(SpotMarket)}

(* handleDelistedMarkets: their accounts and oracles are no longer polled,  *)
(* but stay in accountsToPoll and oraclesToPoll.  It throws for one that is *)
(* not there, when those before it are gone, the markets first; and         *)
(* isSubscribing then stays set.                                            *)
Dropped == IF delistedMarketSetting = "Subscribe" THEN {} ELSE DelistedMarkets \cup DelistedOracles
Polled  == accountsToPoll \cup oraclesToPoll
handleDelistedMarkets == \E gone \in SUBSET (Dropped \cap Polled) :
    /\ subscribing.at = "loaded"
    /\ Dropped \subseteq Polled => gone = Dropped
    /\ gone \cap OracleId # {} => DelistedMarkets \subseteq gone
    /\ Unregister(gone \cap callbackId)
    /\ IF delistedMarketSetting = "Discard"
       THEN /\ copies' = [k \in Key |-> IF k \in gone THEN None ELSE copies[k]]
            /\ oracles' = oracles \ gone
            /\ dropped' = dropped \cup gone
       ELSE /\ dropped' = dropped \cup (gone \cap OracleId)
            /\ UNCHANGED <<copies, oracles>>
    /\ subscribing' = [subscribing EXCEPT !.at = IF gone = Dropped THEN "delisted" ELSE "threw"]
    /\ UNCHANGED <<chain, isSubscribed, isSubscribing, accountsToPoll, oraclesToPoll,
                   callbackId, oracleMap, adding, calls, overlapped>>

subscribeSetsMaps ==
    /\ subscribing.at = "delisted"
    /\ setOracleMaps(Market)
    /\ subscribing' = [subscribing EXCEPT !.at = "mapped", !.waits = WithoutPrice(Market)]
    /\ UNCHANGED <<chain, buffers, isSubscribed, isSubscribing, accountsToPoll, callbackId,
                   copies, oracles, calls, history>>

(* addOracle gives up waiting for the price after three polls.              *)
subscribeReturns ==
    /\ subscribing.at = "mapped" /\ subscribing.waits \cap adding = {}
    /\ isSubscribing' = FALSE
    /\ isSubscribed' = (copies[State] # None)
    /\ subscribing' = [at |-> "idle", tries |-> 0, waits |-> {}]
    /\ UNCHANGED <<chain, loader, accountsToPoll, oraclesToPoll, callbackId, copies, oracleMap,
                   oracles, adding, calls, history>>

unsubscribe ==
    /\ CarefulCallers => NothingAdded /\ subscribing.at = "idle"
    /\ Unregister((accountsToPoll \cup oraclesToPoll) \cap callbackId)
    /\ accountsToPoll' = {} /\ oraclesToPoll' = {} /\ callbackId' = {}
    /\ isSubscribed' = FALSE
    /\ dropped' = dropped \cap Market
    /\ UNCHANGED <<chain, isSubscribing, subscribing, copies, oracleMap, oracles, adding, calls,
                   overlapped>>

-----------------------------------------------------------------------------
(* addPerpMarket and addSpotMarket of a market that is not polled: the      *)
(* check; the new entry and its callback, which replace what a call that    *)
(* checked at the same time may have added; and what follows addAccount,    *)
(* whose id goes to the entry that the call has at hand.                    *)
addMarketChecks(m) ==
    /\ m \notin accountsToPoll
    /\ calls[m].checked + calls[m].added < MaxCalls
    /\ m \notin overlapped
    /\ CarefulCallers => isSubscribed
    /\ calls' = [calls EXCEPT ![m].checked = @ + 1]
    /\ UNCHANGED <<chain, loader, isSubscribed, isSubscribing, subscribing, accountsToPoll,
                   oraclesToPoll, callbackId, copies, oracleMap, oracles, adding, history>>
addMarketRegisters(m) ==
    /\ calls[m].checked > 0
    /\ calls' = [calls EXCEPT ![m] = [checked |-> @.checked - 1, added |-> @.added + 1]]
    /\ accountsToPoll' = accountsToPoll \cup {m}
    /\ callbackId' = callbackId \ {m}
    /\ overlapped' = overlapped \cup ({m} \cap accountsToPoll)
    /\ Register({m})
    /\ UNCHANGED <<chain, buffers, isSubscribed, isSubscribing, subscribing, oraclesToPoll,
                   copies, oracleMap, oracles, adding, dropped>>
addMarketReturns(m) ==
    /\ calls[m].added > 0
    /\ calls' = [calls EXCEPT ![m].added = @ - 1]
    /\ \/ callbackId' = callbackId \cup ({m} \cap accountsToPoll)
       \/ calls[m].added > 1 /\ callbackId' = callbackId
    /\ setOracleMaps(SameKind(m))
    /\ UNCHANGED <<chain, buffers, isSubscribed, isSubscribing, subscribing, accountsToPoll,
                   copies, oracles, history>>

addOracle(o) ==
    /\ CarefulCallers => isSubscribed
    /\ o \notin oracles
    /\ oraclesToPoll' = oraclesToPoll \cup {o}
    /\ Register(NewOracles({o}))
    /\ adding' = adding \cup NewOracles({o})
    /\ UNCHANGED <<chain, buffers, isSubscribed, isSubscribing, subscribing, accountsToPoll,
                   callbackId, copies, oracleMap, oracles, calls, history>>

(* getOraclePriceDataAndSlotForPerpMarket and ...ForSpotMarket: a changed   *)
(* oracle rebuilds the map, in the background, before the subscription is   *)
(* asserted ("You must call `subscribe` before using this function").       *)
getOraclePriceDataAndSlotForMarket(m) ==
    /\ CarefulCallers => isSubscribed
    /\ copies[m] # None /\ oracleMap[m] \notin {None, copies[m].oracle}
    /\ setOracleMaps(SameKind(m))
    /\ UNCHANGED <<chain, buffers, isSubscribed, isSubscribing, subscribing, accountsToPoll,
                   callbackId, copies, oracles, calls, history>>

-----------------------------------------------------------------------------
SubscriberNext ==
    \/ \E m \in Market, o \in OracleId : OracleChanges(m, o)
    \/ \E p \in PerpMarket : MarketDelisted(p)
    \/ \E k \in Key : LoaderDelivers(k)
    \/ subscribe \/ addToAccountLoaderReturns \/ subscribeFetches \/ handleDelistedMarkets
    \/ subscribeSetsMaps \/ subscribeReturns \/ unsubscribe
    \/ fetch
    \/ \E m \in Market :
          \/ m \in Added /\ addMarketChecks(m)
          \/ addMarketRegisters(m) \/ addMarketReturns(m)
          \/ getOraclePriceDataAndSlotForMarket(m)
    \/ \E o \in OracleId : (o \in Added /\ addOracle(o)) \/ AddReturns(o)

-----------------------------------------------------------------------------
TypeOK ==
    /\ marketOracle \in [Market -> OracleId \cup {None}]
    /\ delisted \subseteq PerpMarket /\ admin \in Admin /\ changes \in 0 .. MaxChanges
    /\ registered \in [Key -> Nat]
    /\ isSubscribed \in BOOLEAN /\ isSubscribing \in BOOLEAN
    /\ accountsToPoll \subseteq {State} \cup Market /\ oraclesToPoll \subseteq OracleId
    /\ callbackId \subseteq Key /\ adding \subseteq OracleId
    /\ calls \in [Market -> [checked : Nat, added : Nat]]
    /\ oracleMap \in [Market -> OracleId \cup {None}] /\ oracles \subseteq OracleId
    /\ overlapped \subseteq Market

(* A callback is never registered twice for one account, and none outlives  *)
(* the maps by which unsubscribe() removes it, although prices are read,    *)
(* oracles change and markets are added while others are being added        *)
(* (addOracle, 443-463: "this func can be called multiple times").  The     *)
(* exception: two addPerpMarket or addSpotMarket calls for one market that  *)
(* both check before either has set its entry (413-417, 432-436) register   *)
(* it twice, and the callback of the entry that is replaced stays.          *)
CallbacksAreOwned == TypeOK /\
    \A k \in Key \ overlapped :
        /\ registered[k] <= 1
        /\ registered[k] = 1 => k \in accountsToPoll \cup oraclesToPoll
        /\ registered[k] = 1 /\ subscribing.at # "adding" =>
              k \in adding \cup callbackId \/ (k \in Market /\ calls[k].added > 0)

(* While subscribed, the oracle by which a market's price is read has a     *)
(* price or is polled for one, whatever markets were added or changed their *)
(* oracles (setPerpOracleMap, 482-502); except for an oracle dropped with a *)
(* delisted market, which is never polled again, and for a market discarded *)
(* as delisted, whose entry of the map outlives its copy: if the market     *)
(* comes back after the maps are set, the oracle of its entry is not polled.*)
(* Once a callback was left (CallbacksAreOwned's exception), it may make    *)
(* isSubscribed true after unsubscribe() has cleared the maps.              *)
PricesArrive ==
    isSubscribed /\ subscribing.at = "idle" /\ overlapped = {} =>
        \A m \in Market \ dropped :
            oracleMap[m] \notin {None} \cup oracles \cup dropped => registered[oracleMap[m]] > 0
=============================================================================
