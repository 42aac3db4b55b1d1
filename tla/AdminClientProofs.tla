-------------------------- MODULE AdminClientProofs --------------------------
(***************************************************************************)
(* What the polled copies of the markets keep while an admin changes the    *)
(* markets, for any markets, oracles, admins and settings, when callers     *)
(* wait for each other with subscribe() and unsubscribe() (CarefulCallers). *)
(***************************************************************************)
EXTENDS AdminClient, TLAPS

MarketAccount == [oracle : OracleId, delisted : BOOLEAN]
Place == {"idle", "adding", "loading", "loaded", "delisted", "mapped", "threw"}

Types ==
    /\ TypeOK
    /\ subscribing \in [at : Place, tries : Nat, waits : SUBSET OracleId]
    /\ dropped \subseteq Key
    /\ \A contents \in {buffers, copies} :
          /\ contents = [k \in Key |-> contents[k]]
          /\ \A m \in Market : contents[m] \in MarketAccount \cup {None}

(* The id of the callback of k is known, or a call waits for it.           *)
Held(k) == k \in adding \cup callbackId \/ (k \in Market /\ calls[k].added > 0)

Owned(k) == k \notin overlapped =>
    /\ registered[k] <= 1
    /\ registered[k] = 1 => k \in accountsToPoll \cup oraclesToPoll
    /\ registered[k] = 1 /\ subscribing.at # "adding" =>
          Held(k)

(* Without a subscription nothing is polled and nothing is under way; only  *)
(* a callback that two overlapping calls left may still say subscribed.     *)
PollsWhenNeeded ==
    accountsToPoll = {} =>
        /\ subscribing.at = "idle"
        /\ isSubscribed => overlapped # {}
        /\ ~isSubscribed => oraclesToPoll = {} /\ NothingAdded
OraclesPolled  == \A o \in oraclesToPoll \ dropped : registered[o] > 0
MapsFollowCopies == \A m \in Market \ dropped : copies[m] = None => oracleMap[m] = None

HasPrice(o) == o \in {None} \cup oracles \cup dropped \/ registered[o] > 0
MapsAreServed ==
    subscribing.at \in {"idle", "mapped"} /\ accountsToPoll # {} /\ overlapped = {} =>
        \A m \in Market \ dropped : HasPrice(oracleMap[m])

SInv ==
    /\ Types
    /\ \A k \in Key : Owned(k)
    /\ PollsWhenNeeded /\ OraclesPolled /\ MapsFollowCopies /\ MapsAreServed

(* A call of the admin is about a market and an oracle, while subscribed.   *)
CallOK ==
    /\ call = [at |-> call.at, ix |-> call.ix, seen |-> call.seen]
    /\ call.at # "none" =>
          isSubscribed /\ call.ix.object \in Market /\ call.ix.oracle \in OracleId

IInv == SInv /\ CallOK

-----------------------------------------------------------------------------
(* The chain and the loader.                                                *)
LEMMA InitInv == AdminInit => IInv
<1> SUFFICES ASSUME AdminInit PROVE IInv
  OBVIOUS
<1> USE DEF AdminInit, Init, Key
<1>1. Types
  <2>1. TypeOK
    <3>1. registered \in [Key -> Nat] /\ oracleMap \in [Market -> OracleId \cup {None}]
      OBVIOUS
    <3>2. marketOracle \in [Market -> OracleId \cup {None}] /\ admin \in Admin /\ changes \in 0 .. MaxChanges
      BY OraclesAssumption, AdminAssumption, SettingAssumption
    <3>3. calls \in [Market -> [checked : Nat, added : Nat]]
      BY DEF NoCalls
    <3> QED
      BY <3>1, <3>2, <3>3 DEF TypeOK
  <2>2. subscribing \in [at : Place, tries : Nat, waits : SUBSET OracleId]
    BY DEF Place
  <2>3. ASSUME NEW m \in Market PROVE buffers[m] \in MarketAccount \cup {None}
    <3>1. CASE Exists(m)
      <4>1. marketOracle[m] \in OracleId
        BY <3>1, OraclesAssumption DEF Exists
      <4>2. (m \in delisted) \in BOOLEAN
        OBVIOUS
      <4>3. ContentOf(m) \in MarketAccount
        BY <4>1, <4>2, Zenon DEF ContentOf, MarketAccount
      <4> QED
        BY <4>3
    <3>2. CASE ~Exists(m)
      BY <3>2
    <3> QED
      BY <3>1, <3>2
  <2>4. \A m \in Market : copies[m] = None
    OBVIOUS
  <2> QED
    BY <2>1, <2>2, <2>3, <2>4 DEF Types
<1>2. \A k \in Key : Owned(k)
  <2>1. \A k \in Key : registered[k] = 0
    OBVIOUS
  <2> QED
    BY <2>1 DEF Owned, Held
<1>3. PollsWhenNeeded /\ OraclesPolled /\ MapsFollowCopies /\ MapsAreServed
  BY DEF PollsWhenNeeded, NothingAdded, OraclesPolled, MapsFollowCopies, MapsAreServed
<1>4. CallOK
  BY DEF CallOK, NoCall
<1> QED
  BY <1>1, <1>2, <1>3, <1>4 DEF IInv, SInv

LEMMA ChainKeeps ==
    ASSUME SInv, UNCHANGED <<loader, client, history>>,
           NEW oracleOf \in [Market -> OracleId \cup {None}], NEW gone \in SUBSET PerpMarket,
           NEW adm \in Admin, ChainBecomes(oracleOf, gone, adm)
    PROVE  SInv'
<1> USE DEF SInv, loader, client, history
<1>1. TypeOK'
  BY SettingAssumption DEF Types, TypeOK, ChainBecomes
<1>2. Types'
  BY <1>1 DEF Types
<1>3. (\A k \in Key : Owned(k))'
  BY DEF Owned, Held
<1>4. (PollsWhenNeeded /\ OraclesPolled /\ MapsFollowCopies /\ MapsAreServed)'
  BY DEF PollsWhenNeeded, NothingAdded, OraclesPolled, MapsFollowCopies, MapsAreServed, HasPrice
<1> QED
  BY <1>2, <1>3, <1>4

LEMMA DeliversKeeps ==
    ASSUME SInv, NEW k \in Key, LoaderDelivers(k)
    PROVE  SInv'
<1> USE DEF SInv, LoaderDelivers, history
<1>1. k \in Market => ContentOf(k) \in MarketAccount /\ ContentOf(k) # None
  <2> SUFFICES ASSUME k \in Market PROVE ContentOf(k) \in MarketAccount
    BY NoneAssumption DEF MarketAccount
  <2>1. marketOracle[k] \in OracleId
    BY DEF Exists, Types, TypeOK
  <2>2. (k \in delisted) \in BOOLEAN
    OBVIOUS
  <2> QED
    BY <2>1, <2>2, Zenon DEF ContentOf, MarketAccount
<1>2. TypeOK'
  <2>1. isSubscribed' \in BOOLEAN
    BY Zenon
  <2> QED
    BY <2>1 DEF Types, TypeOK, chain
<1>3. /\ buffers' = [buffers EXCEPT ![k] = ContentOf(k)]
      /\ copies' = copies \/ copies' = [copies EXCEPT ![k] = ContentOf(k)]
  OBVIOUS
<1>4. Types'
  <2>1. \A m \in Market : buffers'[m] \in MarketAccount \cup {None} /\ copies'[m] \in MarketAccount \cup {None}
    BY <1>1, <1>3 DEF Types, Key
  <2>2. buffers' = [l \in Key |-> buffers'[l]] /\ copies' = [l \in Key |-> copies'[l]]
    BY <1>3 DEF Types
  <2> QED
    BY <1>2, <2>1, <2>2 DEF Types
<1>5. (\A l \in Key : Owned(l))'
  BY DEF Owned, Held
<1>6. PollsWhenNeeded'
  BY MarketsAssumption DEF PollsWhenNeeded, NothingAdded, Types, TypeOK, Owned, Held
<1>7. MapsFollowCopies'
  BY <1>1, <1>3 DEF MapsFollowCopies, Types, Key
<1>8. (OraclesPolled /\ MapsAreServed)'
  BY DEF OraclesPolled, MapsAreServed, HasPrice
<1> QED
  BY <1>4, <1>5, <1>6, <1>7, <1>8

-----------------------------------------------------------------------------
(* The maps from markets to oracles.  An oracle that is added for them was  *)
(* not polled, and so it had no callback.                                   *)
LEMMA NewOraclesRegister ==
    ASSUME SInv, NEW ids \in SUBSET OracleId, Register(NewOracles(ids)),
           oraclesToPoll' = oraclesToPoll \cup ids
    PROVE  /\ registered' \in [Key -> Nat]
           /\ \A k \in Key : registered[k] <= registered'[k]
           /\ \A k \in Key \ overlapped : registered'[k] <= 1
           /\ \A k \in Key : registered'[k] # registered[k] => k \in NewOracles(ids)
           /\ \A o \in ids : o \notin oraclesToPoll => registered'[o] > 0
<1> USE DEF SInv, Types, TypeOK, NewOracles, history
<1>1. /\ \A k \in Key : registered[k] \in Nat
      /\ \A k \in Key \ overlapped : registered[k] <= 1
  BY DEF Owned
<1>2. \A o \in NewOracles(ids) : o \in Key \ overlapped /\ registered[o] = 0
  BY <1>1, MarketsAssumption DEF Owned, Key
<1> QED
  BY <1>1, <1>2 DEF Register, Key

LEMMA SetMapsKeeps ==
    ASSUME SInv, NEW M \in SUBSET Market, setOracleMaps(M),
           UNCHANGED <<chain, buffers, isSubscribed, isSubscribing, accountsToPoll, copies, oracles, history>>,
           isSubscribed \/ accountsToPoll # {}, callbackId' \in SUBSET Key,
           calls' \in [Market -> [checked : Nat, added : Nat]],
           \A k \in accountsToPoll \cup oraclesToPoll : Held(k) => Held(k)',
           subscribing' \in [at : Place, tries : Nat, waits : SUBSET OracleId],
           subscribing' = subscribing \/ (M = Market /\ subscribing.at \notin {"idle", "adding"})
    PROVE  SInv'
<1> USE DEF SInv, chain, history
<1> DEFINE ids == WithoutPrice(M)
<1>1. \A m \in Loaded(M) : copies[m].oracle \in OracleId
  BY DEF Loaded, Types, MarketAccount
<1>2. ids \in SUBSET OracleId
  BY <1>1 DEF WithoutPrice
<1>3. /\ oracleMap' = [m \in Market |-> IF m \in Loaded(M) THEN copies[m].oracle ELSE oracleMap[m]]
      /\ oraclesToPoll' = oraclesToPoll \cup ids
      /\ Register(NewOracles(ids))
      /\ adding' = adding \cup NewOracles(ids)
  BY DEF setOracleMaps
<1>4. /\ registered' \in [Key -> Nat]
      /\ \A k \in Key : registered[k] <= registered'[k]
      /\ \A k \in Key \ overlapped : registered'[k] <= 1
      /\ \A k \in Key : registered'[k] # registered[k] => k \in NewOracles(ids)
      /\ \A o \in ids : o \notin oraclesToPoll => registered'[o] > 0
  BY <1>2, <1>3, NewOraclesRegister
<1>5. NewOracles(ids) \subseteq ids /\ NewOracles(ids) \cap oraclesToPoll = {}
  BY DEF NewOracles
<1>6. \A m \in Loaded(M) : copies[m].oracle \in oracles \cup ids
  BY DEF WithoutPrice
<1>7. \A m \in M : m \notin Loaded(M) => copies[m] = None
  BY DEF Loaded
<1> HIDE DEF ids
<1>8. Types'
  <2>1. TypeOK'
    BY <1>1, <1>2, <1>3, <1>4, <1>5 DEF Types, TypeOK, Key
  <2> QED
    BY <2>1 DEF Types
<1>9. ASSUME NEW k \in Key PROVE Owned(k)'
  <2>1. k \notin overlapped => registered'[k] <= 1
    BY <1>4
  <2>2. CASE registered'[k] = registered[k] /\ k \notin overlapped
    <3>1. Owned(k) /\ (k \in accountsToPoll \cup oraclesToPoll /\ Held(k) => Held(k)')
      OBVIOUS
    <3> QED
      BY <1>3, <2>1, <2>2, <3>1 DEF Owned, Held
  <2>3. CASE k \in NewOracles(ids)
    BY <1>3, <1>5, <2>1, <2>3 DEF Owned, Held
  <2> QED
    BY <1>4, <2>2, <2>3 DEF Owned, Held
<1>10. PollsWhenNeeded'
  BY DEF PollsWhenNeeded, NothingAdded
<1>11. OraclesPolled'
  BY <1>2, <1>3, <1>4 DEF OraclesPolled, Types, TypeOK, Key
<1>12. MapsFollowCopies'
  BY <1>3 DEF MapsFollowCopies, Loaded
<1>13. ASSUME NEW o \in OracleId, o \in oracles \cup ids PROVE HasPrice(o)'
  <2>1. CASE o \in oraclesToPoll
    BY <1>4, <1>13, <2>1 DEF HasPrice, OraclesPolled, Types, TypeOK, Key
  <2>2. CASE o \notin oraclesToPoll
    BY <1>4, <1>13, <2>2 DEF HasPrice
  <2> QED
    BY <2>1, <2>2
<1>14. MapsAreServed'
  <2> SUFFICES ASSUME subscribing'.at \in {"idle", "mapped"}, accountsToPoll # {},
                      overlapped = {}, NEW m \in Market \ dropped, NEW o, o = oracleMap'[m]
               PROVE  HasPrice(o)'
    BY DEF MapsAreServed
  <2>1. CASE m \in Loaded(M)
    BY <1>1, <1>3, <1>6, <1>13, <2>1
  <2>2. CASE m \notin Loaded(M) /\ M = Market
    BY <1>3, <1>7, <2>2 DEF MapsFollowCopies, HasPrice
  <2>3. CASE m \notin Loaded(M) /\ subscribing' = subscribing
    <3>1. o = oracleMap[m] /\ HasPrice(o)
      BY <1>3, <2>3 DEF MapsAreServed
    <3>2. o \in OracleId \cup {None}
      BY <3>1 DEF Types, TypeOK
    <3> QED
      BY <1>4, <3>1, <3>2 DEF HasPrice, Key, Types, TypeOK
  <2> QED
    BY <2>1, <2>2, <2>3
<1> QED
  BY <1>8, <1>9, <1>10, <1>11, <1>12, <1>14

-----------------------------------------------------------------------------
(* Accounts that are registered were not polled, and had no callback.       *)
LEMMA RegisterKeeps ==
    ASSUME SInv, NEW keys \in SUBSET Key, Register(keys)
    PROVE  /\ registered' \in [Key -> Nat]
           /\ \A k \in Key : registered[k] <= registered'[k]
           /\ \A k \in Key \ overlapped :
                 k \notin accountsToPoll \cup oraclesToPoll \/ k \notin keys => registered'[k] <= 1
           /\ \A k \in Key : registered'[k] # registered[k] => k \in keys
           /\ \A k \in keys : registered'[k] > 0
<1>1. /\ \A k \in Key : registered[k] \in Nat
      /\ \A k \in Key \ overlapped : registered[k] <= 1
  BY DEF Owned, SInv, Types, TypeOK
<1>2. \A k \in Key \ overlapped : k \notin accountsToPoll \cup oraclesToPoll => registered[k] = 0
  BY <1>1 DEF Owned, SInv
<1> QED
  BY <1>1, <1>2 DEF Register

(* Fewer callbacks: only those of keys that are removed go.                 *)
LEMMA UnregisterKeeps ==
    ASSUME SInv, NEW keys \in SUBSET Key, Unregister(keys)
    PROVE  /\ registered' \in [Key -> Nat]
           /\ \A k \in Key : registered'[k] <= registered[k]
           /\ \A k \in Key : k \notin keys => registered'[k] = registered[k]
           /\ \A k \in keys \ overlapped : registered'[k] = 0
           /\ buffers' = [k \in Key |-> buffers'[k]]
           /\ \A m \in Market : buffers'[m] \in MarketAccount \cup {None}
<1>1. /\ \A k \in Key : registered[k] \in Nat
      /\ \A k \in Key \ overlapped : registered[k] <= 1
  BY DEF Owned, SInv, Types, TypeOK
<1>2. \A m \in Market : m \in Key /\ buffers[m] \in MarketAccount \cup {None}
  BY DEF Key, SInv, Types
<1>3. registered' = [k \in Key |-> IF k \in keys /\ registered[k] > 0 THEN registered[k] - 1 ELSE registered[k]]
  BY DEF Unregister
<1>4. buffers' = [k \in Key |->
          IF k \in keys /\ registered[k] = 1 /\ k \notin PolledByOthers THEN None ELSE buffers[k]]
  BY DEF Unregister
<1>5. \A k \in Key : registered'[k] = IF k \in keys /\ registered[k] > 0 THEN registered[k] - 1
                                       ELSE registered[k]
  BY <1>3
<1>6. registered' \in [Key -> Nat]
  BY <1>1, <1>3
<1>7. buffers' = [k \in Key |-> buffers'[k]] /\ \A m \in Market : buffers'[m] \in MarketAccount \cup {None}
  BY <1>2, <1>4
<1> QED
  BY <1>1, <1>5, <1>6, <1>7

LEMMA AddReturnsKeeps == ASSUME SInv, NEW o \in OracleId, AddReturns(o) PROVE SInv'
<1> USE DEF SInv, AddReturns, chain, loader, history
<1>1. Types'
  BY DEF Types, TypeOK, Key
<1>2. (\A k \in Key : Owned(k))'
  BY MarketsAssumption DEF Owned, Held, Types, TypeOK, Key
<1>3. (PollsWhenNeeded /\ OraclesPolled /\ MapsFollowCopies /\ MapsAreServed)'
  BY DEF PollsWhenNeeded, NothingAdded, OraclesPolled, MapsFollowCopies, MapsAreServed, HasPrice
<1> QED
  BY <1>1, <1>2, <1>3

-----------------------------------------------------------------------------
(* subscribe() and unsubscribe().                                           *)
LEMMA SubscribeKeeps == ASSUME CarefulCallers, SInv, subscribe PROVE SInv'
<1> USE DEF SInv, chain, history
<1> DEFINE accounts == {State} \cup Indexes
           polled == accounts \cup oracleInfos
<1>1. accountsToPoll = {} /\ oraclesToPoll = {} /\ ~isSubscribed
  BY DEF subscribe, PollsWhenNeeded, NothingAdded
<1>2. /\ accountsToPoll' = accounts /\ oraclesToPoll' = oracleInfos /\ Register(polled)
      /\ subscribing' = [at |-> "adding", tries |-> 0, waits |-> {}]
      /\ isSubscribing' = TRUE
      /\ UNCHANGED <<chain, buffers, isSubscribed, callbackId, copies, oracleMap, oracles, adding, calls, history>>
  BY <1>1, Zenon DEF subscribe
<1>3. polled \in SUBSET Key
  BY MarketsAssumption, OraclesAssumption DEF Key
<1>4. /\ registered' \in [Key -> Nat]
      /\ \A k \in Key : registered[k] <= registered'[k]
      /\ \A k \in Key \ overlapped : registered'[k] <= 1
      /\ \A k \in Key : registered'[k] # registered[k] => k \in polled
      /\ \A k \in polled : registered'[k] > 0
  BY <1>1, <1>2, <1>3, RegisterKeeps
<1>5. Types'
  <2>1. TypeOK'
    BY <1>2, <1>4, MarketsAssumption, OraclesAssumption DEF Types, TypeOK
  <2>2. subscribing' \in [at : Place, tries : Nat, waits : SUBSET OracleId]
    BY <1>2 DEF Place
  <2> QED
    BY <1>2, <2>1, <2>2 DEF Types
<1>6. (\A k \in Key : Owned(k))'
  BY <1>1, <1>2, <1>4 DEF Owned, Held
<1>7. PollsWhenNeeded' /\ MapsAreServed'
  BY <1>2 DEF PollsWhenNeeded, NothingAdded, MapsAreServed
<1>8. OraclesPolled'
  BY <1>2, <1>4 DEF OraclesPolled
<1>9. MapsFollowCopies'
  BY <1>2 DEF MapsFollowCopies
<1> QED
  BY <1>5, <1>6, <1>7, <1>8, <1>9

LEMMA AddedKeeps == ASSUME SInv, addToAccountLoaderReturns PROVE SInv'
<1> USE DEF SInv, addToAccountLoaderReturns, chain, loader, history
<1>1. subscribing' = [subscribing EXCEPT !.at = "loading"]
  OBVIOUS
<1>2. subscribing' \in [at : Place, tries : Nat, waits : SUBSET OracleId] /\ subscribing'.at = "loading"
  BY <1>1 DEF Types, Place
<1>3. Types'
  BY <1>2 DEF Types, TypeOK, Key
<1>4. (\A k \in Key : Owned(k))'
  BY DEF Owned, Held
<1>5. (PollsWhenNeeded /\ OraclesPolled /\ MapsFollowCopies /\ MapsAreServed)'
  BY <1>2 DEF PollsWhenNeeded, NothingAdded, OraclesPolled, MapsFollowCopies, MapsAreServed
<1> QED
  BY <1>3, <1>4, <1>5

(* What was stored is copied; a price that is there stays.                  *)
LEMMA FetchedKeeps ==
    ASSUME SInv, Fetched,
           UNCHANGED <<chain, loader, isSubscribed, isSubscribing, accountsToPoll, oraclesToPoll,
                       callbackId, oracleMap, adding, calls, history>>,
           \/ subscribing' = subscribing
           \/ /\ subscribing' \in [at : Place, tries : Nat, waits : SUBSET OracleId]
              /\ subscribing.at = "loading" /\ subscribing'.at \in {"loading", "loaded"}
    PROVE  SInv'
<1> USE DEF SInv, Fetched, chain, loader, history
<1>1. /\ copies' = [k \in Key |-> copies'[k]]
      /\ \A m \in Market : copies'[m] \in MarketAccount \cup {None}
      /\ \A m \in Market : copies'[m] = None => copies[m] = None
  BY DEF Types, Key
<1>2. Types'
  <2>1. TypeOK'
    BY DEF Types, TypeOK
  <2> QED
    BY <1>1, <2>1 DEF Types
<1>3. (\A k \in Key : Owned(k))'
  BY DEF Owned, Held
<1>4. PollsWhenNeeded' /\ OraclesPolled'
  BY DEF PollsWhenNeeded, NothingAdded, OraclesPolled
<1>5. MapsFollowCopies'
  BY <1>1 DEF MapsFollowCopies
<1>6. MapsAreServed'
  BY DEF MapsAreServed, HasPrice
<1> QED
  BY <1>2, <1>3, <1>4, <1>5, <1>6

LEMMA SubscribeFetchesKeeps == ASSUME SInv, subscribeFetches PROVE SInv'
<1>1. /\ subscribing.at = "loading" /\ subscribing \in [at : Place, tries : Nat, waits : SUBSET OracleId]
      /\ subscribing.tries + 1 \in Nat
  BY DEF SInv, Types, subscribeFetches
<1>2. \E at \in {"loading", "loaded"} :
          subscribing' = [subscribing EXCEPT !.tries = subscribing.tries + 1, !.at = at]
  BY DEF subscribeFetches
<1>3. /\ subscribing' \in [at : Place, tries : Nat, waits : SUBSET OracleId]
      /\ subscribing'.at \in {"loading", "loaded"}
  BY <1>1, <1>2 DEF Place
<1> QED
  BY <1>1, <1>3, FetchedKeeps DEF subscribeFetches

LEMMA DelistedKeeps == ASSUME SInv, handleDelistedMarkets PROVE SInv'
<1> USE DEF SInv, chain, history
<1>1. PICK gone \in SUBSET (Dropped \cap Polled) :
          /\ subscribing.at = "loaded"
          /\ Unregister(gone \cap callbackId)
          /\ IF delistedMarketSetting = "Discard"
             THEN /\ copies' = [k \in Key |-> IF k \in gone THEN None ELSE copies[k]]
                  /\ oracles' = oracles \ gone
                  /\ dropped' = dropped \cup gone
             ELSE /\ dropped' = dropped \cup (gone \cap OracleId)
                  /\ UNCHANGED <<copies, oracles>>
          /\ subscribing' = [subscribing EXCEPT !.at = IF gone = Dropped THEN "delisted" ELSE "threw"]
          /\ UNCHANGED <<chain, isSubscribed, isSubscribing, accountsToPoll, oraclesToPoll,
                         callbackId, oracleMap, adding, calls, overlapped>>
  BY Zenon DEF handleDelistedMarkets
<1>2. gone \in SUBSET Key /\ gone \cap callbackId \in SUBSET Key
  BY DEF Polled, Types, TypeOK, Key
<1>3. /\ registered' \in [Key -> Nat]
      /\ \A k \in Key : registered'[k] <= registered[k]
      /\ \A k \in Key : k \notin gone => registered'[k] = registered[k]
      /\ buffers' = [k \in Key |-> buffers'[k]]
      /\ \A m \in Market : buffers'[m] \in MarketAccount \cup {None}
  BY <1>1, <1>2, UnregisterKeeps
<1>4. subscribing' \in [at : Place, tries : Nat, waits : SUBSET OracleId] /\ subscribing'.at \in {"delisted", "threw"}
  BY <1>1 DEF Types, Place
<1>5. /\ copies' = [k \in Key |-> copies'[k]]
      /\ \A m \in Market : copies'[m] \in MarketAccount \cup {None}
      /\ \A m \in Market \ dropped' : copies'[m] = copies[m]
  BY <1>1 DEF Types, Key
<1>6. dropped \subseteq dropped' /\ dropped' \subseteq Key /\ gone \cap OracleId \subseteq dropped'
  BY <1>1, <1>2 DEF Types
<1>7. Types'
  <2>1. TypeOK'
    BY <1>1, <1>3 DEF Types, TypeOK
  <2> QED
    BY <1>3, <1>4, <1>5, <1>6, <2>1 DEF Types
<1>8. (\A k \in Key : Owned(k))'
  <2> SUFFICES ASSUME NEW k \in Key PROVE Owned(k)'
    OBVIOUS
  <2>1. registered'[k] \in Nat /\ registered[k] \in Nat /\ registered'[k] <= registered[k] /\ Owned(k)
    BY <1>3 DEF Types, TypeOK
  <2> QED
    BY <1>1, <2>1 DEF Owned, Held
<1>9. PollsWhenNeeded'
  BY <1>1 DEF PollsWhenNeeded, NothingAdded
<1>10. OraclesPolled'
  BY <1>1, <1>3, <1>6 DEF OraclesPolled, Types, TypeOK, Key
<1>11. MapsFollowCopies'
  BY <1>1, <1>5, <1>6 DEF MapsFollowCopies
<1>12. MapsAreServed'
  BY <1>4 DEF MapsAreServed
<1> QED
  BY <1>7, <1>8, <1>9, <1>10, <1>11, <1>12

LEMMA SubscribeSetsMapsKeeps == ASSUME SInv, subscribeSetsMaps PROVE SInv'
<1>1. /\ subscribing.at = "delisted" /\ setOracleMaps(Market)
      /\ subscribing' = [subscribing EXCEPT !.at = "mapped", !.waits = WithoutPrice(Market)]
      /\ UNCHANGED <<chain, buffers, isSubscribed, isSubscribing, accountsToPoll, callbackId,
                     copies, oracles, calls, history>>
  BY DEF subscribeSetsMaps
<1>2. WithoutPrice(Market) \in SUBSET OracleId
  BY DEF WithoutPrice, Loaded, SInv, Types, MarketAccount
<1>3. subscribing' \in [at : Place, tries : Nat, waits : SUBSET OracleId]
  BY <1>1, <1>2 DEF SInv, Types, Place
<1>4. /\ accountsToPoll # {} /\ callbackId' \in SUBSET Key
      /\ calls' \in [Market -> [checked : Nat, added : Nat]]
      /\ \A k \in accountsToPoll \cup oraclesToPoll : Held(k) => Held(k)'
  BY <1>1 DEF SInv, PollsWhenNeeded, Types, TypeOK, setOracleMaps, Held
<1> QED
  BY <1>1, <1>3, <1>4, SetMapsKeeps

LEMMA SubscribeReturnsKeeps == ASSUME SInv, subscribeReturns PROVE SInv'
<1> USE DEF SInv, chain, loader, history
<1>1. /\ subscribing.at = "mapped" /\ isSubscribing' = FALSE
      /\ isSubscribed' = (copies[State] # None)
      /\ subscribing' = [at |-> "idle", tries |-> 0, waits |-> {}]
      /\ UNCHANGED <<chain, loader, accountsToPoll, oraclesToPoll, callbackId, copies, oracleMap,
                     oracles, adding, calls, history>>
  BY DEF subscribeReturns
<1>2. isSubscribed' \in BOOLEAN
  BY <1>1, Zenon
<1>3. Types'
  <2>1. subscribing' \in [at : Place, tries : Nat, waits : SUBSET OracleId]
    BY <1>1 DEF Place
  <2>2. TypeOK'
    BY <1>1, <1>2 DEF Types, TypeOK
  <2> QED
    BY <1>1, <2>1, <2>2 DEF Types
<1>4. (\A k \in Key : Owned(k))'
  BY <1>1 DEF Owned, Held
<1>5. (PollsWhenNeeded /\ OraclesPolled /\ MapsFollowCopies)'
  BY <1>1 DEF PollsWhenNeeded, NothingAdded, OraclesPolled, MapsFollowCopies
<1>6. MapsAreServed'
  BY <1>1 DEF MapsAreServed, HasPrice
<1> QED
  BY <1>3, <1>4, <1>5, <1>6

LEMMA UnsubscribeKeeps == ASSUME CarefulCallers, SInv, unsubscribe PROVE SInv'
<1> USE DEF SInv, chain, history
<1> DEFINE keys == (accountsToPoll \cup oraclesToPoll) \cap callbackId
<1>1. /\ NothingAdded /\ subscribing.at = "idle"
      /\ Unregister(keys)
      /\ accountsToPoll' = {} /\ oraclesToPoll' = {} /\ callbackId' = {}
      /\ isSubscribed' = FALSE
      /\ dropped' = dropped \cap Market
      /\ UNCHANGED <<chain, isSubscribing, subscribing, copies, oracleMap, oracles,
                     adding, calls, overlapped>>
  BY DEF unsubscribe
<1>2. keys \in SUBSET Key
  BY DEF Types, TypeOK, Key
<1>3. \A k \in Key \ overlapped : registered[k] = 0 \/ k \in keys
  BY <1>1 DEF Owned, Held, NothingAdded, NoCalls, Types, TypeOK
<1>4. /\ registered' \in [Key -> Nat] /\ \A k \in Key \ overlapped : registered'[k] = 0
      /\ buffers' = [k \in Key |-> buffers'[k]]
      /\ \A m \in Market : buffers'[m] \in MarketAccount \cup {None}
  BY <1>1, <1>2, <1>3, UnregisterKeeps
<1>5. Types'
  <2>1. TypeOK'
    BY <1>1, <1>4 DEF Types, TypeOK
  <2> QED
    BY <1>1, <1>4, <2>1 DEF Types
<1>6. (\A k \in Key : Owned(k))'
  BY <1>1, <1>4 DEF Owned, Held
<1>7. PollsWhenNeeded' /\ OraclesPolled' /\ MapsAreServed'
  BY <1>1 DEF PollsWhenNeeded, NothingAdded, OraclesPolled, MapsAreServed
<1>8. MapsFollowCopies'
  BY <1>1 DEF MapsFollowCopies
<1> QED
  BY <1>5, <1>6, <1>7, <1>8

-----------------------------------------------------------------------------
(* Markets and oracles that callers add, and prices that they read.         *)
LEMMA AddMarketChecksKeeps ==
    ASSUME CarefulCallers, SInv, NEW m \in Market, addMarketChecks(m) PROVE SInv'
<1> USE DEF SInv, addMarketChecks, chain, loader, history
<1>1. Types'
  BY DEF Types, TypeOK, Key
<1>2. (\A k \in Key : Owned(k))'
  BY DEF Owned, Held
<1>3. (PollsWhenNeeded /\ OraclesPolled /\ MapsFollowCopies /\ MapsAreServed)'
  BY DEF PollsWhenNeeded, NothingAdded, OraclesPolled, MapsFollowCopies, MapsAreServed, HasPrice
<1> QED
  BY <1>1, <1>2, <1>3

LEMMA AddMarketRegistersKeeps ==
    ASSUME SInv, NEW m \in Market, addMarketRegisters(m) PROVE SInv'
<1> USE DEF SInv, chain
<1>1. /\ calls' = [calls EXCEPT ![m] = [checked |-> calls[m].checked - 1,
                                        added   |-> calls[m].added + 1]]
      /\ accountsToPoll' = accountsToPoll \cup {m}
      /\ callbackId' = callbackId \ {m}
      /\ overlapped' = overlapped \cup ({m} \cap accountsToPoll)
      /\ Register({m}) /\ calls[m].checked > 0
      /\ UNCHANGED <<chain, buffers, isSubscribed, isSubscribing, subscribing, oraclesToPoll,
                     copies, oracleMap, oracles, adding, dropped>>
  BY DEF addMarketRegisters
<1>2. /\ registered' \in [Key -> Nat]
      /\ \A k \in Key : registered[k] <= registered'[k]
      /\ \A k \in Key \ overlapped :
            k \notin accountsToPoll \cup oraclesToPoll \/ k # m => registered'[k] <= 1
      /\ \A k \in Key : registered'[k] # registered[k] => k = m
      /\ registered'[m] > 0
  <2>1. {m} \in SUBSET Key /\ m \in Key
    BY DEF Key
  <2>2. Register({m})
    BY <1>1
  <2> QED
    BY <2>1, <2>2, RegisterKeeps
<1>3. /\ calls' \in [Market -> [checked : Nat, added : Nat]]
      /\ calls'[m].added > 0 /\ \A n \in Market : n # m => calls'[n] = calls[n]
  BY <1>1 DEF Types, TypeOK
<1>4. Types'
  BY <1>1, <1>2, <1>3 DEF Types, TypeOK
<1>5. ASSUME NEW k \in Key PROVE Owned(k)'
  <2>1. CASE k = m
    <3>1. m \notin oraclesToPoll
      BY MarketsAssumption DEF Types, TypeOK
    <3> QED
      BY <1>1, <1>2, <1>3, <2>1, <3>1 DEF Owned, Held
  <2>2. CASE k # m
    BY <1>1, <1>2, <1>3, <2>2 DEF Owned, Held
  <2> QED
    BY <2>1, <2>2
<1>6. PollsWhenNeeded' /\ MapsFollowCopies'
  BY <1>1 DEF PollsWhenNeeded, MapsFollowCopies
<1>7. OraclesPolled'
  BY <1>1, <1>2 DEF OraclesPolled, Types, TypeOK, Key
<1>8. MapsAreServed'
  <2> SUFFICES ASSUME subscribing.at \in {"idle", "mapped"}, overlapped = {},
                      NEW n \in Market \ dropped
               PROVE  HasPrice(oracleMap[n])'
    BY <1>1 DEF MapsAreServed
  <2>1. accountsToPoll # {}
    BY <1>1, <1>3 DEF PollsWhenNeeded, NothingAdded, NoCalls
  <2>2. HasPrice(oracleMap[n]) /\ oracleMap[n] \in OracleId \cup {None}
    BY <2>1 DEF MapsAreServed, Types, TypeOK
  <2> QED
    BY <1>1, <1>2, <2>2 DEF HasPrice, Key, Types, TypeOK
<1> QED
  BY <1>4, <1>5, <1>6, <1>7, <1>8

LEMMA AddMarketReturnsKeeps ==
    ASSUME SInv, NEW m \in Market, addMarketReturns(m) PROVE SInv'
<1>1. /\ calls[m].added > 0 /\ setOracleMaps(SameKind(m))
      /\ calls' = [calls EXCEPT ![m].added = calls[m].added - 1]
      /\ \/ callbackId' = callbackId \cup ({m} \cap accountsToPoll)
         \/ calls[m].added > 1 /\ callbackId' = callbackId
      /\ UNCHANGED <<chain, buffers, isSubscribed, isSubscribing, subscribing, accountsToPoll,
                     copies, oracles, history>>
  BY DEF addMarketReturns
<1>2. SameKind(m) \in SUBSET Market /\ callbackId' \in SUBSET Key
  BY <1>1 DEF SInv, Types, TypeOK, SameKind, Market, Key
<1>3. isSubscribed \/ accountsToPoll # {}
  BY <1>1 DEF SInv, PollsWhenNeeded, NothingAdded, NoCalls
<1>4. subscribing' \in [at : Place, tries : Nat, waits : SUBSET OracleId]
  BY <1>1 DEF SInv, Types
<1>5. /\ calls' \in [Market -> [checked : Nat, added : Nat]]
      /\ \A n \in Market : n # m => calls'[n] = calls[n]
      /\ calls'[m].added = calls[m].added - 1
  BY <1>1 DEF SInv, Types, TypeOK
<1>6. ASSUME NEW k \in accountsToPoll \cup oraclesToPoll, Held(k) PROVE Held(k)'
  <2>1. adding \subseteq adding' /\ callbackId \subseteq callbackId'
    BY <1>1 DEF setOracleMaps
  <2>2. m \notin oraclesToPoll
    BY MarketsAssumption DEF SInv, Types, TypeOK
  <2>3. calls[m].added \in Nat
    BY DEF SInv, Types, TypeOK
  <2> QED
    BY <1>1, <1>5, <1>6, <2>1, <2>2, <2>3 DEF Held
<1> QED
  BY <1>1, <1>2, <1>3, <1>4, <1>5, <1>6, SetMapsKeeps

LEMMA AddOracleKeeps ==
    ASSUME CarefulCallers, SInv, NEW o \in OracleId, addOracle(o) PROVE SInv'
<1> USE DEF SInv, addOracle, chain, history
<1>1. /\ registered' \in [Key -> Nat]
      /\ \A k \in Key : registered[k] <= registered'[k]
      /\ \A k \in Key \ overlapped : registered'[k] <= 1
      /\ \A k \in Key : registered'[k] # registered[k] => k \in NewOracles({o})
      /\ o \notin oraclesToPoll => registered'[o] > 0
  BY NewOraclesRegister, {o} \in SUBSET OracleId, Register(NewOracles({o})), oraclesToPoll' = oraclesToPoll \cup {o}
<1>2. isSubscribed /\ NewOracles({o}) \subseteq {o} /\ o \in Key
  BY DEF PollsWhenNeeded, NothingAdded, NewOracles, Key
<1>3. Types'
  BY <1>1, <1>2 DEF Types, TypeOK
<1>4. (\A k \in Key : Owned(k))'
  BY <1>1, <1>2 DEF Owned, Held
<1>5. PollsWhenNeeded' /\ MapsFollowCopies'
  BY <1>2 DEF PollsWhenNeeded, NothingAdded, MapsFollowCopies
<1>6. OraclesPolled'
  BY <1>1 DEF OraclesPolled, Types, TypeOK, Key
<1>7. MapsAreServed'
  <2> SUFFICES ASSUME subscribing.at \in {"idle", "mapped"}, accountsToPoll # {},
                      overlapped = {}, NEW n \in Market \ dropped
               PROVE  HasPrice(oracleMap[n])'
    BY DEF MapsAreServed
  <2>1. HasPrice(oracleMap[n]) /\ oracleMap[n] \in OracleId \cup {None}
    BY DEF MapsAreServed, Types, TypeOK
  <2> QED
    BY <1>1, <2>1 DEF HasPrice, Key, Types, TypeOK
<1> QED
  BY <1>3, <1>4, <1>5, <1>6, <1>7

LEMMA PriceReadKeeps ==
    ASSUME CarefulCallers, SInv, NEW m \in Market, getOraclePriceDataAndSlotForMarket(m)
    PROVE  SInv'
<1>1. /\ isSubscribed /\ setOracleMaps(SameKind(m))
      /\ UNCHANGED <<chain, buffers, isSubscribed, isSubscribing, subscribing, accountsToPoll,
                     callbackId, copies, oracles, calls, history>>
  BY DEF getOraclePriceDataAndSlotForMarket
<1>2. /\ SameKind(m) \in SUBSET Market /\ callbackId' \in SUBSET Key
      /\ subscribing' \in [at : Place, tries : Nat, waits : SUBSET OracleId]
      /\ calls' \in [Market -> [checked : Nat, added : Nat]]
      /\ \A k \in accountsToPoll \cup oraclesToPoll : Held(k) => Held(k)'
  BY <1>1 DEF SInv, Types, TypeOK, SameKind, Market, setOracleMaps, Held
<1> QED
  BY <1>1, <1>2, SetMapsKeeps

-----------------------------------------------------------------------------
(* The subscription by itself.                                              *)
LEMMA SubscriberKeeps == ASSUME CarefulCallers, SInv, SubscriberNext PROVE SInv'
<1>1. ASSUME NEW m \in Market, NEW o \in OracleId, OracleChanges(m, o) PROVE SInv'
  <2>1. [marketOracle EXCEPT ![m] = o] \in [Market -> OracleId \cup {None}]
    BY DEF SInv, Types, TypeOK
  <2> QED
    BY <1>1, <2>1, ChainKeeps DEF OracleChanges, SInv, Types, TypeOK
<1>2. ASSUME NEW p \in PerpMarket, MarketDelisted(p) PROVE SInv'
  <2>1. delisted \cup {p} \in SUBSET PerpMarket
    BY DEF SInv, Types, TypeOK
  <2> QED
    BY <1>2, <2>1, ChainKeeps DEF MarketDelisted, SInv, Types, TypeOK
<1>3. ASSUME fetch PROVE SInv'
  BY <1>3, FetchedKeeps DEF fetch
<1> QED
  BY <1>1, <1>2, <1>3, DeliversKeeps, SubscribeKeeps, AddedKeeps, SubscribeFetchesKeeps,
     DelistedKeeps, SubscribeSetsMapsKeeps, SubscribeReturnsKeeps, UnsubscribeKeeps,
     AddMarketChecksKeeps, AddMarketRegistersKeeps, AddMarketReturnsKeeps, PriceReadKeeps,
     AddOracleKeeps, AddReturnsKeeps
  DEF SubscriberNext

-----------------------------------------------------------------------------
(* The admin's instructions name an oracle of the exchange, or none.        *)
NamesOracle(ix) == ix.oracle \in OracleId \cup {None}

LEMMA Plain ==
    /\ \A object, fields : NamesOracle(Sets(object, fields)) /\ NamesOracle(ByWallet(Sets(object, fields)))
    /\ \A object, fields, o : Naming(Sets(object, fields), o).oracle = o
    /\ \A object, fields, o : ByWallet(Naming(Sets(object, fields), o)).oracle = o
BY DEF NamesOracle, Sets, Naming, ByWallet

LEMMA PerpMarketNames ==
    ASSUME NEW p \in PerpMarket, NEW known \in OracleId, NEW ix \in ForPerpMarket(p, known)
    PROVE  NamesOracle(ix)
BY Plain DEF NamesOracle, ForPerpMarket,
       moveAmmPrice, moveAmmToPrice, recenterPerpMarketAmm, initializePredictionMarket,
       updateK, repegAmmCurve, updatePerpMarketAmmOracleTwap, resetPerpMarketAmmOracleTwap,
       updatePerpMarketAmmSummaryStats, depositIntoPerpMarketFeePool,
       updatePerpMarketConcentrationScale, updatePerpMarketCurveUpdateIntensity,
       updatePerpMarketTargetBaseAssetAmountPerLp, updatePerpMarketPerLpBase,
       updatePerpMarketBaseSpread, updatePerpMarketMaxSpread, updateAmmJitIntensity,
       updatePerpMarketMaxFillReserveFraction, updateMaxSlippageRatio,
       updatePerpMarketMarginRatio, updatePerpMarketHighLeverageMarginRatio,
       updatePerpMarketImfFactor, updatePerpMarketName,
       updatePerpMarketStepSizeAndTickSize, updatePerpMarketMinOrderSize,
       updatePerpMarketExpiry, updatePerpMarketStatus, updatePerpMarketPausedOperations,
       updatePerpMarketContractTier, updatePerpMarketUnrealizedAssetWeight,
       updatePerpMarketMaxImbalances, updatePerpMarketMaxOpenInterest,
       updatePerpMarketNumberOfUser, updatePerpMarketFeeAdjustment,
       updatePerpMarketLiquidationFee, updatePerpMarketFuel, initializePrelaunchOracle,
       updatePrelaunchOracleParams, deletePrelaunchOracle, deleteInitializedPerpMarket,
       updatePerpMarketOracle

LEMMA SpotMarketNames ==
    ASSUME NEW s \in SpotMarket, NEW ix \in ForSpotMarket(s)
    PROVE  NamesOracle(ix)
BY Plain DEF NamesOracle, ForSpotMarket,
       depositIntoSpotMarketVault, updateSpotMarketName, updateSpotMarketPoolId,
       updateWithdrawGuardThreshold, updateSpotMarketIfFactor,
       updateSpotMarketRevenueSettlePeriod, updateSpotMarketMaxTokenDeposits,
       updateSpotMarketMaxTokenBorrows, updateSpotMarketScaleInitialAssetWeightStart,
       updateInsuranceFundUnstakingPeriod, updateSpotMarketStepSizeAndTickSize,
       updateSpotMarketMinOrderSize, updateSpotMarketOrdersEnabled,
       updateSpotMarketIfPausedOperations, updateSpotMarketExpiry,
       updateSpotMarketMarginWeights, updateSpotMarketBorrowRate,
       updateSpotMarketAssetTier, updateSpotMarketStatus, updateSpotMarketPausedOperations,
       updateSpotMarketFeeAdjustment, updateSpotMarketLiquidationFee, updateSpotMarketFuel,
       initializeSerumFulfillmentConfig, initializePhoenixFulfillmentConfig,
       initializeOpenbookV2FulfillmentConfig, deleteInitializedSpotMarket,
       updateSpotMarketOracle

LEMMA ExchangeNames == ASSUME NEW ix \in ForExchange PROVE NamesOracle(ix)
BY Plain DEF NamesOracle, ForExchange,
       updateAdmin, updatePerpFeeStructure, updateSpotFeeStructure,
       updateInitialPctToLiquidate, updateLiquidationDuration,
       updateLiquidationMarginBufferRatio, updateOracleGuardRails,
       updateStateSettlementDuration, updateStateMaxNumberOfSubAccounts,
       updateStateMaxInitializeUserFee, updateLpCooldownTime, updateWhitelistMint,
       updateDiscountMint, updateExchangeStatus, updatePerpAuctionDuration,
       updateSpotAuctionDuration, updateSerumVault, initUserFuel,
       updateSerumFulfillmentConfigStatus, updatePhoenixFulfillmentConfigStatus,
       initializeProtocolIfSharesTransferConfig, updateProtocolIfSharesTransferConfig,
       initializeHighLeverageModeConfig, updateUpdateHighLeverageModeConfig,
       initializePythPullOracle

LEMMA InitializeIxIs ==
    ASSUME NEW m \in Market, NEW o \in OracleId
    PROVE  InitializeIx(m, o).object = m /\ InitializeIx(m, o).oracle = o
BY DEF InitializeIx, initializePerpMarketIx, initializeSpotMarketIx, Naming, Sets

(* What an instruction does to the chain leaves it well-formed.             *)
LEMMA EffectKeeps ==
    ASSUME SInv, NEW ix, NamesOracle(ix), Effect(ix), UNCHANGED <<loader, client, history>>
    PROVE  SInv'
<1>1. PICK gone \in {delisted, delisted \cup {ix.object}}, adm \in Admin :
          /\ gone # delisted => ix.object \in PerpMarket /\ ix.fields = {"status"}
          /\ adm # admin <=> ix.object = State /\ "admin" \in ix.fields
          /\ ChainBecomes(IF ix.object \in Market /\ "deleted" \in ix.fields
                          THEN [marketOracle EXCEPT ![ix.object] = None]
                          ELSE IF ix.object \in Market /\ "oracle" \in ix.fields
                               THEN [marketOracle EXCEPT ![ix.object] = ix.oracle]
                               ELSE marketOracle,
                          IF "deleted" \in ix.fields THEN gone \ {ix.object} ELSE gone, adm)
  BY DEF Effect
<1> DEFINE oracleOf == IF ix.object \in Market /\ "deleted" \in ix.fields
                       THEN [marketOracle EXCEPT ![ix.object] = None]
                       ELSE IF ix.object \in Market /\ "oracle" \in ix.fields
                            THEN [marketOracle EXCEPT ![ix.object] = ix.oracle]
                            ELSE marketOracle
           left == IF "deleted" \in ix.fields THEN gone \ {ix.object} ELSE gone
<1>2. oracleOf \in [Market -> OracleId \cup {None}]
  BY DEF SInv, Types, TypeOK, NamesOracle
<1>3. left \in SUBSET PerpMarket
  BY <1>1 DEF SInv, Types, TypeOK
<1>4. ChainBecomes(oracleOf, left, adm)
  BY <1>1
<1> HIDE DEF oracleOf, left
<1> QED
  BY <1>1, <1>2, <1>3, <1>4, ChainKeeps

-----------------------------------------------------------------------------
(* The admin's operations.                                                  *)
LEMMA SendUpdateKeeps ==
    ASSUME IInv, NEW ix, NamesOracle(ix), SendUpdate(ix) PROVE IInv'
<1>1. SInv'
  BY EffectKeeps DEF SendUpdate, IInv
<1>2. CallOK'
  BY DEF SendUpdate, IInv, CallOK, client
<1> QED
  BY <1>1, <1>2 DEF IInv

LEMMA MarketUpdateKeeps ==
    ASSUME IInv, NEW p \in PerpMarket, copies[p] # None,
           NEW ix \in ForPerpMarket(p, copies[p].oracle), SendUpdate(ix)
    PROVE  IInv'
<1>1. copies[p].oracle \in OracleId
  BY DEF IInv, SInv, Types, MarketAccount, Market
<1> QED
  BY <1>1, PerpMarketNames, SendUpdateKeeps

LEMMA InitializeKeeps ==
    ASSUME IInv, NEW m \in Market, NEW o \in OracleId, initializeMarket(m, o)
    PROVE  IInv'
<1> DEFINE ix == InitializeIx(m, o)
<1>1. ix.object = m /\ ix.oracle = o
  BY InitializeIxIs
<1>2. NamesOracle(ix)
  BY <1>1 DEF NamesOracle
<1>3. /\ Effect(ix) /\ isSubscribed
      /\ call' = [at   |-> IF m \in PerpMarket THEN "counting" ELSE "adding",
                  ix   |-> ix,
                  seen |-> copies[State].numberOfMarkets]
      /\ UNCHANGED <<loader, client, history>>
  BY DEF initializeMarket
<1> HIDE DEF ix
<1>4. SInv'
  BY <1>2, <1>3, EffectKeeps DEF IInv
<1>5. isSubscribed'
  BY <1>3 DEF client
<1>6. CallOK'
  BY <1>1, <1>3, <1>5 DEF CallOK
<1> QED
  BY <1>4, <1>6 DEF IInv

(* The call goes on and the subscription does not change, or only its maps. *)
LEMMA GotoKeeps ==
    ASSUME IInv, NEW at, call.at # "none", Goto(at), SInv', isSubscribed' = isSubscribed
    PROVE  IInv'
BY DEF IInv, CallOK, Goto

LEMMA SameVars == ASSUME SInv, UNCHANGED vars PROVE SInv'
<1> USE DEF SInv, vars, chain, loader, client, history
<1>1. Types' /\ (\A k \in Key : Owned(k))'
  BY DEF Types, TypeOK, Owned, Held
<1>2. (PollsWhenNeeded /\ OraclesPolled /\ MapsFollowCopies /\ MapsAreServed)'
  BY DEF PollsWhenNeeded, NothingAdded, OraclesPolled, MapsFollowCopies, MapsAreServed, HasPrice
<1> QED
  BY <1>1, <1>2

LEMMA InitializeAddsKeeps == ASSUME CarefulCallers, IInv, initializeMarketAdds PROVE IInv'
<1>1. call.at # "none" /\ call.ix.object \in Market
  BY DEF initializeMarketAdds, IInv, CallOK
<1>2. CASE call.ix.object \in accountsToPoll
  <2>1. Goto("addingOracle") /\ UNCHANGED vars
    BY <1>2 DEF initializeMarketAdds
  <2>2. SInv' /\ isSubscribed' = isSubscribed
    BY <2>1, SameVars DEF IInv, vars, client
  <2> QED
    BY <1>1, <2>1, <2>2, GotoKeeps
<1>3. CASE call.ix.object \notin accountsToPoll
  <2>1. Goto("addingMarket") /\ addMarketChecks(call.ix.object)
    BY <1>3 DEF initializeMarketAdds
  <2>2. SInv' /\ isSubscribed' = isSubscribed
    BY <1>1, <2>1, AddMarketChecksKeeps DEF IInv, addMarketChecks
  <2> QED
    BY <1>1, <2>1, <2>2, GotoKeeps
<1> QED
  BY <1>2, <1>3

LEMMA InitializeAddsOracleKeeps ==
    ASSUME CarefulCallers, IInv, initializeMarketAddsOracle PROVE IInv'
<1>1. call.at # "none" /\ call.ix.oracle \in OracleId /\ Goto("setting")
  BY DEF initializeMarketAddsOracle, IInv, CallOK
<1>2. CASE UNCHANGED vars
  <2>1. SInv' /\ isSubscribed' = isSubscribed
    BY <1>2, SameVars DEF IInv, vars, client
  <2> QED
    BY <1>1, <2>1, GotoKeeps
<1>3. CASE addOracle(call.ix.oracle)
  <2>1. SInv' /\ isSubscribed' = isSubscribed
    BY <1>1, <1>3, AddOracleKeeps DEF IInv, addOracle
  <2> QED
    BY <1>1, <2>1, GotoKeeps
<1> QED
  BY <1>2, <1>3 DEF initializeMarketAddsOracle

LEMMA InitializeReturnsKeeps == ASSUME IInv, initializeMarketReturns PROVE IInv'
<1>1. /\ call.at = "setting" /\ call' = NoCall
      /\ setOracleMaps(SameKind(call.ix.object))
      /\ UNCHANGED <<chain, buffers, isSubscribed, isSubscribing, subscribing, accountsToPoll,
                     callbackId, copies, oracles, calls, history>>
  BY DEF initializeMarketReturns
<1>2. /\ SameKind(call.ix.object) \in SUBSET Market /\ isSubscribed
      /\ callbackId' \in SUBSET Key
      /\ subscribing' \in [at : Place, tries : Nat, waits : SUBSET OracleId]
      /\ calls' \in [Market -> [checked : Nat, added : Nat]]
      /\ \A k \in accountsToPoll \cup oraclesToPoll : Held(k) => Held(k)'
  BY <1>1 DEF IInv, CallOK, SInv, Types, TypeOK, SameKind, Market, setOracleMaps, Held
<1>3. SInv'
  BY <1>1, <1>2, SetMapsKeeps DEF IInv
<1>4. CallOK'
  BY <1>1 DEF CallOK, NoCall
<1> QED
  BY <1>3, <1>4 DEF IInv

-----------------------------------------------------------------------------
LEMMA Invariance == ASSUME CarefulCallers, IInv, [AdminNext]_adminVars PROVE IInv'
<1>1. ASSUME SubscriberNext, call.at # "none" /\ isSubscribed => isSubscribed', UNCHANGED call
      PROVE  IInv'
  BY <1>1, SubscriberKeeps DEF IInv, CallOK
<1>2. ASSUME NEW s \in SpotMarket, NEW ix \in ForSpotMarket(s), SendUpdate(ix) PROVE IInv'
  BY <1>2, SpotMarketNames, SendUpdateKeeps
<1>3. ASSUME NEW ix \in ForExchange, SendUpdate(ix) PROVE IInv'
  BY <1>3, ExchangeNames, SendUpdateKeeps
<1>4. ASSUME initializePerpMarketCounts PROVE IInv'
  BY <1>4, SameVars, GotoKeeps DEF initializePerpMarketCounts, IInv, vars, client
<1>5. ASSUME initializeMarketAdded PROVE IInv'
  BY <1>5, SameVars, GotoKeeps DEF initializeMarketAdded, IInv, vars, client
<1>6. ASSUME UNCHANGED adminVars PROVE IInv'
  BY <1>6, SameVars DEF adminVars, IInv, CallOK, vars, client
<1> QED
  BY <1>1, <1>2, <1>3, <1>4, <1>5, <1>6, MarketUpdateKeeps, InitializeKeeps,
     InitializeAddsKeeps, InitializeAddsOracleKeeps, InitializeReturnsKeeps DEF AdminNext

(* Markets and oracles come into the subscription one by one, by calls that *)
(* overlap with prices being read and with the admin's own transactions;    *)
(* still the loader never calls the client twice for one account, and every *)
(* callback has an owner that unsubscribe() finds (addMarketChecks to       *)
(* addMarketReturns, addOracle, setOracleMaps, initializePerpMarket); but   *)
(* for a market that two calls add which both checked before either set its *)
(* entry.                                                                   *)
THEOREM NoCallbackIsLost == CarefulCallers => (AdminSpec => []CallbacksAreOwned)
<1> SUFFICES ASSUME CarefulCallers PROVE AdminSpec => []CallbacksAreOwned
  OBVIOUS
<1>1. AdminInit => IInv
  BY InitInv
<1>2. IInv /\ [AdminNext]_adminVars => IInv'
  BY Invariance
<1>3. IInv => CallbacksAreOwned
  BY DEF IInv, SInv, Types, Owned, Held, CallbacksAreOwned
<1> QED
  BY <1>1, <1>2, <1>3, PTL DEF AdminSpec

(* While subscribed, a market's price can be read: its oracle has a price   *)
(* or is polled for one, through every change of a market's oracle, by the  *)
(* program or by this admin, and every rebuilding of the maps               *)
(* (setPerpOracleMap and setSpotOracleMap).                                 *)
THEOREM PricesAreServed == CarefulCallers => (AdminSpec => []PricesArrive)
<1> SUFFICES ASSUME CarefulCallers PROVE AdminSpec => []PricesArrive
  OBVIOUS
<1>1. AdminInit => IInv
  BY InitInv
<1>2. IInv /\ [AdminNext]_adminVars => IInv'
  BY Invariance
<1>3. IInv => PricesArrive
  BY DEF IInv, SInv, PollsWhenNeeded, NothingAdded, MapsAreServed, HasPrice, PricesArrive
<1> QED
  BY <1>1, <1>2, <1>3, PTL DEF AdminSpec
=============================================================================
