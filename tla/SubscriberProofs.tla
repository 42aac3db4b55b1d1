---------------------------- MODULE SubscriberProofs ----------------------------
(***************************************************************************)
(* What the subscribers keep, for any number of subscribers, listeners and  *)
(* slots: first those for one account, WebSocketAccountSubscriber and       *)
(* PollingAccountSubscriber, then EventSubscriber, for any transactions,    *)
(* events and options.  Where a theorem says so it assumes that nobody      *)
(* calls unsubscribe() during a resubscription (ResubRaces = FALSE), or     *)
(* that callers of subscribe() wait for each other (CarefulCallers).        *)
(***************************************************************************)
EXTENDS Subscribers, SequenceTheorems, FiniteSetTheorems, WellFoundedInduction, TLAPS

-----------------------------------------------------------------------------
(* WebSocketAccountSubscriber.                                              *)

USE DEF Slot, Entry

(* Who may have a listener, a timer or a removal under way.                 *)
Alone ==
    \A s \in Sub :
        /\ listeners[s] # {} \/ timeoutId[s] => client[s] = "on" /\ resub[s] = "none"
        /\ timeoutId[s] => receivingData[s]
        /\ resub[s] # "none" => client[s] = "on"
        /\ isUnsubscribing[s] => client[s] = "removing" \/ resub[s] = "removing"

(* Whoever is in subscribe() meets no listener and no removal: the early    *)
(* return of subscribe() is never taken.                                    *)
SubscribeIsNeeded ==
    \A s \in Sub : client[s] \in {"subscribing", "fetching"} \/ resub[s] \in {"subscribing", "fetching"}
        => listenerId[s] = None /\ ~isUnsubscribing[s]

IInv == SubscriberConsistent /\ Alone /\ SubscribeIsNeeded

(* What onChange was given is not newer than what is stored.                *)
SeenIsStored == \A s \in Sub : seen[s] > 0 => bufferAndSlot[s] # None /\ seen[s] <= bufferAndSlot[s].slot
SInv == TypeOK /\ SeenIsStored

SeenForward == \A s \in Sub : client'[s] # "subscribing" => seen[s] <= seen'[s]

-----------------------------------------------------------------------------
(* What an answer or a notification of a block does to the data.            *)
LEMMA ResponseStored ==
    ASSUME TypeOK, NEW s \in Sub, NEW slot \in 1 .. head, HandleRpcResponse(s, slot)
    PROVE  /\ bufferAndSlot' \in [Sub -> Entry \cup {None}]
           /\ dataAndSlot' \in [Sub -> Entry \cup {None}]
           /\ seen' \in [Sub -> 0 .. MaxSlot]
           /\ DataNotOlderThanBuffer => DataNotOlderThanBuffer'
           /\ SeenIsStored => SeenIsStored' /\ \A t \in Sub : seen[t] <= seen'[t]
<1> DEFINE value == Ledger[s][slot]
           entry == [slot |-> slot, value |-> value]
           taken == Newer(bufferAndSlot[s], slot, value)
<1>1. slot \in 1 .. MaxSlot /\ slot \in Int /\ MaxSlot \in Int /\ slot > 0
  BY SlotAssumption DEF TypeOK
<1>2. entry \in Entry /\ entry # None /\ entry.slot = slot /\ entry.value = value
  BY <1>1, LedgerAssumption, NoneAssumption
<1>3. /\ bufferAndSlot' = [bufferAndSlot EXCEPT ![s] = IF taken THEN entry ELSE @]
      /\ dataAndSlot' = [dataAndSlot EXCEPT ![s] = IF taken /\ value # None THEN entry ELSE @]
      /\ seen' = [seen EXCEPT ![s] = IF taken /\ value # None THEN slot ELSE @]
  BY DEF HandleRpcResponse
<1>4. taken /\ bufferAndSlot[s] # None => slot >= bufferAndSlot[s].slot /\ value # None
  BY DEF Newer
<1> HIDE DEF taken, entry, value
<1>5. \A t \in Sub : /\ bufferAndSlot'[t] = IF t = s /\ taken THEN entry ELSE bufferAndSlot[t]
                     /\ dataAndSlot'[t] = IF t = s /\ taken /\ value # None THEN entry ELSE dataAndSlot[t]
                     /\ seen'[t] = IF t = s /\ taken /\ value # None THEN slot ELSE seen[t]
  BY <1>3 DEF TypeOK
<1>6. /\ bufferAndSlot' \in [Sub -> Entry \cup {None}]
      /\ dataAndSlot' \in [Sub -> Entry \cup {None}]
      /\ seen' \in [Sub -> 0 .. MaxSlot]
  BY <1>1, <1>2, <1>3 DEF TypeOK
<1>7. \A t \in Sub : /\ seen[t] \in Int
                     /\ bufferAndSlot[t] # None => bufferAndSlot[t].slot \in Int
                     /\ dataAndSlot[t] # None => dataAndSlot[t].slot \in Int
  BY <1>1 DEF TypeOK
<1>8. ASSUME DataNotOlderThanBuffer PROVE DataNotOlderThanBuffer'
  BY <1>8, <1>1, <1>2, <1>4, <1>5 DEF DataNotOlderThanBuffer
<1>9. ASSUME SeenIsStored PROVE SeenIsStored' /\ \A t \in Sub : seen[t] <= seen'[t]
  BY <1>9, <1>1, <1>2, <1>4, <1>5, <1>7 DEF SeenIsStored
<1> QED
  BY <1>6, <1>8, <1>9

LEMMA TypeStep == TypeOK /\ [Next]_vars => TypeOK'
<1> SUFFICES ASSUME TypeOK, [Next]_vars PROVE TypeOK'
  OBVIOUS
<1> USE DEF TypeOK, connection, flags, stored
<1>h. MaxSlot \in Int /\ head \in Int
  BY SlotAssumption
<1>1. CASE AdvanceChain
  BY <1>1, <1>h DEF AdvanceChain
<1>2. ASSUME NEW s \in Sub, ClientSubscribe(s) PROVE TypeOK'
  <2>1. dataAndSlot' \in [Sub -> Entry \cup {None}]
    <3>1. PICK supplied \in {None} \cup {[slot |-> 0, value |-> v] : v \in {Ledger[s][i] : i \in 1 .. head} \ {None}} :
             dataAndSlot' = [dataAndSlot EXCEPT ![s] = supplied]
      BY <1>2 DEF ClientSubscribe
    <3>2. \A i \in 1 .. head : Ledger[s][i] \in Value \cup {None}
      BY <1>h, LedgerAssumption
    <3>3. supplied \in Entry \cup {None}
      BY <3>1, <3>2, <1>h
    <3> QED
      BY <3>1, <3>3
  <2> QED
    BY <1>2, <1>h, <2>1 DEF ClientSubscribe
<1>3. ASSUME NEW s \in Sub, NEW a \in Actor, SubscribeFetches(s, a) \/ SubscribeFetchFails(s, a)
      PROVE  TypeOK'
  BY <1>3 DEF SubscribeFetches, SubscribeFetchFails, GoesTo, Actor, At, Failed
<1>4. ASSUME NEW s \in Sub, NEW a \in Actor, SubscribeRegisters(s, a) PROVE TypeOK'
  BY <1>4 DEF SubscribeRegisters, GoesTo, Actor, At, Done, Register
<1>5. ASSUME NEW s \in Sub, NEW a \in Actor, NEW slot \in 1 .. head, SubscribeFetched(s, a, slot)
      PROVE  TypeOK'
  <2>1. HandleRpcResponse(s, slot)
    BY <1>5 DEF SubscribeFetched
  <2> QED
    BY <1>5, <2>1, ResponseStored DEF SubscribeFetched, GoesTo, Actor, At, Done, Register
<1>6. ASSUME NEW s \in Sub, NEW slot \in 1 .. head, Notification(s, slot) \/ FetchAnswered(s, slot)
      PROVE  TypeOK'
  <2>1. HandleRpcResponse(s, slot)
    BY <1>6 DEF Notification, FetchAnswered
  <2> QED
    BY <1>6, <2>1, ResponseStored DEF Notification, FetchAnswered
<1>7. ASSUME NEW s \in Sub, NEW slot \in 1 .. head, UpdateData(s, slot) PROVE TypeOK'
  <2>1. [slot |-> slot, value |-> Ledger[s][slot]] \in Entry
    BY <1>h, LedgerAssumption
  <2> QED
    BY <1>7, <2>1 DEF UpdateData
<1>8. ASSUME NEW s \in Sub,
             Fetch(s) \/ FetchFails(s) \/ ClientUnsubscribe(s) \/ TimerFires(s)
      PROVE  TypeOK'
  <2>1. CASE Fetch(s) \/ FetchFails(s)
    BY <2>1 DEF Fetch, FetchFails
  <2>2. (listenerId[s] # None) \in BOOLEAN
    OBVIOUS
  <2>3. CASE ClientUnsubscribe(s)
    <3>1. isUnsubscribing' \in [Sub -> BOOLEAN]
      BY <2>2, <2>3 DEF ClientUnsubscribe
    <3> QED
      BY <2>3, <3>1 DEF ClientUnsubscribe, RemoveListener
  <2>4. CASE TimerFires(s)
    <3>1. isUnsubscribing' \in [Sub -> BOOLEAN]
      BY <2>2, <2>4 DEF TimerFires
    <3>2. timeoutId' \in [Sub -> BOOLEAN]
      BY <2>4 DEF TimerFires
    <3>3. /\ listeners' \in [Sub -> SUBSET Listener]
          /\ resub' \in [Sub -> {"none", "removing", "subscribing", "fetching"}]
      BY <2>4 DEF TimerFires, RemoveListener
    <3>4. UNCHANGED <<head, resubTimeoutMs, client, fetching, listenerId, receivingData, stored>>
      BY <2>4 DEF TimerFires
    <3> QED
      BY <3>1, <3>2, <3>3, <3>4
  <2> QED
    BY <1>8, <2>1, <2>3, <2>4
<1>9. ASSUME NEW s \in Sub, ClientUnsubscribed(s) \/ ResubUnsubscribed(s) PROVE TypeOK'
  BY <1>9 DEF ClientUnsubscribed, ResubUnsubscribed, IdAfterRemoval
<1>10. CASE UNCHANGED vars
  BY <1>10 DEF vars
<1> QED
  BY <1>1, <1>2, <1>3, <1>4, <1>5, <1>6, <1>7, <1>8, <1>9, <1>10 DEF Next, Continues

LEMMA SeenStep == SInv /\ [Next]_vars => SInv' /\ [SeenForward]_vars
<1> SUFFICES ASSUME SInv, [Next]_vars PROVE SeenIsStored' /\ [SeenForward]_vars
  BY TypeStep DEF SInv
<1> USE DEF SInv, flags, stored
<1>i. \A s \in Sub : seen[s] \in Int
  BY SlotAssumption DEF TypeOK
<1>1. CASE UNCHANGED <<bufferAndSlot, seen>>
  BY <1>1, <1>i DEF SeenIsStored, SeenForward
<1>2. ASSUME NEW s \in Sub, NEW slot \in 1 .. head, HandleRpcResponse(s, slot)
      PROVE  SeenIsStored' /\ SeenForward
  BY <1>2, ResponseStored DEF SeenForward
<1>3. ASSUME NEW s \in Sub, ClientSubscribe(s) PROVE SeenIsStored' /\ SeenForward
  <2>1. \A t \in Sub : /\ seen'[t] = IF t = s THEN 0 ELSE seen[t]
                       /\ bufferAndSlot'[t] = IF t = s THEN None ELSE bufferAndSlot[t]
                       /\ client'[t] = IF t = s THEN "subscribing" ELSE client[t]
    BY <1>3 DEF ClientSubscribe, TypeOK
  <2> QED
    BY <2>1, <1>i DEF SeenIsStored, SeenForward
<1> QED
  <2>1. CASE UNCHANGED vars
    BY <2>1, <1>1 DEF vars
  <2>2. CASE Next
    BY <2>2, <1>1, <1>2, <1>3 DEF Next, Continues, AdvanceChain, ClientUnsubscribe, Fetch,
       FetchFails, Notification, FetchAnswered, UpdateData, TimerFires, SubscribeFetches,
       SubscribeRegisters, SubscribeFetchFails, SubscribeFetched, ClientUnsubscribed, ResubUnsubscribed
  <2> QED
    BY <2>1, <2>2

LEMMA InitTypeOK == Init => TypeOK
BY SlotAssumption, SwitchAssumption DEF Init, TypeOK

LEMMA InitSInv == Init => SInv
BY InitTypeOK DEF Init, SInv, SeenIsStored

(* What onChange is given never goes back in slots while the owner stays    *)
(* subscribed, even if unsubscribe() races with a resubscription.           *)
THEOREM OnChangeNeverGoesBack == Spec => OnChangeMovesForward
<1>1. SInv /\ [Next]_vars =>
        [\A s \in Sub : client'[s] # "subscribing" => seen[s] <= seen'[s]]_vars
  BY SeenStep DEF SeenForward
<1> QED
  BY <1>1, InitSInv, SeenStep, PTL DEF Spec, OnChangeMovesForward
-----------------------------------------------------------------------------
(* One registration, by the owner or by the watchdog's callback.            *)
LEMMA RegisterKeeps ==
    ASSUME IInv, NEW s \in Sub, NEW a \in Actor,
           At(s, a, "subscribing") \/ At(s, a, "fetching"),
           GoesTo(s, a, Done(a)), Register(s), UNCHANGED <<resubTimeoutMs, isUnsubscribing>>
    PROVE  /\ ListenersTracked' /\ NoListenerOnceUnsubscribed' /\ WatchdogArmed'
           /\ Alone' /\ SubscribeIsNeeded'
<1>0. TypeOK
  BY DEF IInv, SubscriberConsistent
<1>1. PICK id \in Listener \ (listeners[s] \cup {listenerId[s]}) :
         /\ listeners' = [listeners EXCEPT ![s] = @ \cup {id}]
         /\ listenerId' = [listenerId EXCEPT ![s] = id]
  BY DEF Register
<1>2. listeners[s] = {} /\ listenerId[s] = None /\ ~isUnsubscribing[s]
  BY <1>0 DEF IInv, Alone, SubscribeIsNeeded, At, Actor
<1>3. /\ \A t \in Sub : t # s => /\ listeners'[t] = listeners[t] /\ listenerId'[t] = listenerId[t]
                                /\ client'[t] = client[t] /\ resub'[t] = resub[t]
                                /\ timeoutId'[t] = timeoutId[t] /\ receivingData'[t] = receivingData[t]
      /\ listeners'[s] = {id} /\ listenerId'[s] = id
      /\ client'[s] = "on" /\ resub'[s] = "none"
  <2>1. a = "client" => client[s] \in {"subscribing", "fetching"} /\ resub[s] = "none"
    BY <1>0 DEF At, IInv, Alone
  <2>2. a = "resub" => resub[s] \in {"subscribing", "fetching"} /\ client[s] = "on"
    BY <1>0 DEF At, IInv, Alone
  <2>3. client' = [client EXCEPT ![s] = "on"] /\ resub' = [resub EXCEPT ![s] = "none"]
    BY <2>1, <2>2, <1>0 DEF GoesTo, Done, Actor, TypeOK
  <2> QED
    BY <2>3, <1>0, <1>1, <1>2 DEF Register, TypeOK
<1>4. /\ receivingData'[s] = (receivingData[s] \/ resubTimeoutMs)
      /\ timeoutId'[s] = (timeoutId[s] \/ resubTimeoutMs)
  BY <1>0 DEF Register, TypeOK
<1>5. ~timeoutId[s]
  BY <1>0 DEF IInv, Alone, At, Actor
<1>6. isUnsubscribing' = isUnsubscribing /\ resubTimeoutMs' = resubTimeoutMs
  OBVIOUS
<1>7. (timeoutId'[s] = TRUE => receivingData'[s]) /\ (resubTimeoutMs => timeoutId'[s] /\ receivingData'[s])
  BY <1>4, <1>5, Zenon
<1>8. Alone'
  BY <1>2, <1>3, <1>6, <1>7 DEF IInv, Alone
<1>9. WatchdogArmed'
  BY <1>3, <1>6, <1>7 DEF IInv, SubscriberConsistent, WatchdogArmed
<1> QED
  BY <1>2, <1>3, <1>6, <1>8, <1>9 DEF IInv, SubscriberConsistent, ListenersTracked, NoListenerOnceUnsubscribed,
     SubscribeIsNeeded

(* Who has a listener, a timer or a removal does not change.                *)
LEMMA ControlUnchanged ==
    ASSUME IInv, UNCHANGED <<listeners, client, resub, listenerId, isUnsubscribing, resubTimeoutMs>>,
           UNCHANGED <<receivingData, timeoutId>>
    PROVE  ListenersTracked' /\ NoListenerOnceUnsubscribed' /\ WatchdogArmed' /\ Alone' /\ SubscribeIsNeeded'
BY DEF IInv, SubscriberConsistent, ListenersTracked, NoListenerOnceUnsubscribed, WatchdogArmed, Alone,
   SubscribeIsNeeded

LEMMA DataUnchanged ==
    ASSUME IInv, UNCHANGED <<bufferAndSlot, dataAndSlot>>
    PROVE  DataNotOlderThanBuffer'
BY DEF IInv, SubscriberConsistent, DataNotOlderThanBuffer

LEMMA IInvStep == ResubRaces = FALSE /\ IInv /\ [Next]_vars => IInv'
<1> SUFFICES ASSUME ResubRaces = FALSE, IInv, [Next]_vars PROVE IInv'
  OBVIOUS
<1>0. TypeOK /\ TypeOK'
  BY TypeStep DEF IInv, SubscriberConsistent
<1> DEFINE Control == /\ ListenersTracked /\ NoListenerOnceUnsubscribed /\ WatchdogArmed
                      /\ Alone /\ SubscribeIsNeeded
<1> SUFFICES Control' /\ DataNotOlderThanBuffer'
  BY <1>0 DEF IInv, SubscriberConsistent
<1>h. /\ Control /\ DataNotOlderThanBuffer
  BY DEF IInv, SubscriberConsistent
<1> USE DEF connection, flags, stored
<1>1. CASE AdvanceChain
  BY <1>1, ControlUnchanged, DataUnchanged DEF AdvanceChain
<1>2. ASSUME NEW s \in Sub, ClientSubscribe(s) PROVE Control' /\ DataNotOlderThanBuffer'
  <2>1. /\ client[s] = "off" /\ resub[s] = "none" /\ listeners[s] = {} /\ ~timeoutId[s]
    BY <1>0, <1>2, <1>h DEF ClientSubscribe, NoListenerOnceUnsubscribed, Alone
  <2>2. /\ client' = [client EXCEPT ![s] = "subscribing"]
        /\ bufferAndSlot' = [bufferAndSlot EXCEPT ![s] = None]
        /\ listenerId' = [listenerId EXCEPT ![s] = None]
        /\ isUnsubscribing' = [isUnsubscribing EXCEPT ![s] = FALSE]
        /\ receivingData' = [receivingData EXCEPT ![s] = FALSE]
        /\ UNCHANGED <<connection, resubTimeoutMs, resub, fetching, timeoutId>>
        /\ \E supplied : dataAndSlot' = [dataAndSlot EXCEPT ![s] = supplied]
    BY <1>2 DEF ClientSubscribe
  <2>3. \A t \in Sub :
          /\ client'[t] = IF t = s THEN "subscribing" ELSE client[t]
          /\ bufferAndSlot'[t] = IF t = s THEN None ELSE bufferAndSlot[t]
          /\ listenerId'[t] = IF t = s THEN None ELSE listenerId[t]
          /\ t # s => /\ isUnsubscribing'[t] = isUnsubscribing[t] /\ receivingData'[t] = receivingData[t]
                      /\ dataAndSlot'[t] = dataAndSlot[t]
    BY <1>0, <2>2 DEF TypeOK
  <2>4. ~isUnsubscribing'[s]
    BY <1>0, <2>2 DEF TypeOK
  <2>5. DataNotOlderThanBuffer'
    BY <1>h, <2>3 DEF DataNotOlderThanBuffer
  <2>6. Alone'
    BY <1>h, <2>1, <2>2, <2>3, <2>4 DEF Alone
  <2>7. ListenersTracked' /\ NoListenerOnceUnsubscribed'
    BY <1>h, <2>1, <2>2, <2>3 DEF ListenersTracked, NoListenerOnceUnsubscribed
  <2>8. WatchdogArmed' /\ SubscribeIsNeeded'
    <3>1. UNCHANGED <<resubTimeoutMs, resub, timeoutId>>
      BY <2>2
    <3> QED
      BY <1>h, <2>1, <2>3, <2>4, <3>1 DEF WatchdogArmed, SubscribeIsNeeded
  <2> QED
    BY <2>5, <2>6, <2>7, <2>8
<1>3. ASSUME NEW s \in Sub, NEW a \in Actor, SubscribeFetches(s, a) \/ SubscribeFetchFails(s, a)
      PROVE  Control' /\ DataNotOlderThanBuffer'
  <2>1. /\ listenerId[s] = None /\ ~isUnsubscribing[s] /\ listeners[s] = {}
        /\ UNCHANGED <<connection, resubTimeoutMs, fetching, flags, stored>>
    BY <1>0, <1>3, <1>h DEF SubscribeFetches, SubscribeFetchFails, At, Actor, SubscribeIsNeeded, Alone
  <2>2. CASE a = "client"
    <3>1. PICK phase \in {"fetching", "off"} : client' = [client EXCEPT ![s] = phase] /\ resub' = resub
      BY <1>3, <2>2 DEF SubscribeFetches, SubscribeFetchFails, GoesTo, Failed
    <3>2. client[s] \in {"subscribing", "fetching"}
      BY <1>3, <2>2 DEF SubscribeFetches, SubscribeFetchFails, At
    <3>3. \A t \in Sub : client'[t] = IF t = s THEN phase ELSE client[t]
      BY <1>0, <3>1 DEF TypeOK
    <3> QED
      BY <1>h, <2>1, <3>1, <3>2, <3>3, DataUnchanged DEF ListenersTracked, NoListenerOnceUnsubscribed, WatchdogArmed,
         Alone, SubscribeIsNeeded
  <2>3. CASE a = "resub"
    <3>1. PICK phase \in {"fetching", "none"} : resub' = [resub EXCEPT ![s] = phase] /\ client' = client
      BY <1>3, <2>3 DEF SubscribeFetches, SubscribeFetchFails, GoesTo, Failed
    <3>2. resub[s] \in {"subscribing", "fetching"}
      BY <1>3, <2>3 DEF SubscribeFetches, SubscribeFetchFails, At
    <3>3. \A t \in Sub : resub'[t] = IF t = s THEN phase ELSE resub[t]
      BY <1>0, <3>1 DEF TypeOK
    <3> QED
      BY <1>h, <2>1, <3>1, <3>2, <3>3, DataUnchanged DEF ListenersTracked, NoListenerOnceUnsubscribed, WatchdogArmed,
         Alone, SubscribeIsNeeded
  <2> QED
    BY <2>2, <2>3 DEF Actor
<1>4. ASSUME NEW s \in Sub, NEW a \in Actor, SubscribeRegisters(s, a)
      PROVE  Control' /\ DataNotOlderThanBuffer'
  BY <1>4, RegisterKeeps, DataUnchanged DEF SubscribeRegisters
<1>5. ASSUME NEW s \in Sub, NEW a \in Actor, NEW slot \in 1 .. head, SubscribeFetched(s, a, slot)
      PROVE  Control' /\ DataNotOlderThanBuffer'
  <2>1. Control'
    BY <1>5, RegisterKeeps DEF SubscribeFetched
  <2>2. DataNotOlderThanBuffer'
    BY <1>0, <1>5, <1>h, ResponseStored DEF SubscribeFetched
  <2> QED
    BY <2>1, <2>2
<1>6. ASSUME NEW s \in Sub, NEW slot \in 1 .. head, Notification(s, slot)
      PROVE  Control' /\ DataNotOlderThanBuffer'
  <2>1. DataNotOlderThanBuffer'
    BY <1>0, <1>6, <1>h, ResponseStored DEF Notification
  <2>2. client[s] = "on" /\ resub[s] = "none"
    BY <1>6, <1>h DEF Notification, Alone
  <2>3. UNCHANGED <<listeners, resubTimeoutMs, client, resub, listenerId, isUnsubscribing>>
    BY <1>6 DEF Notification
  <2>4. \A t \in Sub : t # s => timeoutId'[t] = timeoutId[t] /\ receivingData'[t] = receivingData[t]
    BY <1>0, <1>6 DEF Notification, TypeOK
  <2>5. CASE resubTimeoutMs
    <3>1. timeoutId'[s] /\ receivingData'[s]
      BY <1>0, <1>6, <2>5 DEF Notification, TypeOK
    <3> QED
      BY <1>h, <2>1, <2>2, <2>3, <2>4, <3>1 DEF ListenersTracked, NoListenerOnceUnsubscribed, WatchdogArmed, Alone,
         SubscribeIsNeeded
  <2>6. CASE ~resubTimeoutMs
    <3>1. timeoutId'[s] = timeoutId[s] /\ receivingData'[s] = receivingData[s]
      BY <1>0, <1>6, <2>6 DEF Notification, TypeOK
    <3> QED
      BY <1>h, <2>1, <2>2, <2>3, <2>4, <3>1 DEF ListenersTracked, NoListenerOnceUnsubscribed, WatchdogArmed, Alone,
         SubscribeIsNeeded
  <2> QED
    BY <2>5, <2>6
<1>7. ASSUME NEW s \in Sub, NEW slot \in 1 .. head, FetchAnswered(s, slot)
      PROVE  Control' /\ DataNotOlderThanBuffer'
  <2>1. DataNotOlderThanBuffer'
    BY <1>0, <1>7, <1>h, ResponseStored DEF FetchAnswered
  <2> QED
    BY <1>7, <2>1, ControlUnchanged DEF FetchAnswered
<1>8. ASSUME NEW s \in Sub, NEW slot \in 1 .. head, UpdateData(s, slot)
      PROVE  Control' /\ DataNotOlderThanBuffer'
  <2> DEFINE entry == [slot |-> slot, value |-> Ledger[s][slot]]
  <2>1. /\ \A t \in Sub : dataAndSlot'[t] = IF t = s THEN entry ELSE dataAndSlot[t]
        /\ bufferAndSlot' = bufferAndSlot
        /\ dataAndSlot[s] # None => dataAndSlot[s].slot <= slot
    BY <1>0, <1>8 DEF UpdateData, NotOlderData, TypeOK
  <2>2. slot \in Int /\ entry.slot = slot /\ entry # None
    <3>1. entry \in Entry
      BY <1>0, SlotAssumption, LedgerAssumption DEF TypeOK
    <3> QED
      BY <3>1, NoneAssumption
  <2>3. \A t \in Sub : /\ bufferAndSlot[t] # None => bufferAndSlot[t].slot \in Int
                       /\ dataAndSlot[t] # None => dataAndSlot[t].slot \in Int
    BY <1>0, SlotAssumption DEF TypeOK
  <2> HIDE DEF entry
  <2>4. DataNotOlderThanBuffer'
    BY <1>h, <2>1, <2>2, <2>3 DEF DataNotOlderThanBuffer
  <2> QED
    BY <1>8, <2>4, ControlUnchanged DEF UpdateData
<1>9. ASSUME NEW s \in Sub, Fetch(s) \/ FetchFails(s) PROVE Control' /\ DataNotOlderThanBuffer'
  BY <1>9, ControlUnchanged, DataUnchanged DEF Fetch, FetchFails
<1>10. ASSUME NEW s \in Sub, ClientUnsubscribe(s) PROVE Control' /\ DataNotOlderThanBuffer'
  <2>1. /\ client[s] = "on" /\ resub[s] = "none" /\ resubTimeoutMs' = FALSE
        /\ UNCHANGED <<resub, listenerId, receivingData, stored>>
    BY <1>10 DEF ClientUnsubscribe
  <2>2. listeners[s] \ {listenerId[s]} = {}
    BY <1>h DEF ListenersTracked
  <2>3. \A t \in Sub :
          /\ listeners'[t] = IF t = s THEN {} ELSE listeners[t]
          /\ client'[t] = IF t # s THEN client[t] ELSE IF listenerId[s] = None THEN "off" ELSE "removing"
          /\ t # s => isUnsubscribing'[t] = isUnsubscribing[t] /\ timeoutId'[t] = timeoutId[t]
    BY <1>0, <1>10, <2>2 DEF ClientUnsubscribe, RemoveListener, TypeOK
  <2>4. ~timeoutId'[s] /\ (isUnsubscribing'[s] => client'[s] = "removing")
    BY <1>0, <1>10 DEF ClientUnsubscribe, TypeOK
  <2>5. Control'
    BY <1>h, <2>1, <2>3, <2>4 DEF ListenersTracked, NoListenerOnceUnsubscribed, WatchdogArmed, Alone,
       SubscribeIsNeeded
  <2> QED
    BY <2>1, <2>5, DataUnchanged
<1>11. ASSUME NEW s \in Sub, TimerFires(s) PROVE Control' /\ DataNotOlderThanBuffer'
  <2>1. /\ client[s] = "on" /\ resub[s] = "none" /\ receivingData[s] /\ ~isUnsubscribing[s]
    BY <1>11, <1>h DEF TimerFires, Alone
  <2>2. /\ UNCHANGED <<head, resubTimeoutMs, client, fetching, listenerId, receivingData, stored>>
        /\ resub' = [resub EXCEPT ![s] = "removing"]
        /\ RemoveListener(s)
        /\ timeoutId' = [timeoutId EXCEPT ![s] = FALSE]
        /\ isUnsubscribing' = [isUnsubscribing EXCEPT ![s] = listenerId[s] # None]
    BY <1>11, <2>1 DEF TimerFires
  <2>3. listeners[s] \ {listenerId[s]} = {}
    BY <1>h DEF ListenersTracked
  <2>4. \A t \in Sub :
          /\ listeners'[t] = IF t = s THEN {} ELSE listeners[t]
          /\ resub'[t] = IF t = s THEN "removing" ELSE resub[t]
          /\ t # s => isUnsubscribing'[t] = isUnsubscribing[t] /\ timeoutId'[t] = timeoutId[t]
    BY <1>0, <2>2, <2>3 DEF RemoveListener, TypeOK
  <2>5. ~timeoutId'[s]
    BY <1>0, <2>2 DEF TypeOK
  <2>u. UNCHANGED <<resubTimeoutMs, client, listenerId, receivingData>>
    BY <2>2
  <2>6. Alone'
    BY <1>h, <2>1, <2>4, <2>5, <2>u DEF Alone
  <2>7. ListenersTracked' /\ NoListenerOnceUnsubscribed'
    BY <1>h, <2>1, <2>4, <2>u DEF ListenersTracked, NoListenerOnceUnsubscribed
  <2>8. WatchdogArmed' /\ SubscribeIsNeeded'
    BY <1>h, <2>1, <2>4, <2>5, <2>u DEF WatchdogArmed, SubscribeIsNeeded
  <2> QED
    BY <2>2, <2>6, <2>7, <2>8, DataUnchanged
<1>12. ASSUME NEW s \in Sub, ClientUnsubscribed(s) \/ ResubUnsubscribed(s)
       PROVE  Control' /\ DataNotOlderThanBuffer'
  <2>a. \/ client[s] = "removing" /\ resub[s] = "none"
        \/ client[s] = "on" /\ resub[s] = "removing"
    BY <1>12, <1>h DEF ClientUnsubscribed, ResubUnsubscribed, Alone
  <2>b. listeners[s] = {} /\ ~timeoutId[s]
    BY <2>a, <1>h DEF Alone
  <2>c. UNCHANGED <<connection, resubTimeoutMs, fetching, timeoutId, stored>>
    BY <1>12 DEF ClientUnsubscribed, ResubUnsubscribed
  <2>1. /\ \/ client[s] = "removing" /\ resub[s] = "none"
           \/ client[s] = "on" /\ resub[s] = "removing"
        /\ listeners[s] = {} /\ ~timeoutId[s]
        /\ UNCHANGED <<connection, resubTimeoutMs, fetching, timeoutId, stored>>
    BY <2>a, <2>b, <2>c
  <2>2. \A t \in Sub :
          /\ listenerId'[t] = IF t = s THEN None ELSE listenerId[t]
          /\ t # s => /\ isUnsubscribing'[t] = isUnsubscribing[t] /\ receivingData'[t] = receivingData[t]
                      /\ client'[t] = client[t] /\ resub'[t] = resub[t]
    BY <1>0, <1>12 DEF ClientUnsubscribed, ResubUnsubscribed, IdAfterRemoval, TypeOK
  <2>3. ~isUnsubscribing'[s]
    BY <1>0, <1>12 DEF ClientUnsubscribed, ResubUnsubscribed, TypeOK
  <2>4. \/ client'[s] = "off" /\ resub'[s] = "none"
        \/ client'[s] = "on" /\ resub'[s] = "subscribing"
    BY <1>0, <1>12, <2>1 DEF ClientUnsubscribed, ResubUnsubscribed, TypeOK
  <2>5. Control'
    BY <1>h, <2>1, <2>2, <2>3, <2>4 DEF ListenersTracked, NoListenerOnceUnsubscribed, WatchdogArmed, Alone,
       SubscribeIsNeeded
  <2> QED
    BY <2>1, <2>5, DataUnchanged
<1>13. CASE UNCHANGED vars
  BY <1>13, ControlUnchanged, DataUnchanged DEF vars
<1> HIDE DEF Control
<1> QED
  BY <1>1, <1>2, <1>3, <1>4, <1>5, <1>6, <1>7, <1>8, <1>9, <1>10, <1>11, <1>12, <1>13 DEF Next, Continues

LEMMA InitIInv == Init => IInv
BY InitTypeOK DEF Init, IInv, SubscriberConsistent, ListenersTracked, NoListenerOnceUnsubscribed,
   WatchdogArmed, DataNotOlderThanBuffer, Alone, SubscribeIsNeeded

(* No listener is lost or outlives its owner, a silent websocket has a      *)
(* timer behind it, and the data is not older than what was received, for   *)
(* every number of subscribers that share the options, if unsubscribe() is  *)
(* not called during a resubscription.                                      *)
THEOREM SubscribersStayConsistent == ResubRaces = FALSE => (Spec => []SubscriberConsistent)
<1> SUFFICES ASSUME ResubRaces = FALSE PROVE Spec => []SubscriberConsistent
  OBVIOUS
<1>1. IInv => SubscriberConsistent
  BY DEF IInv
<1>2. IInv /\ [Next]_vars => IInv'
  BY IInvStep
<1> QED
  BY <1>1, <1>2, InitIInv, PTL DEF Spec

(* The early return of subscribe(), which the model leaves out, is taken by *)
(* nobody: whoever is in subscribe() meets no listener and no removal.      *)
THEOREM EarlyReturnNotTaken == ResubRaces = FALSE => (Spec => []SubscribeIsNeeded)
<1> SUFFICES ASSUME ResubRaces = FALSE PROVE Spec => []SubscribeIsNeeded
  OBVIOUS
<1>1. IInv => SubscribeIsNeeded
  BY DEF IInv
<1>2. IInv /\ [Next]_vars => IInv'
  BY IInvStep
<1> QED
  BY <1>1, <1>2, InitIInv, PTL DEF Spec

-----------------------------------------------------------------------------
(* PollingAccountSubscriber.                                                *)

(* Every account kept is that of its slot, and those of tokens and oracles  *)
(* always exist.                                                            *)
KeptOK(kept) ==
    kept # None => /\ kept \in [data : {None} \cup 1 .. MaxSlot, slot : 0 .. Polling!Now]
                   /\ kept.slot # 0 => kept.data = chain[kept.slot]
ChainOK ==
    /\ chain \in Seq({None} \cup 1 .. MaxSlot) /\ Polling!Now \in 1 .. MaxSlot
    /\ ~Polling!ComparesSlots => \A slot \in 1 .. Polling!Now : chain[slot] # None
StoredOK ==
    /\ ChainOK /\ KeptOK(copy) /\ KeptOK(buffer)
    /\ copy # None => copy.data # None
    /\ buffer # None => buffer.slot # 0
PollingIInv == Polling!TypeOK /\ StoredOK

(* One call at a time is in subscribe(), before it is subscribed, and has   *)
(* registered a callback only if nobody's is known.                         *)
Busy == {c \in Call : calls[c] \in {"adding", "fetching"}}
OneCaller ==
    /\ \A c, d \in Busy : c = d
    /\ Busy # {} => ~isSubscribed
    /\ \A c \in callbacks : calls[c] # "new"
    /\ \A c \in callbacks : calls[c] = "adding" => callbackId = None

CopyForward ==
    Polling!ComparesSlots /\ copy # None /\ copy' # None => copy'.slot >= copy.slot \/ copy'.slot = 0

USE DEF Polling!Now

LEMMA ChainType ==
    ASSUME Polling!PollingAssumption, ChainOK
    PROVE  /\ Len(chain) \in Nat \ {0} /\ MaxSlot \in Nat \ {0} /\ Len(chain) <= MaxSlot
           /\ \A slot \in 1 .. Len(chain) : chain[slot] \in {None} \cup 1 .. MaxSlot
           /\ 1 .. MaxSlot \subseteq Nat /\ None \notin Nat
BY DEF Polling!PollingAssumption, ChainOK

(* The account of a block may be kept, as data and slot or without a slot.  *)
LEMMA AtIsKept ==
    ASSUME Polling!PollingAssumption, ChainOK, NEW slot \in 1 .. Polling!Now
    PROVE  /\ KeptOK(Polling!At(slot)) /\ Polling!At(slot).slot = slot /\ slot # 0
           /\ Polling!At(slot).data = chain[slot]
           /\ KeptOK([data |-> chain[slot], slot |-> 0])
<1>1. /\ chain[slot] \in {None} \cup 1 .. MaxSlot /\ Len(chain) \in Nat
      /\ slot \in 0 .. Len(chain) /\ 0 \in 0 .. Len(chain) /\ slot # 0
  BY ChainType
<1> QED
  BY <1>1 DEF KeptOK, Polling!At

(* A step that leaves the chain alone keeps StoredOK if what it stores is   *)
(* there already or comes from a block.                                     *)
LEMMA StoredStep ==
    ASSUME Polling!PollingAssumption, StoredOK, chain' = chain, kind' = kind,
           \/ copy' = copy
           \/ buffer # None /\ buffer.data # None /\ copy' = buffer
           \/ \E slot \in 1 .. Polling!Now :
                 /\ chain[slot] # None
                 /\ copy' = Polling!At(slot) \/ copy' = [data |-> chain[slot], slot |-> 0],
           buffer' \in {None, buffer} \/ (\E slot \in 1 .. Polling!Now : buffer' = Polling!At(slot))
    PROVE  StoredOK'
<1>1. ChainOK'
  BY DEF StoredOK, ChainOK, Polling!ComparesSlots
<1>2. ASSUME NEW kept, KeptOK(kept), kept # None
      PROVE  /\ kept \in [data : {None} \cup 1 .. MaxSlot, slot : 0 .. Len(chain')]
             /\ kept.slot # 0 => kept.data = chain'[kept.slot]
  BY <1>2 DEF KeptOK
<1>3. KeptOK(copy)' /\ (copy # None => copy.data # None)'
  <2>1. CASE copy' = copy \/ (buffer # None /\ buffer.data # None /\ copy' = buffer)
    BY <2>1 DEF StoredOK, KeptOK
  <2>2. CASE \E slot \in 1 .. Polling!Now :
                 /\ chain[slot] # None
                 /\ copy' = Polling!At(slot) \/ copy' = [data |-> chain[slot], slot |-> 0]
    <3>1. PICK slot \in 1 .. Polling!Now :
                 /\ chain[slot] # None
                 /\ copy' = Polling!At(slot) \/ copy' = [data |-> chain[slot], slot |-> 0]
      BY <2>2
    <3> QED
      BY <3>1, AtIsKept DEF StoredOK, KeptOK
  <2> QED
    BY <2>1, <2>2
<1>4. KeptOK(buffer)' /\ (buffer # None => buffer.slot # 0)'
  BY AtIsKept DEF StoredOK, KeptOK
<1> QED
  BY <1>1, <1>3, <1>4 DEF StoredOK

(* What each way of keeping data keeps.                                     *)
LEMMA CopyChoices ==
    ASSUME Polling!PollingAssumption, StoredOK, NEW slot \in 1 .. Polling!Now
    PROVE  /\ \/ Polling!Received(slot) = copy
              \/ /\ chain[slot] # None /\ Polling!Received(slot) = Polling!At(slot)
                 /\ Polling!ComparesSlots /\ copy # None => copy.slot <= slot
           /\ \/ Polling!Fetched(slot) = copy
              \/ /\ chain[slot] # None /\ Polling!Fetched(slot) = Polling!At(slot)
                 /\ copy # None => copy.slot <= slot
<1>1. slot \in Nat /\ (copy # None => copy.slot \in Nat) /\ Len(chain) \in Nat
  BY ChainType DEF StoredOK, KeptOK
<1> QED
  BY <1>1 DEF Polling!Received, Polling!Fetched

(* What is kept stays the chain's.                                          *)
LEMMA StoredInv == Polling!PollingAssumption /\ PollingIInv /\ [Polling!Next]_Polling!vars => StoredOK' /\ CopyForward
<1> SUFFICES ASSUME Polling!PollingAssumption, PollingIInv, [Polling!Next]_Polling!vars
             PROVE  StoredOK' /\ CopyForward
  OBVIOUS
<1> USE DEF PollingIInv
<1>1. /\ StoredOK /\ ChainOK /\ Len(chain) \in Nat \ {0}
      /\ copy # None => copy.slot \in Nat
      /\ buffer # None => buffer.slot \in Nat
  BY ChainType DEF StoredOK, KeptOK
<1>a. ASSUME NEW slot \in 1 .. Len(chain)
      PROVE  slot \in Nat /\ Polling!At(slot).slot = slot
  BY <1>1 DEF Polling!At
<1>2. ASSUME UNCHANGED <<chain, kind, copy>>,
             buffer' \in {None, buffer} \/ (\E slot \in 1 .. Polling!Now : buffer' = Polling!At(slot))
      PROVE  StoredOK' /\ CopyForward
  BY <1>1, <1>2, StoredStep DEF CopyForward
<1>3. ASSUME Polling!NewBlock PROVE StoredOK' /\ CopyForward
  <2>1. PICK data \in {chain[Len(chain)], Len(chain) + 1} : chain' = Append(chain, data)
    BY <1>3 DEF Polling!NewBlock
  <2>2. /\ Len(chain) < MaxSlot /\ kind' = kind /\ copy' = copy /\ buffer' = buffer
    BY <1>3 DEF Polling!NewBlock
  <2>3. /\ Len(chain) \in 1 .. Len(chain) /\ MaxSlot \in Nat
        /\ chain[Len(chain)] \in {None} \cup 1 .. MaxSlot /\ Len(chain) + 1 \in 1 .. MaxSlot
    BY <1>1, <2>2, ChainType
  <2>4. data \in {None} \cup 1 .. MaxSlot
    BY <2>1, <2>3
  <2>5. /\ chain' \in Seq({None} \cup 1 .. MaxSlot) /\ Len(chain') = Len(chain) + 1
        /\ \A slot \in 1 .. Len(chain) : chain'[slot] = chain[slot]
        /\ chain'[Len(chain) + 1] = data
    BY <1>1, <2>1, <2>4 DEF ChainOK
  <2>6. ~Polling!ComparesSlots => data # None
    BY <1>1, <2>1, <2>3 DEF ChainOK, Polling!PollingAssumption
  <2>7. ChainOK'
    <3>1. ASSUME ~Polling!ComparesSlots', NEW slot \in 1 .. Len(chain') PROVE chain'[slot] # None
      <4>1. CASE slot = Len(chain) + 1
        BY <4>1, <3>1, <2>2, <2>5, <2>6 DEF Polling!ComparesSlots
      <4>2. CASE slot \in 1 .. Len(chain)
        BY <4>2, <3>1, <2>2, <2>5, <1>1 DEF Polling!ComparesSlots, ChainOK
      <4> QED
        BY <4>1, <4>2, <2>5, <1>1
    <3> QED
      BY <3>1, <2>3, <2>5 DEF ChainOK
  <2>8. KeptOK(copy)' /\ KeptOK(buffer)'
    BY <1>1, <2>2, <2>5 DEF StoredOK, KeptOK
  <2> QED
    BY <1>1, <2>2, <2>7, <2>8 DEF StoredOK, CopyForward
<1>4. ASSUME NEW slot \in 1 .. Len(chain), Polling!LoaderLoads(slot) PROVE StoredOK' /\ CopyForward
  <2>1. UNCHANGED <<chain, kind>>
    BY <1>4 DEF Polling!LoaderLoads
  <2>2. CASE UNCHANGED <<buffer, copy>>
    BY <1>2, <2>1, <2>2
  <2>3. CASE Polling!IsNews(slot)
    <3>1. buffer' = Polling!At(slot) /\ copy' \in {copy, Polling!Received(slot)}
      BY <1>4, <2>3 DEF Polling!LoaderLoads, Polling!Loads
    <3>2. StoredOK'
      BY <1>1, <2>1, <3>1, CopyChoices, StoredStep
    <3>3. CopyForward
      BY <1>1, <1>a, <3>1, CopyChoices DEF CopyForward
    <3> QED
      BY <3>2, <3>3
  <2> QED
    BY <1>4, <2>2, <2>3 DEF Polling!LoaderLoads, Polling!Loads
<1>5. ASSUME NEW slot \in 1 .. Len(chain), Polling!fetchAnswered(slot) PROVE StoredOK' /\ CopyForward
  <2>1. UNCHANGED <<chain, kind, buffer>> /\ copy' = Polling!Fetched(slot)
    BY <1>5 DEF Polling!fetchAnswered
  <2>2. StoredOK'
    BY <1>1, <2>1, CopyChoices, StoredStep
  <2> QED
    BY <1>1, <1>a, <2>1, <2>2, CopyChoices DEF CopyForward
<1>6. ASSUME NEW slot \in 1 .. Len(chain), Polling!updateData(slot) PROVE StoredOK' /\ CopyForward
  <2>1. /\ chain' = chain /\ kind' = kind /\ buffer' = buffer /\ chain[slot] # None
        /\ \/ copy' = copy
           \/ copy' = Polling!At(slot) /\ (copy # None => copy.slot < slot)
    BY <1>6 DEF Polling!updateData
  <2>2. StoredOK'
    BY <1>1, <2>1, StoredStep
  <2> QED
    BY <1>1, <1>a, <2>1, <2>2 DEF CopyForward
<1>7. ASSUME NEW c \in Call, Polling!subscribe(c) PROVE StoredOK' /\ CopyForward
  <2>1. /\ chain' = chain /\ kind' = kind /\ buffer' = buffer
        /\ \/ copy' = copy
           \/ \E slot \in 1 .. Len(chain) : chain[slot] # None /\ copy' = [data |-> chain[slot], slot |-> 0]
    BY <1>7 DEF Polling!subscribe, Polling!Begins
  <2>2. StoredOK'
    BY <1>1, <2>1, StoredStep
  <2> QED
    BY <1>1, <2>1, <2>2 DEF CopyForward
<1>8. ASSUME NEW c \in Call, Polling!addAccountReturns(c) PROVE StoredOK' /\ CopyForward
  BY <1>8, <1>2 DEF Polling!addAccountReturns
<1>9. ASSUME NEW c \in Call, NEW slot \in 1 .. Len(chain), Polling!fetchReturns(c, slot)
      PROVE  StoredOK' /\ CopyForward
  <2>1. UNCHANGED <<chain, kind>>
    BY <1>9 DEF Polling!fetchReturns
  <2>2. CASE ~Polling!ReadsLoader
    <3>1. copy' = Polling!Fetched(slot) /\ buffer' = buffer
      BY <1>9, <2>2 DEF Polling!fetchReturns
    <3>2. StoredOK'
      BY <1>1, <2>1, <3>1, CopyChoices, StoredStep
    <3> QED
      BY <1>1, <1>a, <3>1, <3>2, CopyChoices DEF CopyForward
  <2>3. CASE Polling!ReadsLoader
    <3>1. buffer' \in {buffer, Polling!At(slot)} /\ copy' = Polling!TakesBuffer /\ buffer' # None
      <4>1. Polling!At(slot) # None
        <5>1. Polling!At(slot) \in [data : Nat \cup {None}, slot : Nat]
          BY <1>1, <1>a, ChainType DEF Polling!At
        <5> QED
          BY <5>1 DEF Polling!PollingAssumption
      <4> QED
        BY <4>1, <1>9, <2>3 DEF Polling!fetchReturns, Polling!IsNews
    <3>2. buffer' = Polling!At(slot) => chain[slot] = buffer'.data /\ buffer'.slot = slot
      BY <1>1, AtIsKept
    <3>3. ~Polling!ComparesSlots => buffer'.data # None
      BY <1>1, <3>1, <3>2, ChainType DEF StoredOK, KeptOK, ChainOK
    <3>4. \/ copy' = copy
          \/ /\ copy' = buffer' /\ buffer'.data # None
             /\ Polling!ComparesSlots /\ copy # None => buffer'.slot > copy.slot
      BY <3>1, <3>3 DEF Polling!TakesBuffer
    <3>5. StoredOK'
      BY <1>1, <2>1, <3>1, <3>2, <3>4, StoredStep
    <3>6. buffer'.slot \in Nat
      BY <1>1, <3>1, <3>2
    <3> QED
      BY <1>1, <3>4, <3>5, <3>6 DEF CopyForward
  <2> QED
    BY <2>2, <2>3
<1>10. ASSUME NEW c \in Call, Polling!fetchFails(c) PROVE StoredOK' /\ CopyForward
  <2>1. /\ chain' = chain /\ kind' = kind /\ buffer' = buffer
        /\ \/ copy' = copy
           \/ /\ buffer # None /\ buffer.data # None /\ copy' = buffer
              /\ ~(Polling!ComparesSlots /\ copy # None)
    BY <1>10 DEF Polling!fetchFails
  <2>2. StoredOK'
    BY <1>1, <2>1, StoredStep
  <2> QED
    BY <1>1, <2>1, <2>2 DEF CopyForward
<1>11. ASSUME Polling!fetch \/ Polling!unsubscribe PROVE StoredOK' /\ CopyForward
  BY <1>11, <1>2 DEF Polling!fetch, Polling!unsubscribe
<1>12. ASSUME UNCHANGED Polling!vars PROVE StoredOK' /\ CopyForward
  BY <1>12, <1>2 DEF Polling!vars
<1> QED
  BY <1>3, <1>4, <1>5, <1>6, <1>7, <1>8, <1>9, <1>10, <1>11, <1>12 DEF Polling!Next

LEMMA PollingInit == Polling!PollingAssumption /\ Polling!Init => PollingIInv /\ OneCaller
<1> SUFFICES ASSUME Polling!PollingAssumption, Polling!Init PROVE PollingIInv /\ OneCaller
  OBVIOUS
<1>1. PICK first \in IF Polling!ComparesSlots THEN {None, 1} ELSE {1} : chain = <<first>>
  BY DEF Polling!Init
<1>2. /\ MaxSlot \in Nat \ {0} /\ 1 \in 1 .. MaxSlot /\ None # 1 /\ first \in {None, 1}
      /\ ~Polling!ComparesSlots => first # None
  BY <1>1 DEF Polling!PollingAssumption
<1>3. chain \in Seq({None} \cup 1 .. MaxSlot) /\ Len(chain) = 1 /\ chain[1] = first
  BY <1>1, <1>2
<1>4. copy = None /\ buffer = None
  BY DEF Polling!Init
<1>5. StoredOK
  BY <1>2, <1>3, <1>4 DEF StoredOK, ChainOK, KeptOK
<1>6. Polling!TypeOK
  BY <1>3, <1>4 DEF Polling!Init, Polling!TypeOK
<1>7. OneCaller
  BY DEF Polling!Init, OneCaller, Busy
<1> QED
  BY <1>5, <1>6, <1>7 DEF PollingIInv

LEMMA PollingTypeInv ==
    Polling!PollingAssumption /\ PollingIInv /\ [Polling!Next]_Polling!vars => Polling!TypeOK'
<1> SUFFICES ASSUME Polling!PollingAssumption, PollingIInv, [Polling!Next]_Polling!vars
             PROVE  Polling!TypeOK'
  OBVIOUS
<1>1. StoredOK' /\ Polling!TypeOK
  BY StoredInv DEF PollingIInv
<1>2. /\ chain' \in Seq({None} \cup 1 .. MaxSlot) /\ Len(chain') \in 1 .. MaxSlot
      /\ KeptOK(copy)' /\ (copy # None => copy.data # None)'
      /\ KeptOK(buffer)' /\ (buffer # None => buffer.slot # 0)'
  BY <1>1 DEF StoredOK, ChainOK
<1>a. \A slot \in 0 .. Len(chain') : slot \in 0 .. MaxSlot /\ (slot # 0 => slot \in 1 .. MaxSlot)
  BY <1>2 DEF Polling!PollingAssumption
<1>3. copy' \in {None} \cup [data : 1 .. MaxSlot, slot : 0 .. MaxSlot]
  BY <1>2, <1>a DEF KeptOK
<1>4. buffer' \in {None} \cup [data : {None} \cup 1 .. MaxSlot, slot : 1 .. MaxSlot]
  BY <1>2, <1>a DEF KeptOK
<1> DEFINE Rest == /\ kind' \in Kinds /\ callbacks' \subseteq Call /\ callbackId' \in {None} \cup Call
                   /\ isSubscribed' \in BOOLEAN /\ asked' \in BOOLEAN
                   /\ calls' \in [Call -> {"new", "adding", "fetching", "done"}]
                   /\ failures' \in Nat
<1>5. Rest
  <2> USE <1>1 DEF Polling!TypeOK
  <2>1. CASE Polling!NewBlock
    BY <2>1 DEF Polling!NewBlock
  <2>2. ASSUME NEW slot \in 1 .. Len(chain),
               Polling!LoaderLoads(slot) \/ Polling!fetchAnswered(slot) \/ Polling!updateData(slot)
        PROVE  Rest
    BY <2>2 DEF Polling!LoaderLoads, Polling!fetchAnswered, Polling!updateData
  <2>3. ASSUME NEW c \in Call, Polling!subscribe(c) PROVE Rest
    BY <2>3 DEF Polling!subscribe, Polling!Begins, Polling!AddsCallback
  <2>4. ASSUME NEW c \in Call, Polling!addAccountReturns(c) PROVE Rest
    <3>1. (isSubscribed \/ ~Polling!MustFetch) \in BOOLEAN
      OBVIOUS
    <3> HIDE DEF Polling!TypeOK
    <3>2. isSubscribed' \in BOOLEAN
      BY <2>4, <3>1 DEF Polling!addAccountReturns
    <3> QED
      BY <2>4, <3>2 DEF Polling!TypeOK, Polling!addAccountReturns
  <2>5. ASSUME NEW c \in Call, NEW slot \in 1 .. Len(chain), Polling!fetchReturns(c, slot) PROVE Rest
    BY <2>5 DEF Polling!fetchReturns, Polling!Returns
  <2>6. ASSUME NEW c \in Call, Polling!fetchFails(c) PROVE Rest
    <3>1. (isSubscribed \/ (Polling!ComparesSlots \/ buffer # None)) \in BOOLEAN
      OBVIOUS
    <3>2. isSubscribed' \in BOOLEAN
      BY <2>6, <3>1 DEF Polling!fetchFails, Polling!Returns
    <3> QED
      BY <2>6, <3>2 DEF Polling!fetchFails, Polling!Returns
  <2>7. CASE Polling!fetch
    BY <2>7 DEF Polling!fetch
  <2>8. CASE Polling!unsubscribe
    BY <2>8 DEF Polling!unsubscribe
  <2>9. CASE UNCHANGED Polling!vars
    BY <2>9 DEF Polling!vars
  <2> QED
    BY <2>1, <2>2, <2>3, <2>4, <2>5, <2>6, <2>7, <2>8, <2>9 DEF Polling!Next
<1> QED
  BY <1>2, <1>3, <1>4, <1>5 DEF Polling!TypeOK

LEMMA PollingStep ==
    Polling!PollingAssumption /\ PollingIInv /\ [Polling!Next]_Polling!vars => PollingIInv' /\ CopyForward
BY StoredInv, PollingTypeInv DEF PollingIInv

(* Callers that wait for each other.                                        *)
LEMMA OneCallerStep ==
    ASSUME CarefulCallers, Polling!PollingAssumption, Polling!TypeOK, OneCaller,
           [Polling!Next]_Polling!vars
    PROVE  OneCaller'
<1> USE DEF OneCaller, Busy
<1>1. /\ callbacks \subseteq Call /\ calls \in [Call -> {"new", "adding", "fetching", "done"}]
      /\ callbackId \in {None} \cup Call /\ None \notin Call
  BY DEF Polling!TypeOK, Polling!PollingAssumption
<1>2. ASSUME UNCHANGED <<callbacks, callbackId, isSubscribed, calls>> PROVE OneCaller'
  BY <1>2
<1>3. ASSUME NEW c \in Call, Polling!subscribe(c) PROVE OneCaller'
  <2>1. /\ calls[c] = "new" /\ ~isSubscribed /\ \A d \in Call : calls[d] \notin {"adding", "fetching"}
        /\ calls' = [calls EXCEPT ![c] = "adding"] /\ callbackId' = callbackId
        /\ isSubscribed' = isSubscribed
        /\ callbacks' = IF callbackId = None THEN callbacks \cup {c} ELSE callbacks
    BY <1>3 DEF Polling!subscribe, Polling!Begins, Polling!AddsCallback
  <2> QED
    BY <1>1, <2>1
<1>4. ASSUME NEW c \in Call, Polling!addAccountReturns(c) PROVE OneCaller'
  <2>1. /\ calls[c] = "adding" /\ callbacks' = callbacks
        /\ \/ calls' = [calls EXCEPT ![c] = "fetching"] /\ (isSubscribed' <=> isSubscribed)
           \/ calls' = [calls EXCEPT ![c] = "done"]
        /\ callbackId' = IF c \in callbacks THEN c ELSE callbackId
    BY <1>4 DEF Polling!addAccountReturns
  <2> QED
    BY <1>1, <2>1
<1>5. ASSUME NEW c \in Call,
             \/ \E slot \in 1 .. Len(chain) : Polling!fetchReturns(c, slot)
             \/ Polling!fetchFails(c)
      PROVE  OneCaller'
  <2>1. /\ calls[c] = "fetching" /\ callbacks' = callbacks /\ callbackId' = callbackId
        /\ calls' = [calls EXCEPT ![c] = "done"]
    BY <1>5 DEF Polling!fetchReturns, Polling!fetchFails, Polling!Returns
  <2> QED
    BY <1>1, <2>1
<1>6. ASSUME Polling!unsubscribe PROVE OneCaller'
  BY <1>1, <1>6 DEF Polling!unsubscribe
<1>7. ASSUME NEW slot \in 1 .. Len(chain),
             Polling!LoaderLoads(slot) \/ Polling!fetchAnswered(slot) \/ Polling!updateData(slot)
      PROVE  OneCaller'
  BY <1>7, <1>2 DEF Polling!LoaderLoads, Polling!fetchAnswered, Polling!updateData
<1>8. ASSUME Polling!NewBlock \/ Polling!fetch \/ UNCHANGED Polling!vars PROVE OneCaller'
  BY <1>8, <1>2 DEF Polling!NewBlock, Polling!fetch, Polling!vars
<1> QED
  BY <1>3, <1>4, <1>5, <1>6, <1>7, <1>8 DEF Polling!Next

LEMMA OwnedStep ==
    ASSUME CarefulCallers, Polling!PollingAssumption, Polling!TypeOK, OneCaller,
           Polling!CallbacksAreOwned, [Polling!Next]_Polling!vars
    PROVE  Polling!CallbacksAreOwned'
<1> USE DEF OneCaller, Busy, Polling!CallbacksAreOwned, Polling!SubscribeThrew
<1>1. /\ callbacks \subseteq Call /\ calls \in [Call -> {"new", "adding", "fetching", "done"}]
      /\ callbackId \in {None} \cup Call /\ None \notin Call /\ failures \in Nat
  BY DEF Polling!TypeOK, Polling!PollingAssumption
<1>2. ASSUME UNCHANGED <<callbacks, callbackId, calls, isSubscribed, kind, failures>> PROVE Polling!CallbacksAreOwned'
  BY <1>2
<1>3. ASSUME NEW c \in Call, Polling!subscribe(c) PROVE Polling!CallbacksAreOwned'
  <2>1. /\ calls' = [calls EXCEPT ![c] = "adding"] /\ callbackId' = callbackId
        /\ callbacks' = IF callbackId = None THEN callbacks \cup {c} ELSE callbacks
    BY <1>3 DEF Polling!subscribe, Polling!Begins, Polling!AddsCallback
  <2> QED
    BY <1>1, <2>1
<1>4. ASSUME NEW c \in Call, Polling!addAccountReturns(c) PROVE Polling!CallbacksAreOwned'
  <2>1. /\ calls[c] = "adding" /\ callbacks' = callbacks
        /\ callbackId' = IF c \in callbacks THEN c ELSE callbackId
        /\ \A d \in Call \ {c} : calls'[d] = calls[d]
        /\ calls'[c] = "fetching" \/ isSubscribed'
    BY <1>1, <1>4 DEF Polling!addAccountReturns
  <2> QED
    BY <1>1, <2>1
<1>5. ASSUME NEW c \in Call,
             \/ \E slot \in 1 .. Len(chain) : Polling!fetchReturns(c, slot)
             \/ Polling!fetchFails(c)
      PROVE  Polling!CallbacksAreOwned'
  <2>1. /\ calls[c] = "fetching" /\ callbacks' = callbacks /\ callbackId' = callbackId
        /\ calls' = [calls EXCEPT ![c] = "done"]
    BY <1>5 DEF Polling!fetchReturns, Polling!fetchFails, Polling!Returns
  <2>2. CASE \E slot \in 1 .. Len(chain) : Polling!fetchReturns(c, slot)
    <3>1. isSubscribed'
      BY <2>2 DEF Polling!fetchReturns, Polling!Returns
    <3> QED
      BY <1>1, <2>1, <3>1
  <2>3. CASE Polling!fetchFails(c)
    <3>1. /\ failures' = failures + 1 /\ kind' = kind
          /\ isSubscribed' = (isSubscribed \/ Polling!ComparesSlots \/ buffer # None)
      BY <2>3 DEF Polling!fetchFails, Polling!Returns
    <3>2. failures' > 0 /\ kind \in Polling!Kind
      BY <1>1, <3>1 DEF Polling!TypeOK, Polling!PollingAssumption
    <3>3. isSubscribed' \/ kind' \in {"token", "oracle"}
      BY <3>1, <3>2 DEF Polling!ComparesSlots
    <3> QED
      BY <1>1, <2>1, <3>2, <3>3
  <2> QED
    BY <1>5, <2>2, <2>3
<1>6. ASSUME Polling!unsubscribe PROVE Polling!CallbacksAreOwned'
  BY <1>1, <1>6 DEF Polling!unsubscribe
<1>7. ASSUME NEW slot \in 1 .. Len(chain),
             Polling!LoaderLoads(slot) \/ Polling!fetchAnswered(slot) \/ Polling!updateData(slot)
      PROVE  Polling!CallbacksAreOwned'
  BY <1>7, <1>2 DEF Polling!LoaderLoads, Polling!fetchAnswered, Polling!updateData
<1>8. ASSUME Polling!NewBlock \/ Polling!fetch \/ UNCHANGED Polling!vars PROVE Polling!CallbacksAreOwned'
  BY <1>8, <1>2 DEF Polling!NewBlock, Polling!fetch, Polling!vars
<1> QED
  BY <1>3, <1>4, <1>5, <1>6, <1>7, <1>8 DEF Polling!Next

(* Whatever the order of the loader's callbacks, fetches and data from the  *)
(* caller, the copy of each kind of subscriber is the account at its slot.  *)
THEOREM CopiesComeFromTheChain ==
    Polling!PollingAssumption => (Polling!Spec => [](Polling!TypeOK /\ Polling!CopyIsTheChains))
<1> SUFFICES ASSUME Polling!PollingAssumption PROVE Polling!Spec => [](Polling!TypeOK /\ Polling!CopyIsTheChains)
  OBVIOUS
<1>1. Polling!Init => PollingIInv
  BY PollingInit
<1>2. PollingIInv /\ [Polling!Next]_Polling!vars => PollingIInv'
  BY PollingStep
<1>3. PollingIInv => Polling!TypeOK /\ Polling!CopyIsTheChains
  BY DEF PollingIInv, StoredOK, KeptOK, Polling!CopyIsTheChains
<1> QED
  BY <1>1, <1>2, <1>3, PTL DEF Polling!Spec

(* ... and where slots are compared it never goes back, but to data that a  *)
(* caller gives to subscribe() without a slot.                              *)
THEOREM CopiesNeverGoBack == Polling!PollingAssumption => (Polling!Spec => Polling!CopyMovesForward)
<1> SUFFICES ASSUME Polling!PollingAssumption PROVE Polling!Spec => Polling!CopyMovesForward
  OBVIOUS
<1>1. Polling!Init => PollingIInv
  BY PollingInit
<1>2. PollingIInv /\ [Polling!Next]_Polling!vars => PollingIInv'
  BY PollingStep
<1>3. PollingIInv /\ [Polling!Next]_Polling!vars =>
        [Polling!ComparesSlots /\ copy # None /\ copy' # None =>
             copy'.slot >= copy.slot \/ copy'.slot = 0]_Polling!vars
  BY PollingStep DEF CopyForward
<1> QED
  BY <1>1, <1>2, <1>3, PTL DEF Polling!Spec, Polling!CopyMovesForward

(* Nothing that is kept by either kind of subscriber goes back.             *)
THEOREM NothingGoesBack == Polling!PollingAssumption => (Spec /\ Polling!Spec => NothingMovesBack)
BY OnChangeNeverGoesBack, CopiesNeverGoBack, PTL DEF NothingMovesBack

(* If callers wait for each other, every callback in the loader is known to *)
(* unsubscribe() or to a subscribe() that has not returned, and none is     *)
(* there when nobody is subscribed or subscribes, but after a subscribe()   *)
(* of a token or an oracle that threw; and the copy is the account at its   *)
(* slot.                                                                    *)
THEOREM CallbacksStayOwned ==
    CarefulCallers /\ Polling!PollingAssumption => (Polling!Spec => []CallbacksAreOwned)
<1> SUFFICES ASSUME CarefulCallers, Polling!PollingAssumption PROVE Polling!Spec => []CallbacksAreOwned
  OBVIOUS
<1> DEFINE Owned == PollingIInv /\ OneCaller /\ Polling!CallbacksAreOwned
<1>1. Polling!Init => Owned
  BY PollingInit DEF Polling!Init, Polling!CallbacksAreOwned
<1>2. Owned /\ [Polling!Next]_Polling!vars => Owned'
  BY PollingStep, OneCallerStep, OwnedStep DEF PollingIInv
<1>3. Owned => CallbacksAreOwned
  BY DEF CallbacksAreOwned, PollingIInv, StoredOK, KeptOK, Polling!CopyIsTheChains
<1> HIDE DEF Owned
<1> QED
  BY <1>1, <1>2, <1>3, PTL DEF Polling!Spec

-----------------------------------------------------------------------------
(* EventSubscriber.                                                         *)

(* The lists, the cache and the promises of a state of the subscriber.      *)
Landed == {t \in Tx : slotOf[t] # 0}
Known == {e \in Events!Event : slotOf[e.tx] # 0}
Seen(t) == {[tx |-> t, index |-> i] : i \in Events!AllOf(t)}
OfType(type, events) == {e \in events : Events!TypeOf(e) = type}
AllSeen(txs) == UNION {Seen(t) : t \in txs}

(* Each transaction is handled once: only the events server repeats itself, *)
(* and only a cache that is too small forgets.                              *)
Once == options.type # "events-server" /\ options.maxTx >= Cardinality(Tx)

Sorted(list) == \A i, j \in DOMAIN list : i < j => ~Events!Before(list[j], list[i])
HoldsTheFirst(list, all) ==
    /\ Events!IsInjective(list) /\ Events!ToSet(list) \subseteq all
    /\ Len(list) < options.maxEventsPerType => Events!ToSet(list) = all
    /\ options.orderBy = "blockchain" =>
           \A e \in all \ Events!ToSet(list) : ~Events!Before(e, Events!Last(list))
ListOK(list, all) ==
    /\ list \in Seq(Known) /\ Len(list) =< options.maxEventsPerType
    /\ options.orderBy = "blockchain" => Sorted(list)
    /\ Once => HoldsTheFirst(list, all)
ListsOK(lists, all) ==
    /\ lists = [type \in DOMAIN lists |-> lists[type]] /\ DOMAIN lists \subseteq options.eventTypes
    /\ \A type \in DOMAIN lists : ListOK(lists[type], OfType(type, all))
CacheOK(cache) == cache \in Seq(Tx) /\ Events!IsInjective(cache) /\ Len(cache) =< options.maxTx
StateOK(s) ==
    /\ ListsOK(s.lists, AllSeen(s.handled)) /\ CacheOK(s.cache)
    /\ s.awaiting \subseteq Tx /\ s.awaiting \cap Events!ToSet(s.cache) = {}
    /\ s.handled \subseteq Landed /\ (Once => s.handled \subseteq Events!ToSet(s.cache))

(* A provider.  The watchdog of the events server counts once, because it   *)
(* leaves isUnsubscribing or externalUnsubscribe set; that of the websocket *)
(* counts only after data, which resets it.                                 *)
ProviderType ==
    [type : Events!ProviderType, sub : BOOLEAN, isUnsubscribing : BOOLEAN, externalUnsubscribe : BOOLEAN,
     receivingData : BOOLEAN, timer : BOOLEAN, reconnectAttempts : Nat, reconnects : Nat,
     removing : SUBSET {"watchdog", "caller", "failover"}, got : SUBSET (Tx \X Nat), mutex : BOOLEAN,
     mostRecentSeenTx : Tx \cup {None}, firstFetch : BOOLEAN, fetched : Seq(Tx)]
CountsOnce(p) ==
    /\ p.reconnectAttempts =< 1 /\ (p.removing # {} => p.type = "websocket")
    /\ p.type = "polling" => p.reconnectAttempts = 0 /\ ~p.timer
    /\ p.type = "websocket" => (p.receivingData \/ "watchdog" \in p.removing => p.reconnectAttempts = 0)
    /\ p.type = "events-server" =>
           /\ p.timer => p.sub
           /\ p.reconnectAttempts # 0 => p.isUnsubscribing \/ p.externalUnsubscribe
FetchedOK(p) == p.mostRecentSeenTx \in Landed \cup {None} /\ Events!ToSet(p.fetched) \subseteq Landed
ProviderOK(p) ==
    /\ p \in ProviderType /\ CountsOnce(p) /\ FetchedOK(p)
    /\ p.type = "events-server" => options.type = "events-server"

LedgerOK ==
    /\ slotOf \in [Tx -> 0 .. MaxEventSlot] /\ ledger \in Seq(Tx) /\ Events!ToSet(ledger) = Landed
    /\ history # None => history.before \in Landed \cup {None}
ProvidersOK ==
    /\ providers \in Seq(ProviderType) /\ Len(providers) > 0
    /\ \A i \in 1 .. Len(providers) : ProviderOK(providers[i])
    /\ currentProviderType = providers[Len(providers)].type
EventsIInv == options \in Options /\ LedgerOK /\ StateOK(Events!State) /\ ProvidersOK
(* Finite sets are the same seen from the module of the subscriber.         *)
LEMMA SameFiniteSets ==
    ASSUME NEW S
    PROVE  (Events!IsFiniteSet(S) <=> IsFiniteSet(S)) /\ Events!Cardinality(S) = Cardinality(S)
<1>1. Events!IsFiniteSet(S) <=> IsFiniteSet(S)
  BY DEF Events!IsFiniteSet, IsFiniteSet
<1>2. Events!Cardinality(S) = Cardinality(S)
  BY DEF Events!Cardinality, Cardinality
<1> QED
  BY <1>1, <1>2

(* A nonempty set of natural numbers has a least element.                   *)
LEMMA LeastNumber ==
    ASSUME NEW T \in SUBSET Nat, T # {}
    PROVE  \E n \in T : \A m \in T : n <= m
<1> DEFINE R == {ss \in Nat \X Nat : ss[1] < ss[2]}
<1>1. IsWellFoundedOn(R, Nat)
  BY NatLessThanWellFounded DEF OpToRel
<1>2. PICK n \in T : \A m \in T : <<m, n>> \notin R
  <2> HIDE DEF R
  <2> QED
    BY <1>1, WFMin
<1>3. ASSUME NEW m \in T PROVE n <= m
  <2>1. m \in Nat /\ n \in Nat /\ <<m, n>> \in Nat \X Nat
    OBVIOUS
  <2>2. <<m, n>>[1] = m /\ <<m, n>>[2] = n
    OBVIOUS
  <2>3. ~(m < n)
    BY <1>2, <2>1, <2>2
  <2> QED
    BY <2>1, <2>3
<1> QED
  BY <1>3

(* Induction up to a number, stated with a set.                             *)
LEMMA InductionUpTo ==
    ASSUME NEW k \in Nat, NEW Good, 0 \in Good, \A n \in 1 .. k : n - 1 \in Good => n \in Good
    PROVE  \A n \in 0 .. k : n \in Good
<1> SUFFICES ASSUME NEW x \in 0 .. k, x \notin Good PROVE FALSE
  OBVIOUS
<1> DEFINE Bad == {n \in 0 .. k : n \notin Good}
<1>1. Bad \in SUBSET Nat /\ Bad # {}
  OBVIOUS
<1>2. PICK n \in Bad : \A m \in Bad : n <= m
  <2> HIDE DEF Bad
  <2> QED
    BY <1>1, LeastNumber
<1>3. n \in 1 .. k /\ n - 1 \in 0 .. k /\ ~(n <= n - 1)
  OBVIOUS
<1>4. n - 1 \in Good
  BY <1>2, <1>3
<1> QED
  BY <1>3, <1>4

-----------------------------------------------------------------------------
(* The order of two events: by slot, then by their place in a transaction.  *)
Earlier(d, e) == slotOf[d.tx] < slotOf[e.tx] \/ (slotOf[d.tx] = slotOf[e.tx] /\ d.index < e.index)
OptionsOK ==
    /\ options.maxEventsPerType \in Nat \ {0} /\ options.maxTx \in Nat \ {0}
    /\ options.orderDir \in {"asc", "desc"} /\ options.orderBy \in {"blockchain", "client"}
    /\ slotOf \in [Tx -> Nat]

(* What the sort function says of two events: who gives way to whom, and    *)
(* which of them is before the other, in either direction.                  *)
LEMMA OrderOfEvents ==
    ASSUME OptionsOK, NEW d \in Known, NEW e \in Known
    PROVE  /\ options.orderBy = "client" => Events!GivesWay(d, e)
           /\ options.orderBy = "blockchain" =>
                  (Events!GivesWay(d, e) <=> IF options.orderDir = "asc" THEN Earlier(d, e) ELSE ~Earlier(d, e))
           /\ Events!Before(d, e) <=> IF options.orderDir = "asc" THEN Earlier(e, d) ELSE Earlier(d, e)
<1>1. /\ slotOf[d.tx] \in Nat /\ slotOf[e.tx] \in Nat /\ d.index \in Nat /\ e.index \in Nat
      /\ options.orderDir = "asc" \/ options.orderDir = "desc"
  BY DEF OptionsOK, Known, Events!Event
<1>2. ASSUME NEW x \in {d, e}, NEW y \in {d, e} PROVE Events!blockchainSortFn(x, y) = Earlier(x, y)
  <2>1. slotOf[x.tx] \in Nat /\ slotOf[y.tx] \in Nat /\ x.index \in Nat /\ y.index \in Nat
    BY <1>1
  <2>2. CASE slotOf[x.tx] = slotOf[y.tx]
    <3>1. Events!blockchainSortFn(x, y) = (x.index < y.index)
      BY <2>2 DEF Events!blockchainSortFn
    <3>2. Earlier(x, y) <=> x.index < y.index
      BY <2>1, <2>2 DEF Earlier
    <3> QED
      BY <3>1, <3>2 DEF Earlier
  <2>3. CASE slotOf[x.tx] # slotOf[y.tx]
    <3>1. Events!blockchainSortFn(x, y) = (slotOf[x.tx] < slotOf[y.tx])
      BY <2>3 DEF Events!blockchainSortFn
    <3>2. Earlier(x, y) <=> slotOf[x.tx] < slotOf[y.tx]
      BY <2>3, Zenon DEF Earlier
    <3> QED
      BY <3>1, <3>2 DEF Earlier
  <2> QED
    BY <2>2, <2>3
<1>3. Earlier(d, e) \in BOOLEAN /\ Earlier(e, d) \in BOOLEAN /\ ~(Earlier(d, e) /\ Earlier(e, d))
  <2>1. Earlier(d, e) \in BOOLEAN /\ Earlier(e, d) \in BOOLEAN
    BY Zenon DEF Earlier
  <2>2. ~(Earlier(d, e) /\ Earlier(e, d))
    BY <1>1 DEF Earlier
  <2> QED
    BY <2>1, <2>2
<1>4. options.orderBy = "client" => Events!GivesWay(d, e)
  BY DEF Events!GivesWay
<1>5. options.orderBy = "blockchain" =>
          (Events!GivesWay(d, e) <=> IF options.orderDir = "asc" THEN Earlier(d, e) ELSE ~Earlier(d, e))
  <2> HIDE DEF Earlier
  <2>1. Events!GivesWay(d, e) <=> options.orderBy = "client" \/ Earlier(d, e) = (options.orderDir = "asc")
    BY <1>2, Zenon DEF Events!GivesWay
  <2>2. CASE options.orderDir = "asc"
    BY <1>3, <2>1, <2>2
  <2>3. CASE options.orderDir = "desc"
    BY <1>3, <2>1, <2>3
  <2> QED
    BY <1>1, <2>2, <2>3
<1>6. Events!Before(d, e) <=> IF options.orderDir = "asc" THEN Earlier(e, d) ELSE Earlier(d, e)
  <2>1. Events!Before(d, e) <=> Earlier(e, d) = (options.orderDir = "asc") /\ Earlier(e, d) # Earlier(d, e)
    BY <1>2, Zenon DEF Events!Before
  <2>2. CASE options.orderDir = "asc"
    BY <1>3, <2>1, <2>2
  <2>3. CASE options.orderDir = "desc"
    BY <1>3, <2>1, <2>3
  <2> QED
    BY <1>1, <2>2, <2>3
<1> QED
  BY <1>4, <1>5, <1>6

(* Not being before is transitive, and an event that d does not give way to *)
(* is not before d; where it does, d is not before it.                      *)
LEMMA NotBefore ==
    ASSUME OptionsOK, NEW d \in Known, NEW e \in Known, NEW f \in Known
    PROVE  /\ ~Events!Before(d, d)
           /\ ~Events!Before(d, e) /\ ~Events!Before(e, f) => ~Events!Before(d, f)
           /\ options.orderBy = "blockchain" /\ ~Events!GivesWay(d, e) => ~Events!Before(e, d)
           /\ options.orderBy = "blockchain" /\ Events!GivesWay(d, e) => ~Events!Before(d, e)
<1>1. /\ slotOf[d.tx] \in Nat /\ slotOf[e.tx] \in Nat /\ d.index \in Nat /\ e.index \in Nat
      /\ slotOf[f.tx] \in Nat /\ f.index \in Nat
  BY DEF OptionsOK, Known, Events!Event
<1>2. /\ ~Earlier(d, d) /\ (Earlier(d, e) => ~Earlier(e, d))
      /\ ~Earlier(d, e) /\ ~Earlier(e, f) => ~Earlier(d, f)
      /\ ~Earlier(e, d) /\ ~Earlier(f, e) => ~Earlier(f, d)
  <2>1. ~Earlier(d, d) /\ (Earlier(d, e) => ~Earlier(e, d))
    BY <1>1 DEF Earlier
  <2>2. ASSUME NEW x \in {d, e, f}, NEW y \in {d, e, f}, NEW z \in {d, e, f},
               ~Earlier(x, y), ~Earlier(y, z)
        PROVE  ~Earlier(x, z)
    <3>1. /\ slotOf[x.tx] \in Nat /\ slotOf[y.tx] \in Nat /\ slotOf[z.tx] \in Nat
          /\ x.index \in Nat /\ y.index \in Nat /\ z.index \in Nat
      BY <1>1
    <3> QED
      BY <2>2, <3>1 DEF Earlier
  <2> QED
    BY <2>1, <2>2
<1>3. /\ Events!Before(d, d) <=> IF options.orderDir = "asc" THEN Earlier(d, d) ELSE Earlier(d, d)
      /\ Events!Before(d, e) <=> IF options.orderDir = "asc" THEN Earlier(e, d) ELSE Earlier(d, e)
      /\ Events!Before(e, d) <=> IF options.orderDir = "asc" THEN Earlier(d, e) ELSE Earlier(e, d)
      /\ Events!Before(e, f) <=> IF options.orderDir = "asc" THEN Earlier(f, e) ELSE Earlier(e, f)
      /\ Events!Before(d, f) <=> IF options.orderDir = "asc" THEN Earlier(f, d) ELSE Earlier(d, f)
  BY OrderOfEvents
<1>4. options.orderBy = "blockchain" =>
          (Events!GivesWay(d, e) <=> IF options.orderDir = "asc" THEN Earlier(d, e) ELSE ~Earlier(d, e))
  BY OrderOfEvents
<1> QED
  BY <1>2, <1>3, <1>4

-----------------------------------------------------------------------------
(* Where an event goes: before the first that gives way to it.              *)
LEMMA PlaceOfEvent ==
    ASSUME NEW list \in Seq(Known), NEW e
    PROVE  /\ Events!PlaceOf(list, e) \in 1 .. Len(list) + 1
           /\ \A i \in 1 .. Len(list) : i < Events!PlaceOf(list, e) => ~Events!GivesWay(list[i], e)
           /\ Events!PlaceOf(list, e) =< Len(list) => Events!GivesWay(list[Events!PlaceOf(list, e)], e)
<1> DEFINE places == {i \in DOMAIN list : Events!GivesWay(list[i], e)}
<1>1. Len(list) \in Nat /\ DOMAIN list = 1 .. Len(list) /\ places \in SUBSET Nat
  BY LenProperties
<1>2. Events!PlaceOf(list, e) = IF places = {} THEN Len(list) + 1 ELSE Events!Min(places)
  BY DEF Events!PlaceOf
<1>3. CASE places = {}
  BY <1>1, <1>2, <1>3
<1>4. CASE places # {}
  <2>1. \E n \in places : \A m \in places : n <= m
    <3> HIDE DEF places
    <3> QED
      BY <1>1, <1>4, LeastNumber
  <2>2. Events!Min(places) \in places /\ \A m \in places : Events!Min(places) <= m
    <3> HIDE DEF places
    <3> QED
      BY <2>1 DEF Events!Min
  <2>3. ASSUME NEW i \in 1 .. Len(list), i < Events!Min(places) PROVE ~Events!GivesWay(list[i], e)
    <3>1. i \in places => Events!Min(places) <= i /\ Events!Min(places) \in Int /\ i \in Int
      BY <1>1, <2>2
    <3> QED
      BY <1>1, <2>3, <3>1
  <2> QED
    BY <1>1, <1>2, <1>4, <2>2, <2>3
<1> QED
  BY <1>3, <1>4

(* The list with the event in its place.                                    *)
LEMMA Inserted ==
    ASSUME NEW list \in Seq(Known), NEW p \in 1 .. Len(list) + 1, NEW e \in Known
    PROVE  LET longer == Events!InsertAt(list, p, e) IN
           /\ longer \in Seq(Known) /\ Len(longer) = Len(list) + 1
           /\ \A i \in 1 .. Len(list) + 1 :
                  longer[i] = IF i < p THEN list[i] ELSE IF i = p THEN e ELSE list[i - 1]
<1> DEFINE front == SubSeq(list, 1, p - 1)
           back == SubSeq(list, p, Len(list))
           longer == Events!InsertAt(list, p, e)
<1>1. Len(list) \in Nat /\ p \in Int /\ p >= 1 /\ p =< Len(list) + 1 /\ \A i \in 1 .. Len(list) : list[i] \in Known
  BY LenProperties, ElementOfSeq
<1>2. /\ front \in Seq(Known) /\ Len(front) = p - 1
      /\ \A i \in 1 .. p - 1 : front[i] = list[i]
  <2>1. \A i \in 1 .. p - 1 : list[i] \in Known
    BY <1>1
  <2>2. /\ front \in Seq(Known) /\ Len(front) = IF 1 <= p - 1 THEN (p - 1) - 1 + 1 ELSE 0
        /\ \A i \in 1 .. (p - 1) - 1 + 1 : front[i] = list[1 + i - 1]
    <3> HIDE DEF front
    <3> QED
      BY <1>1, <2>1, SubSeqProperties DEF front
  <2> HIDE DEF front
  <2> QED
    BY <1>1, <2>2
<1>3. /\ back \in Seq(Known) /\ Len(back) = Len(list) - p + 1
      /\ \A i \in 1 .. Len(list) - p + 1 : back[i] = list[p + i - 1]
  <2>1. \A i \in p .. Len(list) : list[i] \in Known
    BY <1>1
  <2>2. /\ back \in Seq(Known) /\ Len(back) = IF p <= Len(list) THEN Len(list) - p + 1 ELSE 0
        /\ \A i \in 1 .. Len(list) - p + 1 : back[i] = list[p + i - 1]
    BY <1>1, <2>1, SubSeqProperties
  <2> HIDE DEF back
  <2> QED
    BY <1>1, <2>2
<1>4. longer = (front \o <<e>>) \o back
  BY DEF Events!InsertAt
<1> HIDE DEF front, back
<1>5. /\ front \o <<e>> \in Seq(Known) /\ Len(front \o <<e>>) = p
      /\ \A i \in 1 .. p : (front \o <<e>>)[i] = IF i < p THEN list[i] ELSE e
  <2>1. <<e>> \in Seq(Known) /\ Len(<<e>>) = 1 /\ <<e>>[1] = e
    OBVIOUS
  <2>2. /\ front \o <<e>> \in Seq(Known) /\ Len(front \o <<e>>) = Len(front) + 1
        /\ \A i \in 1 .. Len(front) + 1 :
               (front \o <<e>>)[i] = IF i <= Len(front) THEN front[i] ELSE <<e>>[i - Len(front)]
    BY <1>2, <2>1, ConcatProperties
  <2> QED
    BY <1>1, <1>2, <2>1, <2>2
<1> DEFINE head1 == front \o <<e>>
<1> HIDE DEF head1
<1>6. head1 \in Seq(Known) /\ Len(head1) = p /\ \A i \in 1 .. p : head1[i] = IF i < p THEN list[i] ELSE e
  BY <1>5 DEF head1
<1>7. longer = head1 \o back
  BY <1>4 DEF head1
<1>8. /\ head1 \o back \in Seq(Known) /\ Len(head1 \o back) = Len(head1) + Len(back)
      /\ \A i \in 1 .. Len(head1) + Len(back) :
             (head1 \o back)[i] = IF i <= Len(head1) THEN head1[i] ELSE back[i - Len(head1)]
  BY <1>3, <1>6, ConcatProperties
<1> HIDE DEF longer
<1>9. ASSUME NEW i \in 1 .. Len(list) + 1
      PROVE  longer[i] = IF i < p THEN list[i] ELSE IF i = p THEN e ELSE list[i - 1]
  <2>1. CASE i <= p
    BY <1>1, <1>3, <1>6, <1>7, <1>8, <2>1
  <2>2. CASE ~(i <= p)
    <3>1. i - p \in 1 .. Len(list) - p + 1 /\ p + (i - p) - 1 = i - 1
      BY <1>1, <2>2
    <3> QED
      BY <1>1, <1>3, <1>6, <1>7, <1>8, <2>2, <3>1
  <2> QED
    BY <2>1, <2>2
<1>10. longer \in Seq(Known) /\ Len(longer) = Len(list) + 1
  BY <1>1, <1>3, <1>6, <1>7, <1>8
<1> QED
  BY <1>9, <1>10, Zenon DEF longer

(* insert() keeps a list in order and within its limit.  If no event comes  *)
(* twice, the list goes on holding exactly the first: the one that is       *)
(* detached is not before the last of those that stay.                      *)
LEMMA InsertKeeps ==
    ASSUME OptionsOK, NEW all \in SUBSET Known, NEW list, ListOK(list, all),
           NEW e \in Known, Once => e \notin all
    PROVE  ListOK(Events!insert(list, e), all \cup {e})
<1> DEFINE p == Events!PlaceOf(list, e)
           longer == Events!InsertAt(list, p, e)
           new == Events!insert(list, e)
           n == Len(list)
           max == options.maxEventsPerType
           m == Len(new)
<1>1. /\ list \in Seq(Known) /\ n \in Nat /\ n =< max /\ DOMAIN list = 1 .. n
      /\ max \in Nat /\ max >= 1 /\ \A i \in 1 .. n : list[i] \in Known
  BY LenProperties, ElementOfSeq DEF ListOK, OptionsOK
<1>2. /\ p \in 1 .. n + 1
      /\ \A i \in 1 .. n : i < p => ~Events!GivesWay(list[i], e)
      /\ p =< n => Events!GivesWay(list[p], e)
  BY <1>1, PlaceOfEvent
<1> HIDE DEF p
<1>3. /\ longer \in Seq(Known) /\ Len(longer) = n + 1
      /\ \A i \in 1 .. n + 1 : longer[i] = IF i < p THEN list[i] ELSE IF i = p THEN e ELSE list[i - 1]
  BY <1>1, <1>2, Inserted
<1>4. new = IF Len(longer) > max THEN SubSeq(longer, 1, Len(longer) - 1) ELSE longer
  BY DEF Events!insert, Events!Front, p
<1> HIDE DEF longer, new
<1>5. \A i \in 1 .. n + 1 : longer[i] \in Known
  BY <1>3, ElementOfSeq
<1>6. /\ new \in Seq(Known) /\ m = (IF n = max THEN n ELSE n + 1)
      /\ \A i \in 1 .. m : new[i] = longer[i]
  <2>1. CASE n = max
    <3>1. new = SubSeq(longer, 1, n)
      BY <1>1, <1>3, <1>4, <2>1
    <3>2. /\ SubSeq(longer, 1, n) \in Seq(Known)
          /\ Len(SubSeq(longer, 1, n)) = IF 1 <= n THEN n - 1 + 1 ELSE 0
          /\ \A i \in 1 .. n - 1 + 1 : SubSeq(longer, 1, n)[i] = longer[1 + i - 1]
      <4>1. \A i \in 1 .. n : longer[i] \in Known
        BY <1>1, <1>5
      <4> QED
        BY <1>1, <4>1, SubSeqProperties
    <3> HIDE DEF n
    <3> QED
      BY <1>1, <2>1, <3>1, <3>2
  <2>2. CASE n # max
    BY <1>1, <1>3, <1>4, <2>2
  <2> QED
    BY <2>1, <2>2
<1>7. m \in Nat /\ m >= 1 /\ m =< max /\ m =< n + 1 /\ DOMAIN new = 1 .. m /\ DOMAIN longer = 1 .. n + 1
  <2>1. DOMAIN new = 1 .. m /\ DOMAIN longer = 1 .. Len(longer)
    BY <1>3, <1>6, LenProperties
  <2> HIDE DEF m, n
  <2> QED
    BY <1>1, <1>3, <1>6, <2>1
<1> HIDE DEF m, n, max
<1>8. ASSUME options.orderBy = "blockchain", NEW i \in 1 .. n + 1, NEW j \in 1 .. n + 1, i < j
      PROVE  ~Events!Before(longer[j], longer[i])
  <2>1. \A k, l \in 1 .. n : k < l => ~Events!Before(list[l], list[k])
    BY <1>1, <1>8 DEF ListOK, Sorted
  <2>2. CASE j < p
    BY <1>1, <1>2, <1>3, <1>8, <2>1, <2>2
  <2>3. CASE j = p
    <3>1. i \in 1 .. n /\ i < p /\ longer[i] = list[i] /\ longer[j] = e
      BY <1>1, <1>2, <1>3, <1>8, <2>3
    <3>2. list[i] \in Known /\ ~Events!GivesWay(list[i], e)
      BY <1>1, <1>2, <3>1
    <3> QED
      BY <1>8, <3>1, <3>2, NotBefore
  <2>4. CASE j > p
    <3>1. longer[j] = list[j - 1] /\ j - 1 \in 1 .. n /\ j - 1 >= p
      BY <1>1, <1>2, <1>3, <2>4
    <3>2. CASE i < p
      <4>1. longer[i] = list[i] /\ i \in 1 .. n /\ i < j - 1
        BY <1>1, <1>2, <1>3, <3>1, <3>2
      <4> QED
        BY <2>1, <3>1, <4>1
    <3>3. CASE i = p
      <4>1. p \in 1 .. n /\ longer[i] = e
        BY <1>1, <1>2, <1>3, <3>1, <3>3
      <4>2. list[p] \in Known /\ list[j - 1] \in Known /\ ~Events!Before(list[p], e)
        BY <1>1, <1>2, <1>8, <3>1, <4>1, NotBefore
      <4>3. ~Events!Before(list[j - 1], list[p])
        <5>1. CASE j - 1 = p
          BY <4>2, <5>1, NotBefore
        <5>2. CASE j - 1 # p
          BY <2>1, <3>1, <4>1, <5>2
        <5> QED
          BY <5>1, <5>2
      <4> QED
        BY <3>1, <4>1, <4>2, <4>3, NotBefore
    <3>4. CASE i > p
      <4>1. longer[i] = list[i - 1] /\ i - 1 \in 1 .. n /\ i - 1 < j - 1
        BY <1>1, <1>2, <1>3, <1>8, <3>1, <3>4
      <4> QED
        BY <2>1, <3>1, <4>1
    <3> QED
      BY <1>2, <3>2, <3>3, <3>4
  <2> QED
    BY <1>2, <2>2, <2>3, <2>4
<1>9. options.orderBy = "blockchain" => Sorted(new)
  <2>1. SUFFICES ASSUME options.orderBy = "blockchain", NEW i \in 1 .. m, NEW j \in 1 .. m, i < j
                 PROVE  ~Events!Before(new[j], new[i])
    BY <1>7 DEF Sorted
  <2>2. i \in 1 .. n + 1 /\ j \in 1 .. n + 1
    BY <1>1, <1>7
  <2> QED
    BY <1>6, <1>8, <2>1, <2>2
<1>10. ASSUME Once PROVE HoldsTheFirst(new, all \cup {e})
  <2>1. /\ \A i, j \in 1 .. n : list[i] = list[j] => i = j
        /\ \A i \in 1 .. n : list[i] \in all
        /\ n < max => \A x \in all : \E i \in 1 .. n : x = list[i]
        /\ options.orderBy = "blockchain" =>
               \A x \in all : (\A i \in 1 .. n : x # list[i]) => ~Events!Before(x, list[n])
        /\ e \notin all
    BY <1>1, <1>10 DEF ListOK, HoldsTheFirst, Events!IsInjective, Events!ToSet, Events!Last, max, n
  <2>2. \A i \in 1 .. n + 1 : longer[i] \in all \cup {e}
    BY <1>1, <1>2, <1>3, <2>1
  <2>3. ASSUME NEW i \in 1 .. n + 1, NEW j \in 1 .. n + 1, i < j PROVE longer[i] # longer[j]
    <3>1. (i < p => i \in 1 .. n) /\ (j > p => j - 1 \in 1 .. n) /\ (i > p => i - 1 \in 1 .. n) /\ (j < p => j \in 1 .. n)
      BY <1>1, <1>2
    <3> QED
      BY <1>1, <1>2, <1>3, <2>1, <2>3, <3>1
  <2>4. \A i \in 1 .. n : \E k \in 1 .. n + 1 : list[i] = longer[k]
    <3>1. SUFFICES ASSUME NEW i \in 1 .. n PROVE \E k \in 1 .. n + 1 : list[i] = longer[k]
      OBVIOUS
    <3>2. CASE i < p
      BY <1>1, <1>3, <3>2
    <3>3. CASE ~(i < p)
      <4>1. i + 1 \in 1 .. n + 1 /\ ~(i + 1 < p) /\ i + 1 # p /\ (i + 1) - 1 = i
        BY <1>1, <1>2, <3>3
      <4> QED
        BY <1>3, <4>1
    <3> QED
      BY <3>2, <3>3
  <2>5. Events!IsInjective(new)
    <3>1. SUFFICES ASSUME NEW i \in 1 .. m, NEW j \in 1 .. m, new[i] = new[j], i # j PROVE FALSE
      BY <1>7 DEF Events!IsInjective
    <3>2. i \in 1 .. n + 1 /\ j \in 1 .. n + 1 /\ (i < j \/ j < i) /\ longer[i] = longer[j]
      BY <1>1, <1>6, <1>7, <3>1
    <3> QED
      BY <2>3, <3>2
  <2>6. Events!ToSet(new) \subseteq all \cup {e}
    <3>1. \A i \in 1 .. m : i \in 1 .. n + 1
      BY <1>1, <1>7
    <3> QED
      BY <1>6, <1>7, <2>2, <3>1 DEF Events!ToSet
  <2>7. ASSUME m < max PROVE all \cup {e} \subseteq Events!ToSet(new)
    <3>1. m = n + 1 /\ n < max
      BY <1>1, <1>6, <2>7
    <3>2. \A x \in all : \E k \in 1 .. n + 1 : x = longer[k]
      BY <2>1, <2>4, <3>1
    <3>3. e = longer[p] /\ p \in 1 .. n + 1
      BY <1>2, <1>3
    <3> QED
      BY <1>6, <1>7, <3>1, <3>2, <3>3 DEF Events!ToSet
  <2>8. ASSUME options.orderBy = "blockchain", NEW x \in (all \cup {e}) \ Events!ToSet(new)
        PROVE  ~Events!Before(x, new[m])
    <3>1. m \in 1 .. n + 1 /\ new[m] = longer[m] /\ longer[m] \in Known /\ x \in Known
      BY <1>1, <1>5, <1>6, <1>7
    <3>2. CASE \E k \in 1 .. n + 1 : x = longer[k]
      <4>1. PICK k \in 1 .. n + 1 : x = longer[k]
        BY <3>2
      <4>2. k \notin 1 .. m
        BY <1>6, <1>7, <2>8, <4>1 DEF Events!ToSet
      <4>3. m < k
        BY <1>1, <1>7, <4>2
      <4> QED
        BY <1>8, <2>8, <3>1, <4>1, <4>3
    <3>3. CASE ~\E k \in 1 .. n + 1 : x = longer[k]
      <4>1. x # e
        BY <1>2, <1>3, <3>3
      <4>2. x \in all /\ \A i \in 1 .. n : x # list[i]
        BY <2>4, <3>3, <4>1
      <4>3. n = max /\ m = n /\ n >= 1
        BY <1>1, <1>6, <2>1, <4>2
      <4>4. list[n] \in Known /\ ~Events!Before(x, list[n])
        BY <1>1, <2>1, <2>8, <4>2, <4>3
      <4>5. ~Events!Before(list[n], longer[n])
        <5>1. CASE p = n + 1
          BY <1>1, <1>3, <4>3, <4>4, <5>1, NotBefore
        <5>2. CASE p # n + 1
          <6>1. n + 1 \in 1 .. n + 1 /\ n \in 1 .. n + 1 /\ longer[n + 1] = list[n]
            BY <1>1, <1>2, <1>3, <4>3, <5>2
          <6> QED
            BY <1>1, <1>8, <2>8, <6>1
        <5> QED
          BY <5>1, <5>2
      <4> QED
        BY <3>1, <4>3, <4>4, <4>5, NotBefore
    <3> QED
      BY <3>2, <3>3
  <2> QED
    BY <2>5, <2>6, <2>7, <2>8 DEF HoldsTheFirst, Events!Last, m, max
<1> QED
  BY <1>6, <1>7, <1>9, <1>10 DEF ListOK, new, m, max

-----------------------------------------------------------------------------
(* The events of a transaction, one after the other.                        *)
LEMMA PutKeeps ==
    ASSUME OptionsOK, NEW all \in SUBSET Known, NEW lists, ListsOK(lists, all),
           NEW e \in Known, Once => e \notin all
    PROVE  ListsOK(Events!Put(lists, e), all \cup {e}) /\ DOMAIN Events!Put(lists, e) = DOMAIN lists
<1> DEFINE new == Events!Put(lists, e)
           kind0 == Events!TypeOf(e)
<1>1. /\ lists = [type \in DOMAIN lists |-> lists[type]] /\ DOMAIN lists \subseteq options.eventTypes
      /\ \A type \in DOMAIN lists : ListOK(lists[type], OfType(type, all))
  BY DEF ListsOK
<1>2. new = IF kind0 \in DOMAIN lists THEN [lists EXCEPT ![kind0] = Events!insert(lists[kind0], e)] ELSE lists
  BY DEF Events!Put
<1> HIDE DEF new
<1>3. /\ OfType(kind0, all \cup {e}) = OfType(kind0, all) \cup {e}
      /\ \A type : type # kind0 => OfType(type, all \cup {e}) = OfType(type, all)
      /\ OfType(kind0, all) \in SUBSET Known /\ (Once => e \notin OfType(kind0, all))
  BY DEF OfType
<1> HIDE DEF kind0
<1>4. new = [type \in DOMAIN new |-> new[type]] /\ DOMAIN new = DOMAIN lists
  BY <1>1, <1>2
<1>5. ASSUME NEW type \in DOMAIN lists PROVE ListOK(new[type], OfType(type, all \cup {e}))
  <2>1. CASE type = kind0
    <3>1. new[type] = Events!insert(lists[type], e)
      BY <1>1, <1>2, <1>5, <2>1
    <3>2. ListOK(Events!insert(lists[type], e), OfType(type, all) \cup {e})
      BY <1>1, <1>3, <1>5, <2>1, InsertKeeps
    <3> QED
      BY <1>3, <2>1, <3>1, <3>2
  <2>2. CASE type # kind0
    <3>1. new[type] = lists[type]
      BY <1>1, <1>2, <1>5, <2>2
    <3> QED
      BY <1>1, <1>3, <1>5, <2>2, <3>1
  <2> QED
    BY <2>1, <2>2
<1> QED
  BY <1>1, <1>4, <1>5 DEF ListsOK, new

(* AllPut is the last of the lists that come about event by event.          *)
LEMMA AllPutIsAFold ==
    ASSUME NEW lists, NEW events, Len(events) \in Nat
    PROVE  \E After : /\ After[0] = lists /\ Events!AllPut(lists, events) = After[Len(events)]
                      /\ \A n \in 1 .. Len(events) : After[n] = Events!Put(After[n - 1], events[n])
<1> DEFINE k == Len(events)
           Good == {n \in 0 .. k : \E f : f[0] = lists /\ \A m \in 1 .. n : f[m] = Events!Put(f[m - 1], events[m])}
<1>1. 0 \in Good
  <2> DEFINE f == [m \in {0} |-> lists]
  <2>1. f[0] = lists /\ \A m \in 1 .. 0 : f[m] = Events!Put(f[m - 1], events[m])
    OBVIOUS
  <2> HIDE DEF f
  <2> QED
    BY <2>1
<1>2. ASSUME NEW n \in 1 .. k, n - 1 \in Good PROVE n \in Good
  <2>1. PICK f : f[0] = lists /\ \A m \in 1 .. n - 1 : f[m] = Events!Put(f[m - 1], events[m])
    BY <1>2
  <2> DEFINE g == [m \in 0 .. n |-> IF m = n THEN Events!Put(f[n - 1], events[n]) ELSE f[m]]
  <2>2. g[0] = lists
    BY <2>1
  <2>3. ASSUME NEW m \in 1 .. n PROVE g[m] = Events!Put(g[m - 1], events[m])
    <3>1. m \in 0 .. n /\ m - 1 \in 0 .. n /\ m - 1 # n /\ (m # n => m \in 1 .. n - 1)
      OBVIOUS
    <3>2. g[m - 1] = f[m - 1] /\ g[m] = IF m = n THEN Events!Put(f[n - 1], events[n]) ELSE f[m]
      BY <3>1
    <3> HIDE DEF g
    <3> QED
      BY <2>1, <3>1, <3>2
  <2> HIDE DEF g
  <2> QED
    BY <2>2, <2>3
<1>3. k \in Good
  <2>1. k \in Nat /\ k \in 0 .. k
    OBVIOUS
  <2>2. \A n \in 1 .. k : n - 1 \in Good => n \in Good
    <3> HIDE DEF Good
    <3> QED
      BY <1>2
  <2> HIDE DEF Good, k
  <2> QED
    BY <1>1, <2>1, <2>2, InductionUpTo
<1>4. PICK f : f[0] = lists /\ \A m \in 1 .. k : f[m] = Events!Put(f[m - 1], events[m])
  BY <1>3
<1> DEFINE g == [m \in 0 .. k |-> f[m]]
           After == CHOOSE h : h = [n \in 0 .. k |-> IF n = 0 THEN lists ELSE Events!Put(h[n - 1], events[n])]
<1>5. g = [n \in 0 .. k |-> IF n = 0 THEN lists ELSE Events!Put(g[n - 1], events[n])]
  <2>1. ASSUME NEW n \in 0 .. k PROVE f[n] = IF n = 0 THEN lists ELSE Events!Put(g[n - 1], events[n])
    <3>1. CASE n = 0
      BY <1>4, <3>1
    <3>2. CASE n # 0
      <4>1. n \in 1 .. k /\ n - 1 \in 0 .. k
        BY <3>2
      <4> QED
        BY <1>4, <3>2, <4>1
    <3> QED
      BY <3>1, <3>2
  <2> QED
    BY <2>1
<1> HIDE DEF g
<1>6. After = [n \in 0 .. k |-> IF n = 0 THEN lists ELSE Events!Put(After[n - 1], events[n])]
  BY <1>5
<1>7. Events!AllPut(lists, events) = After[k]
  BY DEF Events!AllPut
<1> HIDE DEF After
<1>8. After[0] = lists /\ \A n \in 1 .. k : After[n] = Events!Put(After[n - 1], events[n])
  BY <1>6
<1> QED
  BY <1>7, <1>8

(* The events of one transaction are put into lists that stay right, if     *)
(* none of them was there and none comes twice.                             *)
LEMMA AllPutKeeps ==
    ASSUME OptionsOK, NEW all \in SUBSET Known, NEW lists, ListsOK(lists, all), NEW events \in Seq(Known),
           Once => \A i \in 1 .. Len(events) :
                       events[i] \notin all /\ \A j \in 1 .. Len(events) : j < i => events[j] # events[i]
    PROVE  /\ ListsOK(Events!AllPut(lists, events), all \cup {events[i] : i \in 1 .. Len(events)})
           /\ DOMAIN Events!AllPut(lists, events) = DOMAIN lists
<1> DEFINE k == Len(events)
           First(n) == {events[i] : i \in 1 .. n}
<1>1. k \in Nat /\ \A i \in 1 .. k : events[i] \in Known
  BY LenProperties, ElementOfSeq
<1>2. PICK After : /\ After[0] = lists /\ Events!AllPut(lists, events) = After[k]
                   /\ \A n \in 1 .. k : After[n] = Events!Put(After[n - 1], events[n])
  BY <1>1, AllPutIsAFold
<1> DEFINE Good == {n \in 0 .. k : ListsOK(After[n], all \cup First(n)) /\ DOMAIN After[n] = DOMAIN lists}
<1>3. 0 \in Good
  <2>1. all \cup First(0) = all
    OBVIOUS
  <2>2. ListsOK(After[0], all \cup First(0)) /\ DOMAIN After[0] = DOMAIN lists
    BY <1>2, <2>1
  <2> HIDE DEF First
  <2> QED
    BY <1>1, <2>2
<1>4. ASSUME NEW n \in 1 .. k, n - 1 \in Good PROVE n \in Good
  <2>1. n - 1 \in Nat /\ n \in Nat
    BY <1>1
  <2>2. First(n) = First(n - 1) \cup {events[n]}
    <3>1. 1 .. n = (1 .. n - 1) \cup {n}
      BY <2>1
    <3> QED
      BY <3>1
  <2>3. all \cup First(n - 1) \in SUBSET Known
    BY <1>1
  <2>4. Once => events[n] \notin all \cup First(n - 1)
    <3>1. \A j \in 1 .. n - 1 : j \in 1 .. k /\ j < n
      BY <1>1
    <3> QED
      BY <3>1
  <2>5. ListsOK(After[n - 1], all \cup First(n - 1)) /\ DOMAIN After[n - 1] = DOMAIN lists
    BY <1>4
  <2> HIDE DEF First
  <2>6. /\ ListsOK(Events!Put(After[n - 1], events[n]), all \cup First(n - 1) \cup {events[n]})
        /\ DOMAIN Events!Put(After[n - 1], events[n]) = DOMAIN After[n - 1]
    BY <1>1, <2>3, <2>4, <2>5, PutKeeps
  <2>7. all \cup First(n - 1) \cup {events[n]} = all \cup First(n)
    BY <2>2
  <2>8. ListsOK(After[n], all \cup First(n)) /\ DOMAIN After[n] = DOMAIN lists
    BY <1>2, <2>5, <2>6, <2>7
  <2> QED
    BY <2>8
<1>5. k \in Good
  <2>1. k \in Nat /\ k \in 0 .. k
    BY <1>1
  <2>2. \A n \in 1 .. k : n - 1 \in Good => n \in Good
    <3> HIDE DEF Good
    <3> QED
      BY <1>4
  <2> HIDE DEF Good, k
  <2> QED
    BY <1>3, <2>1, <2>2, InductionUpTo
<1> QED
  BY <1>2, <1>5

-----------------------------------------------------------------------------
(* The cache holds a transaction once, the new one first, and forgets none  *)
(* when it is large enough.                                                 *)
LEMMA WithoutOne ==
    ASSUME NEW s \in Seq(Tx), NEW n \in 1 .. Len(s)
    PROVE  /\ Events!RemoveAt(s, n) \in Seq(Tx) /\ Len(Events!RemoveAt(s, n)) = Len(s) - 1
           /\ \A i \in 1 .. Len(s) - 1 : Events!RemoveAt(s, n)[i] = IF i < n THEN s[i] ELSE s[i + 1]
<1> DEFINE front == SubSeq(s, 1, n - 1)
           back == SubSeq(s, n + 1, Len(s))
           new == Events!RemoveAt(s, n)
<1>1. Len(s) \in Nat /\ n \in Int /\ n >= 1 /\ n =< Len(s) /\ \A i \in 1 .. Len(s) : s[i] \in Tx
  BY LenProperties, ElementOfSeq
<1>2. /\ front \in Seq(Tx) /\ Len(front) = n - 1
      /\ \A i \in 1 .. n - 1 : front[i] = s[i]
  <2>1. \A i \in 1 .. n - 1 : s[i] \in Tx
    BY <1>1
  <2>2. /\ front \in Seq(Tx) /\ Len(front) = IF 1 <= n - 1 THEN (n - 1) - 1 + 1 ELSE 0
        /\ \A i \in 1 .. (n - 1) - 1 + 1 : front[i] = s[1 + i - 1]
    BY <1>1, <2>1, SubSeqProperties
  <2> HIDE DEF front
  <2> QED
    BY <1>1, <2>2
<1>3. /\ back \in Seq(Tx) /\ Len(back) = Len(s) - n
      /\ \A i \in 1 .. Len(s) - n : back[i] = s[n + i]
  <2>1. \A i \in n + 1 .. Len(s) : s[i] \in Tx
    BY <1>1
  <2>2. /\ back \in Seq(Tx) /\ Len(back) = IF n + 1 <= Len(s) THEN Len(s) - (n + 1) + 1 ELSE 0
        /\ \A i \in 1 .. Len(s) - (n + 1) + 1 : back[i] = s[n + 1 + i - 1]
    BY <1>1, <2>1, SubSeqProperties
  <2> HIDE DEF back
  <2> QED
    BY <1>1, <2>2
<1>4. new = front \o back
  BY DEF Events!RemoveAt
<1> HIDE DEF front, back
<1>5. /\ front \o back \in Seq(Tx) /\ Len(front \o back) = Len(front) + Len(back)
      /\ \A i \in 1 .. Len(front) + Len(back) :
             (front \o back)[i] = IF i <= Len(front) THEN front[i] ELSE back[i - Len(front)]
  BY <1>2, <1>3, ConcatProperties
<1> HIDE DEF new
<1>6. ASSUME NEW i \in 1 .. Len(s) - 1 PROVE new[i] = IF i < n THEN s[i] ELSE s[i + 1]
  <2>0. i \in 1 .. Len(front) + Len(back)
    BY <1>1, <1>2, <1>3
  <2>1. CASE i < n
    <3>1. i \in 1 .. n - 1 /\ i <= Len(front)
      BY <1>1, <1>2, <2>1
    <3> QED
      BY <1>2, <1>4, <1>5, <2>0, <2>1, <3>1
  <2>2. CASE ~(i < n)
    <3>1. i - (n - 1) \in 1 .. Len(s) - n /\ n + (i - (n - 1)) = i + 1 /\ ~(i <= n - 1)
      BY <1>1, <2>2
    <3>2. new[i] = back[i - (n - 1)]
      BY <1>2, <1>4, <1>5, <2>0, <3>1
    <3> QED
      BY <1>3, <2>2, <3>1, <3>2
  <2> QED
    BY <2>1, <2>2
<1> QED
  BY <1>1, <1>2, <1>3, <1>4, <1>5, <1>6 DEF new

(* add() puts the transaction into the cache; a cache that has room for all *)
(* transactions forgets none.                                               *)
LEMMA AddKeeps ==
    ASSUME OptionsOK, IsFiniteSet(Tx), NEW cache, CacheOK(cache), NEW t \in Tx
    PROVE  /\ CacheOK(Events!add(cache, t)) /\ t \in Events!ToSet(Events!add(cache, t))
           /\ Events!ToSet(Events!add(cache, t)) \subseteq Events!ToSet(cache) \cup {t}
           /\ options.maxTx >= Cardinality(Tx) => Events!ToSet(cache) \subseteq Events!ToSet(Events!add(cache, t))
<1> DEFINE k == Len(cache)
           place == CHOOSE n \in DOMAIN cache : cache[n] = t
           others == IF Events!Contains(cache, t) THEN Events!RemoveAt(cache, place)
                     ELSE IF k = options.maxTx THEN Events!Front(cache) ELSE cache
           new == Events!add(cache, t)
           Rest == /\ others \in Seq(Tx) /\ Len(others) < options.maxTx
                   /\ \A i, j \in 1 .. Len(others) : others[i] = others[j] => i = j
                   /\ \A i \in 1 .. Len(others) : others[i] # t /\ \E j \in 1 .. k : others[i] = cache[j]
                   /\ options.maxTx >= Cardinality(Tx) =>
                          \A j \in 1 .. k : cache[j] = t \/ \E i \in 1 .. Len(others) : others[i] = cache[j]
<1>1. /\ cache \in Seq(Tx) /\ k \in Nat /\ k =< options.maxTx /\ DOMAIN cache = 1 .. k
      /\ options.maxTx \in Nat /\ options.maxTx >= 1
      /\ \A i, j \in 1 .. k : cache[i] = cache[j] => i = j
      /\ \A i \in 1 .. k : cache[i] \in Tx
  BY LenProperties, ElementOfSeq DEF CacheOK, OptionsOK, Events!IsInjective
<1>2. ASSUME Events!Contains(cache, t) PROVE Rest
  <2>1. place \in 1 .. k /\ cache[place] = t
    BY <1>1, <1>2 DEF Events!Contains
  <2>2. others = Events!RemoveAt(cache, place)
    BY <1>2
  <2> HIDE DEF others, place
  <2>3. /\ others \in Seq(Tx) /\ Len(others) = k - 1
        /\ \A i \in 1 .. k - 1 : others[i] = IF i < place THEN cache[i] ELSE cache[i + 1]
    BY <1>1, <2>1, <2>2, WithoutOne
  <2> HIDE DEF k
  <2>4. \A i, j \in 1 .. k - 1 : others[i] = others[j] => i = j
    BY <1>1, <2>1, <2>3
  <2>5. ASSUME NEW i \in 1 .. k - 1 PROVE others[i] # t /\ \E j \in 1 .. k : others[i] = cache[j]
    <3>1. i \in 1 .. k /\ i + 1 \in 1 .. k
      BY <1>1
    <3> QED
      BY <1>1, <2>1, <2>3, <3>1
  <2>6. ASSUME NEW j \in 1 .. k, cache[j] # t PROVE \E i \in 1 .. k - 1 : others[i] = cache[j]
    <3>1. CASE j < place
      <4>1. j \in 1 .. k - 1
        BY <1>1, <2>1, <3>1
      <4> QED
        BY <2>3, <3>1, <4>1
    <3>2. CASE ~(j < place)
      <4>1. j - 1 \in 1 .. k - 1 /\ ~(j - 1 < place) /\ (j - 1) + 1 = j
        BY <1>1, <2>1, <2>6, <3>2
      <4> QED
        BY <2>3, <4>1
    <3> QED
      BY <3>1, <3>2
  <2> QED
    BY <1>1, <2>3, <2>4, <2>5, <2>6
<1>3. ASSUME ~Events!Contains(cache, t), k = options.maxTx PROVE Rest
  <2>1. others = SubSeq(cache, 1, k - 1)
    BY <1>3 DEF Events!Front
  <2>2. \A j \in 1 .. k : cache[j] # t
    BY <1>3 DEF Events!Contains
  <2> HIDE DEF others
  <2>3. others \in Seq(Tx) /\ Len(others) = k - 1 /\ \A i \in 1 .. k - 1 : others[i] = cache[i]
    <3>1. \A i \in 1 .. k - 1 : cache[i] \in Tx
      BY <1>1
    <3>2. /\ others \in Seq(Tx) /\ Len(others) = IF 1 <= k - 1 THEN (k - 1) - 1 + 1 ELSE 0
          /\ \A i \in 1 .. (k - 1) - 1 + 1 : others[i] = cache[1 + i - 1]
      BY <1>1, <2>1, <3>1, SubSeqProperties
    <3> HIDE DEF k
    <3> QED
      BY <1>1, <1>3, <3>2
  <2>4. ~(options.maxTx >= Cardinality(Tx))
    <3>1. cache \in [1 .. k -> Tx]
      BY <1>1, LenProperties
    <3>2. cache \in Injection(1 .. k, Tx)
      BY <1>1, <3>1 DEF Injection, IsInjective
    <3>3. Cardinality(1 .. k) = k /\ IsFiniteSet(1 .. k)
      <4>1. IsFiniteSet(1 .. k) /\ Cardinality(1 .. k) = IF 1 > k THEN 0 ELSE k - 1 + 1
        <5> HIDE DEF k
        <5> QED
          BY <1>1, FS_Interval
      <4> HIDE DEF k
      <4> QED
        BY <1>1, <4>1
    <3>4. Cardinality(Tx) \in Nat /\ k <= Cardinality(Tx) /\ (k = Cardinality(Tx) => cache \in Surjection(1 .. k, Tx))
      BY <3>2, <3>3, FS_Injection, FS_CardinalityType
    <3>5. cache \notin Surjection(1 .. k, Tx)
      BY <2>2 DEF Surjection
    <3> HIDE DEF k
    <3> QED
      BY <1>1, <1>3, <3>4, <3>5
  <2> HIDE DEF k
  <2> QED
    BY <1>1, <1>3, <2>2, <2>3, <2>4
<1>4. ASSUME ~Events!Contains(cache, t), k # options.maxTx PROVE Rest
  <2>1. others = cache
    BY <1>4
  <2>2. \A j \in 1 .. k : cache[j] # t
    BY <1>4 DEF Events!Contains
  <2> HIDE DEF others
  <2> QED
    BY <1>1, <1>4, <2>1, <2>2
<1>5. Rest
  BY <1>2, <1>3, <1>4
<1>6. new = <<t>> \o others
  BY DEF Events!add
<1> HIDE DEF others, new
<1>7. Len(others) \in Nat
  BY <1>5, LenProperties
<1>8. /\ new \in Seq(Tx) /\ Len(new) = Len(others) + 1
      /\ \A i \in 1 .. Len(others) + 1 : new[i] = IF i = 1 THEN t ELSE others[i - 1]
  <2>1. <<t>> \in Seq(Tx) /\ Len(<<t>>) = 1 /\ <<t>>[1] = t
    OBVIOUS
  <2>2. /\ <<t>> \o others \in Seq(Tx) /\ Len(<<t>> \o others) = 1 + Len(others)
        /\ \A i \in 1 .. 1 + Len(others) :
               (<<t>> \o others)[i] = IF i <= 1 THEN <<t>>[i] ELSE others[i - 1]
    BY <1>5, <2>1, ConcatProperties
  <2> QED
    BY <1>6, <1>7, <2>1, <2>2
<1>9. DOMAIN new = 1 .. Len(others) + 1
  BY <1>8, LenProperties
<1>10. \A i \in 2 .. Len(others) + 1 : i - 1 \in 1 .. Len(others) /\ new[i] = others[i - 1]
  BY <1>7, <1>8
<1>11. new[1] = t /\ \A i \in 1 .. Len(others) : new[i + 1] = others[i] /\ i + 1 \in 1 .. Len(others) + 1
  BY <1>7, <1>8
<1>12. Events!IsInjective(new)
  <2>1. SUFFICES ASSUME NEW i \in 1 .. Len(others) + 1, NEW j \in 1 .. Len(others) + 1, new[i] = new[j], i < j
                 PROVE FALSE
    BY <1>7, <1>9 DEF Events!IsInjective
  <2>2. j \in 2 .. Len(others) + 1 /\ (i = 1 \/ i \in 2 .. Len(others) + 1)
    BY <1>7, <2>1
  <2> QED
    BY <1>5, <1>7, <1>10, <1>11, <2>1, <2>2
<1>13. CacheOK(new)
  BY <1>1, <1>5, <1>7, <1>8, <1>12 DEF CacheOK
<1>14. t \in Events!ToSet(new) /\ Events!ToSet(new) \subseteq Events!ToSet(cache) \cup {t}
  <2>1. \A i \in 1 .. Len(others) + 1 : i = 1 \/ i \in 2 .. Len(others) + 1
    BY <1>7
  <2>2. 1 \in 1 .. Len(others) + 1
    BY <1>7
  <2>3. ASSUME NEW i \in 1 .. Len(others) + 1 PROVE new[i] = t \/ \E j \in 1 .. k : new[i] = cache[j]
    <3>1. CASE i = 1
      BY <1>11, <3>1
    <3>2. CASE i \in 2 .. Len(others) + 1
      <4>1. i - 1 \in 1 .. Len(others) /\ new[i] = others[i - 1]
        BY <1>10, <3>2
      <4>2. \E j \in 1 .. k : others[i - 1] = cache[j]
        BY <1>5, <4>1
      <4> QED
        BY <4>1, <4>2
    <3> QED
      BY <2>1, <3>1, <3>2
  <2>4. Events!ToSet(new) = {new[i] : i \in 1 .. Len(others) + 1} /\ Events!ToSet(cache) = {cache[i] : i \in 1 .. k}
    BY <1>1, <1>9 DEF Events!ToSet
  <2> HIDE DEF k
  <2> QED
    BY <1>11, <2>2, <2>3, <2>4
<1>15. ASSUME options.maxTx >= Cardinality(Tx) PROVE Events!ToSet(cache) \subseteq Events!ToSet(new)
  <2>1. 1 \in 1 .. Len(others) + 1
    BY <1>7
  <2>2. \A j \in 1 .. k : \E i \in 1 .. Len(others) + 1 : cache[j] = new[i]
    BY <1>5, <1>11, <1>15, <2>1
  <2>3. Events!ToSet(new) = {new[i] : i \in 1 .. Len(others) + 1} /\ Events!ToSet(cache) = {cache[i] : i \in 1 .. k}
    BY <1>1, <1>9 DEF Events!ToSet
  <2> HIDE DEF k
  <2> QED
    BY <2>2, <2>3
<1> QED
  BY <1>13, <1>14, <1>15 DEF new

-----------------------------------------------------------------------------
(* handleTxLogs, once and for each transaction of an answer.                *)
LEMMA SeenEvents ==
    ASSUME Events!EventsAssumption, NEW t \in Landed, NEW index \in {0} \cup Events!AllOf(t)
    PROVE  LET events == Events!parseEventsFromLogs(t, index) IN
           /\ events \in Seq(Known)
           /\ \A i \in 1 .. Len(events) : events[i].tx = t
           /\ \A i, j \in 1 .. Len(events) : j < i => events[j] # events[i]
           /\ index = 0 => Seen(t) = {events[i] : i \in 1 .. Len(events)}
<1> DEFINE events == Events!parseEventsFromLogs(t, index)
           n == Len(EventsOf[t])
<1>1. EventsOf[t] \in Seq(EventType) /\ t \in Tx /\ slotOf[t] # 0
  BY DEF Events!EventsAssumption, Landed
<1>2. n \in Nat /\ Events!AllOf(t) = 1 .. n
  BY <1>1, LenProperties DEF Events!AllOf
<1> HIDE DEF n
<1>3. \A i \in Nat : [tx |-> t, index |-> i] \in Known
  BY <1>1 DEF Known, Events!Event
<1>4. CASE index = 0
  <2>1. events = [i \in 1 .. n |-> [tx |-> t, index |-> i]]
    BY <1>2, <1>4 DEF Events!parseEventsFromLogs
  <2> HIDE DEF events
  <2>2. events \in [1 .. n -> Known] /\ Len(events) = n
    BY <1>2, <1>3, <2>1
  <2>3. events \in Seq(Known)
    BY <1>2, <2>2
  <2>4. \A i \in 1 .. n : events[i] = [tx |-> t, index |-> i]
    BY <2>1
  <2>5. Seen(t) = {events[i] : i \in 1 .. n}
    BY <1>2, <2>4 DEF Seen
  <2>6. \A i, j \in 1 .. n : j < i => events[j] # events[i]
    <3>1. SUFFICES ASSUME NEW i \in 1 .. n, NEW j \in 1 .. n, j < i PROVE events[j] # events[i]
      OBVIOUS
    <3>2. events[i] = [tx |-> t, index |-> i] /\ events[j] = [tx |-> t, index |-> j] /\ i # j
      BY <1>2, <2>4, <3>1
    <3>3. events[i].index = i /\ events[j].index = j
      BY ONLY <3>2
    <3> QED
      BY ONLY <3>2, <3>3
  <2>7. ASSUME NEW i \in 1 .. n PROVE events[i].tx = t
    <3>1. events[i] = [tx |-> t, index |-> i]
      BY <2>4
    <3> QED
      BY ONLY <3>1
  <2> QED
    BY <2>2, <2>3, <2>5, <2>6, <2>7 DEF events
<1>5. CASE index # 0
  <2>1. events = <<[tx |-> t, index |-> index]>> /\ index \in Nat
    BY <1>2, <1>5 DEF Events!parseEventsFromLogs
  <2> HIDE DEF events
  <2>2. [tx |-> t, index |-> index] \in Known
    BY <1>3, <2>1
  <2>3. events \in Seq(Known) /\ Len(events) = 1 /\ events[1] = [tx |-> t, index |-> index]
    BY <2>1, <2>2
  <2> QED
    BY <1>5, <2>3 DEF events
<1> QED
  BY <1>4, <1>5

(* handleTxLogs keeps the lists, the cache and the promises right.          *)
LEMMA HandleKeeps ==
    ASSUME Events!EventsAssumption, OptionsOK, NEW s, StateOK(s), NEW t \in Landed,
           NEW index \in {0} \cup Events!AllOf(t), NEW fromEventsServer \in BOOLEAN,
           Once => index = 0 /\ ~fromEventsServer
    PROVE  StateOK(Events!handleTxLogs(s, t, index, fromEventsServer))
<1> DEFINE new == Events!handleTxLogs(s, t, index, fromEventsServer)
           events == Events!parseEventsFromLogs(t, index)
           all == AllSeen(s.handled)
           found == {events[i] : i \in 1 .. Len(events)}
<1>1. /\ ListsOK(s.lists, all) /\ CacheOK(s.cache)
      /\ s.awaiting \subseteq Tx /\ s.awaiting \cap Events!ToSet(s.cache) = {}
      /\ s.handled \subseteq Landed /\ (Once => s.handled \subseteq Events!ToSet(s.cache))
  BY DEF StateOK
<1>2. CASE ~fromEventsServer /\ Events!Contains(s.cache, t)
  BY <1>2 DEF Events!handleTxLogs
<1>3. CASE ~(~fromEventsServer /\ Events!Contains(s.cache, t))
  <2>1. /\ new.lists = Events!AllPut(s.lists, events) /\ new.cache = Events!add(s.cache, t)
        /\ new.awaiting = s.awaiting \ {t}
        /\ new.handled = IF DOMAIN s.lists = {} THEN s.handled ELSE s.handled \cup {t}
    BY <1>3 DEF Events!handleTxLogs
  <2> HIDE DEF new
  <2>2. /\ events \in Seq(Known)
        /\ \A i \in 1 .. Len(events) : events[i].tx = t
        /\ \A i, j \in 1 .. Len(events) : j < i => events[j] # events[i]
        /\ index = 0 => Seen(t) = found
    BY SeenEvents
  <2> HIDE DEF events
  <2>3. all \in SUBSET Known /\ \A e \in all : e.tx \in s.handled
    <3>1. ASSUME NEW u \in s.handled, NEW e \in Seen(u) PROVE e \in Known /\ e.tx = u
      <4>1. u \in Tx /\ slotOf[u] # 0 /\ EventsOf[u] \in Seq(EventType)
        BY <1>1 DEF Events!EventsAssumption, Landed
      <4>2. Events!AllOf(u) \subseteq Nat
        BY <4>1, LenProperties DEF Events!AllOf
      <4>3. PICK i \in Nat : e = [tx |-> u, index |-> i]
        BY <4>2 DEF Seen
      <4> QED
        BY <4>1, <4>3 DEF Known, Events!Event
    <3> QED
      BY <3>1 DEF AllSeen
  <2>4. Once => t \notin s.handled
    <3>1. t \notin Events!ToSet(s.cache) \/ fromEventsServer
      <4>1. s.cache \in Seq(Tx) /\ DOMAIN s.cache = 1 .. Len(s.cache)
        BY <1>1, LenProperties DEF CacheOK
      <4> QED
        BY <1>3, <4>1 DEF Events!Contains, Events!ToSet
    <3> QED
      BY <1>1, <3>1
  <2>5. ListsOK(new.lists, all \cup found) /\ DOMAIN new.lists = DOMAIN s.lists
    <3>1. Once => \A i \in 1 .. Len(events) :
                      events[i] \notin all /\ \A j \in 1 .. Len(events) : j < i => events[j] # events[i]
      BY <2>2, <2>3, <2>4
    <3> HIDE DEF all
    <3>2. /\ ListsOK(Events!AllPut(s.lists, events), all \cup {events[i] : i \in 1 .. Len(events)})
          /\ DOMAIN Events!AllPut(s.lists, events) = DOMAIN s.lists
      <4>1. ListsOK(s.lists, all) /\ all \in SUBSET Known /\ events \in Seq(Known)
        BY <1>1, <2>2, <2>3
      <4> QED
        BY <3>1, <4>1, AllPutKeeps, Zenon
    <3> QED
      BY <2>1, <3>2
  <2>6. ListsOK(new.lists, AllSeen(new.handled))
    <3>1. CASE DOMAIN s.lists = {}
      BY <2>5, <3>1 DEF ListsOK
    <3>2. CASE DOMAIN s.lists # {} /\ Once
      <4>1. AllSeen(new.handled) = all \cup found
        BY <2>1, <2>2, <3>2 DEF AllSeen
      <4> QED
        BY <2>5, <4>1
    <3>3. CASE ~Once
      BY <2>5, <3>3 DEF ListsOK, ListOK
    <3> QED
      BY <3>1, <3>2, <3>3
  <2>7. t \in Tx /\ IsFiniteSet(Tx)
    <3>1. t \in Tx
      BY DEF Landed
    <3>2. IsFiniteSet(Tx)
      BY SameFiniteSets, Zenon DEF Events!EventsAssumption
    <3> QED
      BY <3>1, <3>2
  <2>8. /\ CacheOK(new.cache) /\ t \in Events!ToSet(new.cache)
        /\ Events!ToSet(new.cache) \subseteq Events!ToSet(s.cache) \cup {t}
        /\ options.maxTx >= Cardinality(Tx) => Events!ToSet(s.cache) \subseteq Events!ToSet(new.cache)
    BY <1>1, <2>1, <2>7, AddKeeps
  <2>9. new.awaiting \subseteq Tx /\ new.awaiting \cap Events!ToSet(new.cache) = {}
    BY <1>1, <2>1, <2>8
  <2>10. new.handled \subseteq Landed /\ (Once => new.handled \subseteq Events!ToSet(new.cache))
    BY <1>1, <2>1, <2>8 DEF Once
  <2> QED
    BY <2>6, <2>8, <2>9, <2>10 DEF StateOK, new
<1> QED
  BY <1>2, <1>3

HandledNext(s, txs, missing, n, f) ==
    IF txs[n] \in missing THEN f[n - 1] ELSE Events!handleTxLogs(f[n - 1], txs[n], 0, FALSE)

(* AllHandled is the last of the states that come about one by one.         *)
LEMMA AllHandledIsAFold ==
    ASSUME NEW s, NEW txs, NEW missing, Len(txs) \in Nat
    PROVE  \E After : /\ After[0] = s /\ Events!AllHandled(s, txs, missing) = After[Len(txs)]
                      /\ \A n \in 1 .. Len(txs) : After[n] = HandledNext(s, txs, missing, n, After)
<1> DEFINE k == Len(txs)
           Good == {n \in 0 .. k : \E f : f[0] = s /\ \A m \in 1 .. n : f[m] = HandledNext(s, txs, missing, m, f)}
<1>1. 0 \in Good
  <2> DEFINE f == [m \in {0} |-> s]
  <2>1. f[0] = s /\ \A m \in 1 .. 0 : f[m] = HandledNext(s, txs, missing, m, f)
    OBVIOUS
  <2> HIDE DEF f
  <2> QED
    BY <2>1
<1>2. ASSUME NEW n \in 1 .. k, n - 1 \in Good PROVE n \in Good
  <2>1. PICK f : f[0] = s /\ \A m \in 1 .. n - 1 : f[m] = HandledNext(s, txs, missing, m, f)
    BY <1>2
  <2> DEFINE g == [m \in 0 .. n |-> IF m = n THEN HandledNext(s, txs, missing, n, f) ELSE f[m]]
  <2>2. g[0] = s
    BY <2>1
  <2>3. ASSUME NEW m \in 1 .. n PROVE g[m] = HandledNext(s, txs, missing, m, g)
    <3>1. m \in 0 .. n /\ m - 1 \in 0 .. n /\ m - 1 # n /\ (m # n => m \in 1 .. n - 1)
      OBVIOUS
    <3>2. g[m - 1] = f[m - 1] /\ g[m] = IF m = n THEN HandledNext(s, txs, missing, n, f) ELSE f[m]
      BY <3>1
    <3> HIDE DEF g
    <3>3. HandledNext(s, txs, missing, m, g) = HandledNext(s, txs, missing, m, f)
      BY <3>2 DEF HandledNext
    <3> QED
      BY <2>1, <3>1, <3>2, <3>3
  <2> HIDE DEF g
  <2> QED
    BY <2>2, <2>3
<1>3. k \in Good
  <2>1. k \in Nat /\ k \in 0 .. k
    OBVIOUS
  <2>2. \A n \in 1 .. k : n - 1 \in Good => n \in Good
    <3> HIDE DEF Good
    <3> QED
      BY <1>2
  <2> HIDE DEF Good, k
  <2> QED
    BY <1>1, <2>1, <2>2, InductionUpTo
<1>4. PICK f : f[0] = s /\ \A m \in 1 .. k : f[m] = HandledNext(s, txs, missing, m, f)
  BY <1>3
<1> DEFINE g == [m \in 0 .. k |-> f[m]]
           After == CHOOSE h : h = [n \in 0 .. k |->
                        IF n = 0 THEN s
                        ELSE IF txs[n] \in missing THEN h[n - 1]
                             ELSE Events!handleTxLogs(h[n - 1], txs[n], 0, FALSE)]
<1>5. g = [n \in 0 .. k |-> IF n = 0 THEN s
                            ELSE IF txs[n] \in missing THEN g[n - 1]
                                 ELSE Events!handleTxLogs(g[n - 1], txs[n], 0, FALSE)]
  <2>1. ASSUME NEW n \in 0 .. k
        PROVE  f[n] = IF n = 0 THEN s
                      ELSE IF txs[n] \in missing THEN g[n - 1]
                           ELSE Events!handleTxLogs(g[n - 1], txs[n], 0, FALSE)
    <3>1. CASE n = 0
      BY <1>4, <3>1
    <3>2. CASE n # 0
      <4>1. n \in 1 .. k /\ n - 1 \in 0 .. k
        BY <3>2
      <4>2. g[n - 1] = f[n - 1] /\ f[n] = HandledNext(s, txs, missing, n, f)
        BY <1>4, <4>1
      <4> HIDE DEF g
      <4> QED
        BY <3>2, <4>2 DEF HandledNext
    <3> QED
      BY <3>1, <3>2
  <2> QED
    BY <2>1
<1> HIDE DEF g
<1>6. After = [n \in 0 .. k |-> IF n = 0 THEN s
                                ELSE IF txs[n] \in missing THEN After[n - 1]
                                     ELSE Events!handleTxLogs(After[n - 1], txs[n], 0, FALSE)]
  BY <1>5
<1>7. Events!AllHandled(s, txs, missing) = After[k]
  BY DEF Events!AllHandled
<1> HIDE DEF After
<1>8. After[0] = s /\ \A n \in 1 .. k : After[n] = HandledNext(s, txs, missing, n, After)
  BY <1>6 DEF HandledNext
<1> QED
  BY <1>7, <1>8

(* So does an answer with many transactions, whichever are missing from it. *)
LEMMA AllHandledKeeps ==
    ASSUME Events!EventsAssumption, OptionsOK, NEW s, StateOK(s), NEW missing, NEW txs, Len(txs) \in Nat,
           \A n \in 1 .. Len(txs) : txs[n] \in Landed
    PROVE  StateOK(Events!AllHandled(s, txs, missing))
<1> DEFINE k == Len(txs)
<1>1. PICK After : /\ After[0] = s /\ Events!AllHandled(s, txs, missing) = After[k]
                   /\ \A n \in 1 .. k : After[n] = HandledNext(s, txs, missing, n, After)
  BY AllHandledIsAFold
<1> DEFINE Good == {n \in 0 .. k : StateOK(After[n])}
<1>2. 0 \in Good
  BY <1>1
<1>3. ASSUME NEW n \in 1 .. k, n - 1 \in Good PROVE n \in Good
  <2> HIDE DEF k
  <2>1. StateOK(After[n - 1]) /\ After[n] = HandledNext(s, txs, missing, n, After) /\ n \in 0 .. k
    BY <1>1, <1>3
  <2>2. StateOK(After[n])
    <3>1. CASE txs[n] \in missing
      BY <2>1, <3>1, Zenon DEF HandledNext
    <3>2. CASE txs[n] \notin missing
      <4>1. After[n] = Events!handleTxLogs(After[n - 1], txs[n], 0, FALSE)
        BY <2>1, <3>2, Zenon DEF HandledNext
      <4>2. txs[n] \in Landed
        BY <1>3 DEF k
      <4>3. StateOK(Events!handleTxLogs(After[n - 1], txs[n], 0, FALSE))
        BY <2>1, <4>2, HandleKeeps
      <4> QED
        BY <4>1, <4>3, Zenon
    <3> QED
      BY <3>1, <3>2
  <2> QED
    BY <2>1, <2>2
<1>4. k \in Good
  <2>1. k \in Nat /\ k \in 0 .. k
    OBVIOUS
  <2>2. \A n \in 1 .. k : n - 1 \in Good => n \in Good
    <3> HIDE DEF Good
    <3> QED
      BY <1>3
  <2> HIDE DEF Good, k
  <2> QED
    BY <1>2, <2>1, <2>2, InductionUpTo
<1> QED
  BY <1>1, <1>4

-----------------------------------------------------------------------------
(* What is right stays right while nothing lands.                           *)
LEMMA StateFollows ==
    ASSUME UNCHANGED <<slotOf, options>>, NEW s, StateOK(s),
           eventListMap' = s.lists, txEventCache' = s.cache, awaitTxPromises' = s.awaiting, handled' = s.handled
    PROVE  StateOK(Events!State)'
<1>1. Landed' = Landed /\ Known' = Known /\ (Once' <=> Once)
  BY DEF Landed, Known, Once
<1>2. \A d, e : Events!Before(d, e)' <=> Events!Before(d, e)
  BY Zenon DEF Events!Before, Events!blockchainSortFn
<1>3. \A list : Sorted(list)' <=> Sorted(list)
  BY <1>2, Zenon DEF Sorted
<1>4. \A list, all : HoldsTheFirst(list, all)' <=> HoldsTheFirst(list, all)
  BY <1>2, Zenon DEF HoldsTheFirst
<1>5. \A list, all : ListOK(list, all)' <=> ListOK(list, all)
  BY <1>1, <1>3, <1>4 DEF ListOK
<1>6. \A lists, all : ListsOK(lists, all)' <=> ListsOK(lists, all)
  BY <1>5, Zenon DEF ListsOK
<1>7. \A cache : CacheOK(cache)' <=> CacheOK(cache)
  BY Zenon DEF CacheOK
<1> QED
  BY <1>1, <1>6, <1>7 DEF StateOK, Events!State

(* The options and the slots have the types that the lemmas above ask for.  *)
LEMMA OptionsFit ==
    ASSUME Events!EventsAssumption, options \in Options, LedgerOK
    PROVE  /\ OptionsOK /\ options.type \in Events!ProviderType
           /\ options.eventTypes \subseteq EventType /\ options.maxReconnectAttempts \in Nat
<1>1. options \in Events!ConfigType /\ MaxEventSlot \in Nat
  BY DEF Events!EventsAssumption
<1>2. /\ options.maxEventsPerType \in Nat \ {0} /\ options.maxTx \in Nat \ {0}
      /\ options.orderDir \in {"asc", "desc"} /\ options.orderBy \in {"blockchain", "client"}
      /\ options.type \in Events!ProviderType
      /\ options.eventTypes \subseteq EventType /\ options.maxReconnectAttempts \in Nat
  BY <1>1 DEF Events!ConfigType
<1>3. slotOf \in [Tx -> Nat]
  BY <1>1 DEF LedgerOK
<1> QED
  BY <1>2, <1>3 DEF OptionsOK

(* What has to be shown of the providers after a step in which nothing      *)
(* lands: of all of them, of one that changed, of one more.                 *)
LEMMA ProvidersFollow ==
    ASSUME UNCHANGED <<slotOf, options>>, NEW new \in Seq(ProviderType), providers' = new, Len(new) > 0,
           \A i \in 1 .. Len(new) : ProviderOK(new[i]), currentProviderType' = new[Len(new)].type
    PROVE  ProvidersOK'
<1>1. Landed' = Landed
  BY DEF Landed
<1>2. \A p : FetchedOK(p)' <=> FetchedOK(p)
  BY <1>1 DEF FetchedOK
<1>3. \A p : (p \in ProviderType)' <=> p \in ProviderType
  BY DEF ProviderType
<1>4. \A p : CountsOnce(p)' <=> CountsOnce(p)
  BY Zenon DEF CountsOnce
<1>5. \A p : ProviderOK(p)' <=> ProviderOK(p)
  BY <1>2, <1>3, <1>4, Zenon DEF ProviderOK
<1> QED
  BY <1>5 DEF ProvidersOK

(* One provider changes, and not its type.                                  *)
LEMMA OneFollows ==
    ASSUME UNCHANGED <<slotOf, options, currentProviderType>>, ProvidersOK, NEW i \in DOMAIN providers,
           NEW p, ProviderOK(p), p.type = providers[i].type, providers' = [providers EXCEPT ![i] = p]
    PROVE  ProvidersOK'
<1> DEFINE new == [providers EXCEPT ![i] = p]
<1>1. /\ providers \in Seq(ProviderType) /\ Len(providers) \in Nat /\ Len(providers) > 0
      /\ DOMAIN providers = 1 .. Len(providers) /\ \A j \in 1 .. Len(providers) : ProviderOK(providers[j])
      /\ currentProviderType = providers[Len(providers)].type
  BY LenProperties DEF ProvidersOK
<1>2. p \in ProviderType
  BY DEF ProviderOK
<1>3. new \in Seq(ProviderType) /\ Len(new) = Len(providers)
  BY <1>1, <1>2
<1>4. \A j \in 1 .. Len(new) : new[j] = IF j = i THEN p ELSE providers[j]
  BY <1>1, <1>3
<1>5. \A j \in 1 .. Len(new) : ProviderOK(new[j])
  BY <1>1, <1>3, <1>4
<1>6. currentProviderType' = new[Len(new)].type
  BY <1>1, <1>3, <1>4
<1>7. providers' = new
  OBVIOUS
<1> HIDE DEF new
<1> QED
  BY <1>1, <1>3, <1>5, <1>6, <1>7, ProvidersFollow

(* One provider changes and the next one is made.                           *)
LEMMA NextFollows ==
    ASSUME UNCHANGED <<slotOf, options>>, ProvidersOK, NEW i \in DOMAIN providers,
           NEW p, ProviderOK(p), NEW q, ProviderOK(q), currentProviderType' = q.type,
           providers' = Append([providers EXCEPT ![i] = p], q)
    PROVE  ProvidersOK'
<1> DEFINE one == [providers EXCEPT ![i] = p]
           new == Append(one, q)
<1>1. /\ providers \in Seq(ProviderType) /\ Len(providers) \in Nat
      /\ DOMAIN providers = 1 .. Len(providers) /\ \A j \in 1 .. Len(providers) : ProviderOK(providers[j])
  BY LenProperties DEF ProvidersOK
<1>2. p \in ProviderType /\ q \in ProviderType
  BY DEF ProviderOK
<1>3. one \in Seq(ProviderType) /\ Len(one) = Len(providers)
  BY <1>1, <1>2
<1>4. \A j \in 1 .. Len(one) : one[j] = IF j = i THEN p ELSE providers[j]
  BY <1>1, <1>3
<1>5. \A j \in 1 .. Len(one) : ProviderOK(one[j])
  BY <1>1, <1>3, <1>4
<1> HIDE DEF one
<1>6. /\ new \in Seq(ProviderType) /\ Len(new) = Len(one) + 1
      /\ \A j \in 1 .. Len(one) : new[j] = one[j]
      /\ new[Len(one) + 1] = q
  BY <1>1, <1>2, <1>3, AppendProperties
<1>7. providers' = new
  BY DEF one
<1> HIDE DEF new
<1>8. \A j \in 1 .. Len(new) : j \in 1 .. Len(one) \/ j = Len(one) + 1
  BY <1>1, <1>3, <1>6
<1>9. \A j \in 1 .. Len(new) : ProviderOK(new[j])
  BY <1>5, <1>6, <1>8
<1> QED
  BY <1>1, <1>3, <1>6, <1>7, <1>9, ProvidersFollow

(* None changes.                                                            *)
LEMMA ProvidersStay ==
    ASSUME UNCHANGED <<slotOf, options, currentProviderType, providers>>, ProvidersOK
    PROVE  ProvidersOK'
BY ProvidersFollow DEF ProvidersOK

(* The types of the fields of a provider.                                   *)
LEMMA FieldsOfAProvider ==
    ASSUME NEW p \in ProviderType
    PROVE  /\ p.type \in {"polling", "websocket", "events-server"}
           /\ p.sub \in BOOLEAN /\ p.isUnsubscribing \in BOOLEAN /\ p.externalUnsubscribe \in BOOLEAN
           /\ p.receivingData \in BOOLEAN /\ p.timer \in BOOLEAN /\ p.mutex \in BOOLEAN
           /\ p.reconnectAttempts \in Nat /\ p.reconnects \in Nat
           /\ p.removing \in SUBSET {"watchdog", "caller", "failover"} /\ p.got \in SUBSET (Tx \X Nat)
           /\ p.mostRecentSeenTx \in Tx \cup {None} /\ p.firstFetch \in BOOLEAN /\ p.fetched \in Seq(Tx)
BY DEF ProviderType, Events!ProviderType

(* The places of events in a transaction are numbers, as 0 is for all.      *)
LEMMA PlacesAreNumbers ==
    ASSUME Events!EventsAssumption, NEW t \in Tx
    PROVE  {0} \cup Events!AllOf(t) \subseteq Nat
<1>1. EventsOf[t] \in Seq(EventType)
  BY DEF Events!EventsAssumption
<1> QED
  BY <1>1, LenProperties DEF Events!AllOf

(* What a new listener does not hear of.                                    *)
LEMMA OldLogsType ==
    ASSUME Events!EventsAssumption
    PROVE  Events!OldLogs \in SUBSET (Tx \X Nat)
<1>1. ASSUME NEW t \in Tx PROVE {t} \X ({0} \cup Events!AllOf(t)) \subseteq Tx \X Nat
  BY PlacesAreNumbers
<1> QED
  BY <1>1 DEF Events!OldLogs

(* A new provider.                                                          *)
LEMMA FreshKeeps ==
    ASSUME NEW type \in Events!ProviderType, type = "events-server" => options.type = "events-server"
    PROVE  ProviderOK(Events!NewProvider(type)) /\ Events!NewProvider(type).type = type
<1> DEFINE p == Events!NewProvider(type)
<1>1. p \in ProviderType
  BY DEF Events!NewProvider, ProviderType
<1>2. /\ p.type = type /\ p.reconnectAttempts = 0 /\ p.removing = {} /\ ~p.timer
      /\ p.mostRecentSeenTx = None /\ p.fetched = <<>>
  BY DEF Events!NewProvider
<1> HIDE DEF p
<1>3. CountsOnce(p)
  BY <1>2 DEF CountsOnce
<1>4. FetchedOK(p)
  BY <1>2 DEF FetchedOK, Events!ToSet
<1> QED
  BY <1>1, <1>2, <1>3, <1>4 DEF ProviderOK, p

(* subscribe() of a provider: the timer runs only with a subscription.      *)
LEMMA SubscribedKeeps ==
    ASSUME Events!EventsAssumption, NEW p, ProviderOK(p)
    PROVE  ProviderOK(Events!Subscribed(p)) /\ Events!Subscribed(p).type = p.type
<1> DEFINE q == Events!Subscribed(p)
<1>1. p \in ProviderType /\ CountsOnce(p) /\ FetchedOK(p) /\ (p.type = "events-server" => options.type = "events-server")
  BY DEF ProviderOK
<1>2. CASE p.sub
  BY <1>2 DEF Events!Subscribed
<1>3. CASE ~p.sub /\ p.type = "polling"
  <2>1. q = [p EXCEPT !.sub = TRUE]
    BY <1>3 DEF Events!Subscribed
  <2> HIDE DEF q
  <2>2. q \in ProviderType
    BY <1>1, <2>1 DEF ProviderType
  <2>3. /\ q.type = p.type /\ q.reconnectAttempts = p.reconnectAttempts /\ q.removing = p.removing
        /\ q.timer = p.timer /\ q.mostRecentSeenTx = p.mostRecentSeenTx /\ q.fetched = p.fetched
    BY <1>1, <2>1 DEF ProviderType
  <2>4. CountsOnce(q) /\ FetchedOK(q)
    BY <1>1, <1>3, <2>3 DEF CountsOnce, FetchedOK
  <2> QED
    BY <1>1, <2>2, <2>3, <2>4 DEF ProviderOK, q
<1>4. CASE ~p.sub /\ p.type # "polling"
  <2>1. q = [p EXCEPT !.sub = TRUE, !.timer = TRUE, !.got = Events!OldLogs]
    BY <1>4 DEF Events!Subscribed
  <2> HIDE DEF q
  <2>2. q \in ProviderType
    BY <1>1, <2>1, OldLogsType DEF ProviderType
  <2>3. /\ q.type = p.type /\ q.reconnectAttempts = p.reconnectAttempts /\ q.removing = p.removing
        /\ q.sub /\ q.receivingData = p.receivingData /\ q.isUnsubscribing = p.isUnsubscribing
        /\ q.externalUnsubscribe = p.externalUnsubscribe
        /\ q.mostRecentSeenTx = p.mostRecentSeenTx /\ q.fetched = p.fetched
    BY <1>1, <2>1 DEF ProviderType
  <2>4. CountsOnce(q) /\ FetchedOK(q)
    BY <1>1, <1>4, <2>3 DEF CountsOnce, FetchedOK
  <2> QED
    BY <1>1, <2>2, <2>3, <2>4 DEF ProviderOK, q
<1> QED
  BY <1>2, <1>3, <1>4

(* unsubscribe() of a provider: that of the events server remembers in      *)
(* isUnsubscribing or externalUnsubscribe that it was closed.               *)
LEMMA UnsubscribedKeeps ==
    ASSUME NEW p, ProviderOK(p), NEW external \in BOOLEAN, NEW who \in {"watchdog", "caller", "failover"},
           p.type = "events-server" => external \/ p.reconnectAttempts = 0,
           who = "watchdog" => p.reconnectAttempts = 0
    PROVE  LET q == Events!Unsubscribed(p, external, who) IN
           /\ ProviderOK(q) /\ q.type = p.type /\ q.reconnectAttempts = p.reconnectAttempts
           /\ q.type = "websocket" \/ q.removing = {}
           /\ q.type = "events-server" => q.isUnsubscribing = p.sub /\ q.externalUnsubscribe = external
<1> DEFINE q == Events!Unsubscribed(p, external, who)
           closing == [p EXCEPT !.isUnsubscribing = p.sub, !.externalUnsubscribe = external, !.timer = FALSE]
<1>1. p \in ProviderType /\ CountsOnce(p) /\ FetchedOK(p) /\ (p.type = "events-server" => options.type = "events-server")
  BY DEF ProviderOK
<1>2. /\ p.sub \in BOOLEAN /\ p.removing \in SUBSET {"watchdog", "caller", "failover"}
      /\ p.type \in {"polling", "websocket", "events-server"}
  BY <1>1, FieldsOfAProvider
<1>3. closing \in ProviderType
  BY <1>1, <1>2 DEF ProviderType
<1>4. /\ closing.type = p.type /\ closing.sub = p.sub /\ closing.isUnsubscribing = p.sub
      /\ closing.externalUnsubscribe = external
      /\ closing.receivingData = p.receivingData /\ ~closing.timer
      /\ closing.reconnectAttempts = p.reconnectAttempts /\ closing.removing = p.removing
      /\ closing.mostRecentSeenTx = p.mostRecentSeenTx /\ closing.fetched = p.fetched
  BY <1>1 DEF ProviderType
<1>5. q = CASE p.type = "polling" -> [p EXCEPT !.sub = FALSE]
            [] p.type = "events-server" -> [closing EXCEPT !.sub = FALSE]
            [] p.type = "websocket" /\ p.sub -> [closing EXCEPT !.removing = closing.removing \cup {who}]
            [] OTHER -> closing
  BY DEF Events!Unsubscribed
<1> HIDE DEF q, closing
<1>6. CASE p.type = "polling"
  <2>1. q = [p EXCEPT !.sub = FALSE]
    BY <1>5, <1>6
  <2>2. q \in ProviderType
    BY <1>1, <2>1 DEF ProviderType
  <2>3. /\ q.type = p.type /\ q.reconnectAttempts = p.reconnectAttempts /\ q.removing = p.removing
        /\ q.timer = p.timer /\ q.mostRecentSeenTx = p.mostRecentSeenTx /\ q.fetched = p.fetched
    BY <1>1, <2>1 DEF ProviderType
  <2>4. CountsOnce(q) /\ FetchedOK(q) /\ q.removing = {}
    BY <1>1, <1>6, <2>3 DEF CountsOnce, FetchedOK
  <2> QED
    BY <1>1, <1>6, <2>2, <2>3, <2>4 DEF ProviderOK, q
<1>7. CASE p.type = "events-server"
  <2>1. q = [closing EXCEPT !.sub = FALSE]
    BY <1>5, <1>7
  <2>2. q \in ProviderType
    BY <1>3, <2>1 DEF ProviderType
  <2>3. /\ q.type = p.type /\ q.reconnectAttempts = p.reconnectAttempts /\ q.removing = p.removing
        /\ ~q.timer /\ q.mostRecentSeenTx = p.mostRecentSeenTx /\ q.fetched = p.fetched
        /\ q.isUnsubscribing = p.sub /\ q.externalUnsubscribe = external
    BY <1>3, <1>4, <2>1 DEF ProviderType
  <2>4. p.reconnectAttempts # 0 => q.externalUnsubscribe
    BY <1>7, <2>3
  <2>5. CountsOnce(q) /\ FetchedOK(q) /\ q.removing = {}
    BY <1>1, <1>7, <2>3, <2>4 DEF CountsOnce, FetchedOK
  <2> QED
    BY <1>1, <1>7, <2>2, <2>3, <2>5 DEF ProviderOK, q
<1>8. CASE p.type = "websocket" /\ p.sub
  <2>1. q = [closing EXCEPT !.removing = closing.removing \cup {who}]
    BY <1>5, <1>8
  <2>2. q \in ProviderType
    BY <1>2, <1>3, <1>4, <2>1 DEF ProviderType
  <2>3. /\ q.type = p.type /\ q.reconnectAttempts = p.reconnectAttempts /\ q.removing = p.removing \cup {who}
        /\ q.receivingData = p.receivingData
        /\ q.mostRecentSeenTx = p.mostRecentSeenTx /\ q.fetched = p.fetched
    BY <1>3, <1>4, <2>1 DEF ProviderType
  <2>4. CountsOnce(q) /\ FetchedOK(q)
    BY <1>1, <1>8, <2>3 DEF CountsOnce, FetchedOK
  <2> QED
    BY <1>1, <1>8, <2>2, <2>3, <2>4 DEF ProviderOK, q
<1>9. CASE p.type = "websocket" /\ ~p.sub
  <2>1. q = closing
    BY <1>5, <1>9
  <2>2. CountsOnce(q) /\ FetchedOK(q)
    BY <1>1, <1>4, <1>9, <2>1 DEF CountsOnce, FetchedOK
  <2> QED
    BY <1>1, <1>3, <1>4, <1>9, <2>1, <2>2 DEF ProviderOK, q
<1> QED
  BY <1>2, <1>6, <1>7, <1>8, <1>9

(* The state after a step that computes it.                                 *)
LEMMA BecomesKeeps ==
    ASSUME UNCHANGED <<slotOf, options>>, NEW s, StateOK(s), Events!Becomes(s)
    PROVE  StateOK(Events!State)'
<1>1. eventListMap' = s.lists /\ txEventCache' = s.cache /\ awaitTxPromises' = s.awaiting /\ handled' = s.handled
  BY DEF Events!Becomes
<1> QED
  BY <1>1, StateFollows

(* The state after a step that leaves it alone.                             *)
LEMMA StateStays ==
    ASSUME UNCHANGED <<slotOf, options>>, UNCHANGED Events!subscriber, StateOK(Events!State)
    PROVE  StateOK(Events!State)'
<1> DEFINE s == Events!State
<1>1. eventListMap' = s.lists /\ txEventCache' = s.cache /\ awaitTxPromises' = s.awaiting /\ handled' = s.handled
  BY DEF Events!State, Events!subscriber
<1> HIDE DEF s
<1>2. StateOK(s)
  BY DEF s
<1> QED
  BY <1>1, <1>2, StateFollows

(* The state after unsubscribe().                                           *)
LEMMA ClearedIsOK ==
    ASSUME OptionsOK
    PROVE  StateOK(Events!Cleared)
<1> DEFINE s == Events!Cleared
<1>1. s.lists = <<>> /\ s.cache = <<>> /\ s.awaiting = {} /\ s.handled = {}
  BY DEF Events!Cleared, Events!State
<1> HIDE DEF s
<1>2. ListsOK(s.lists, AllSeen(s.handled))
  BY <1>1 DEF ListsOK
<1>3. CacheOK(s.cache)
  BY <1>1 DEF CacheOK, Events!IsInjective, OptionsOK
<1> QED
  BY <1>1, <1>2, <1>3 DEF StateOK, s

(* The ledger after a step in which nothing lands.                          *)
LEMMA LedgerStays ==
    ASSUME UNCHANGED <<slotOf, ledger>>, LedgerOK,
           history' = None \/ history'.before \in Landed \cup {None}
    PROVE  LedgerOK'
BY DEF LedgerOK, Landed

(* A reconnection counts one, and only a provider that had counted none     *)
(* comes to it; the failover clears the lists and makes the next provider.  *)
LEMMA ReconnectsKeep ==
    ASSUME Events!EventsAssumption, OptionsOK, UNCHANGED <<slotOf, options>>, StateOK(Events!State), ProvidersOK,
           NEW i \in DOMAIN providers, NEW p, ProviderOK(p), p.type = providers[i].type, p.type # "polling",
           p.reconnectAttempts = 0, "watchdog" \notin p.removing,
           p.type = "events-server" => p.isUnsubscribing \/ p.externalUnsubscribe,
           Events!Reconnects(i, p)
    PROVE  StateOK(Events!State)' /\ ProvidersOK'
<1> DEFINE data == IF p.type = "websocket" THEN FALSE ELSE p.receivingData
           attempts == p.reconnectAttempts + 1
           counted == [p EXCEPT !.receivingData = data, !.reconnectAttempts = attempts]
           alone == [counted EXCEPT !.reconnects = 0]
           handling == Events!Unsubscribed(alone, TRUE, "failover")
           next == Events!Fallback(currentProviderType)
<1>1. p \in ProviderType /\ CountsOnce(p) /\ FetchedOK(p) /\ (p.type = "events-server" => options.type = "events-server")
  BY DEF ProviderOK
<1>2. p.type \in {"polling", "websocket", "events-server"} /\ p.receivingData \in BOOLEAN
  BY <1>1, FieldsOfAProvider
<1>3. /\ counted \in ProviderType /\ counted.type = p.type /\ counted.reconnectAttempts = 1
      /\ counted.receivingData = data
      /\ counted.isUnsubscribing = p.isUnsubscribing /\ counted.externalUnsubscribe = p.externalUnsubscribe
      /\ counted.timer = p.timer /\ counted.sub = p.sub /\ counted.removing = p.removing
      /\ counted.mostRecentSeenTx = p.mostRecentSeenTx /\ counted.fetched = p.fetched
  <2>1. data \in BOOLEAN /\ attempts = 1
    <3>1. data \in BOOLEAN
      BY <1>2
    <3>2. attempts = 1
      OBVIOUS
    <3> QED
      BY <3>1, <3>2
  <2> HIDE DEF data, attempts
  <2> QED
    BY <1>1, <2>1 DEF ProviderType
<1> HIDE DEF counted
<1>4. ProviderOK(counted)
  <2>1. CountsOnce(counted)
    BY <1>1, <1>2, <1>3 DEF CountsOnce
  <2>2. FetchedOK(counted)
    BY <1>1, <1>3 DEF FetchedOK
  <2> QED
    BY <1>1, <1>3, <2>1, <2>2 DEF ProviderOK
<1>5. /\ alone \in ProviderType /\ alone.type = p.type /\ alone.reconnectAttempts = 1
      /\ alone.receivingData = counted.receivingData
      /\ alone.isUnsubscribing = p.isUnsubscribing /\ alone.externalUnsubscribe = p.externalUnsubscribe
      /\ alone.timer = p.timer /\ alone.sub = p.sub /\ alone.removing = p.removing
      /\ alone.mostRecentSeenTx = p.mostRecentSeenTx /\ alone.fetched = p.fetched
  BY <1>3 DEF ProviderType
<1> HIDE DEF alone
<1>6. ProviderOK(alone)
  <2>1. CountsOnce(alone)
    BY <1>1, <1>2, <1>3, <1>5 DEF CountsOnce
  <2>2. FetchedOK(alone)
    BY <1>1, <1>5 DEF FetchedOK
  <2> QED
    BY <1>1, <1>5, <2>1, <2>2 DEF ProviderOK
<1>7. ProviderOK(handling) /\ handling.type = p.type
  BY <1>5, <1>6, UnsubscribedKeeps
<1> HIDE DEF handling
<1>8. ProviderOK(Events!Subscribed(handling)) /\ Events!Subscribed(handling).type = p.type
  BY <1>7, SubscribedKeeps
<1>9. ProviderOK(Events!Subscribed(counted)) /\ Events!Subscribed(counted).type = p.type
  BY <1>3, <1>4, SubscribedKeeps
<1>10. next \in Events!ProviderType /\ next # "events-server"
  BY DEF Events!Fallback, Events!ProviderType
<1> HIDE DEF next
<1>11. ProviderOK(Events!Subscribed(Events!NewProvider(next))) /\ Events!Subscribed(Events!NewProvider(next)).type = next
  BY <1>10, FreshKeeps, SubscribedKeeps
<1>12. IF Events!FailsOver(counted)
       THEN /\ Events!Becomes(Events!Cleared)
            /\ IF handling.removing = {}
               THEN /\ currentProviderType' = next
                    /\ providers' = Append([providers EXCEPT ![i] = Events!Subscribed(handling)],
                                           Events!Subscribed(Events!NewProvider(next)))
               ELSE /\ providers' = [providers EXCEPT ![i] = Events!Subscribed(handling)]
                    /\ UNCHANGED currentProviderType
       ELSE /\ providers' = [providers EXCEPT ![i] = Events!Subscribed(counted)]
            /\ UNCHANGED <<Events!subscriber, currentProviderType>>
  BY DEF Events!Reconnects, counted, handling, next, alone
<1>13. CASE Events!FailsOver(counted) /\ handling.removing = {}
  BY <1>8, <1>11, <1>12, <1>13, ClearedIsOK, BecomesKeeps, NextFollows
<1>14. CASE Events!FailsOver(counted) /\ handling.removing # {}
  BY <1>8, <1>12, <1>14, ClearedIsOK, BecomesKeeps, OneFollows
<1>15. CASE ~Events!FailsOver(counted)
  BY <1>9, <1>12, <1>15, StateStays, OneFollows
<1> QED
  BY <1>13, <1>14, <1>15

(* A transaction lands in the newest slot or the next: the order of those   *)
(* that landed before stays, and with it every list.                        *)
LEMMA LandKeeps ==
    ASSUME Events!EventsAssumption, EventsIInv, NEW t \in Tx, Events!Land(t)
    PROVE  EventsIInv'
<1>1. options \in Options /\ LedgerOK /\ StateOK(Events!State) /\ ProvidersOK
  BY DEF EventsIInv
<1>2. OptionsOK
  BY <1>1, OptionsFit
<1>3. PICK slot \in {Events!SlotNow, Events!SlotNow + 1} :
          /\ slotOf[t] = 0 /\ slot =< MaxEventSlot
          /\ ledger' = Append(ledger, t) /\ slotOf' = [slotOf EXCEPT ![t] = slot]
          /\ UNCHANGED <<options, Events!subscriber, currentProviderType, providers, history>>
  BY DEF Events!Land
<1>4. /\ slotOf \in [Tx -> 0 .. MaxEventSlot] /\ ledger \in Seq(Tx) /\ Events!ToSet(ledger) = Landed
      /\ history # None => history.before \in Landed \cup {None}
      /\ MaxEventSlot \in Nat /\ \A u \in Tx : slotOf[u] \in Nat
  BY <1>1 DEF LedgerOK, Events!EventsAssumption
<1>5. Len(ledger) \in Nat /\ DOMAIN ledger = 1 .. Len(ledger)
  BY <1>4, LenProperties
<1>6. Events!SlotNow \in Nat /\ Events!SlotNow >= 1
  <2>1. CASE ledger = <<>>
    BY <2>1 DEF Events!SlotNow
  <2>2. CASE ledger # <<>>
    <3>1. Len(ledger) \in 1 .. Len(ledger)
      BY <1>4, <1>5, <2>2, EmptySeq
    <3>2. ledger[Len(ledger)] \in Landed
      BY <1>4, <1>5, <3>1 DEF Events!ToSet
    <3>3. Events!SlotNow = slotOf[ledger[Len(ledger)]]
      BY <2>2 DEF Events!SlotNow, Events!Last
    <3>4. ledger[Len(ledger)] \in Tx /\ slotOf[ledger[Len(ledger)]] # 0
      BY <3>2 DEF Landed
    <3> QED
      BY <1>4, <3>3, <3>4
  <2> QED
    BY <2>1, <2>2
<1>7. slot \in 1 .. MaxEventSlot
  BY <1>3, <1>4, <1>6
<1>8. /\ slotOf' \in [Tx -> 0 .. MaxEventSlot] /\ slotOf'[t] = slot
      /\ \A u \in Tx : u # t => slotOf'[u] = slotOf[u]
  BY <1>3, <1>4, <1>7
<1>9. Landed' = Landed \cup {t} /\ t \notin Landed
  BY <1>3, <1>7, <1>8 DEF Landed
<1>10. Known \subseteq Known' /\ \A e \in Known : e.tx \in Tx /\ e.tx # t /\ slotOf'[e.tx] = slotOf[e.tx]
  <2>1. ASSUME NEW e \in Known PROVE e.tx \in Tx /\ e.tx # t /\ slotOf'[e.tx] = slotOf[e.tx]
    BY <1>3, <1>8 DEF Known, Events!Event
  <2> QED
    BY <2>1 DEF Known
<1>11. LedgerOK'
  <2>1. ledger' \in Seq(Tx) /\ Events!ToSet(ledger)' = Landed'
    <3>1. /\ ledger' \in Seq(Tx) /\ Len(ledger') = Len(ledger) + 1
          /\ \A i \in 1 .. Len(ledger) : ledger'[i] = ledger[i]
          /\ ledger'[Len(ledger) + 1] = t
      BY <1>3, <1>4, AppendProperties
    <3>2. DOMAIN ledger' = 1 .. Len(ledger) + 1
      BY <3>1, LenProperties
    <3>3. \A i \in 1 .. Len(ledger) + 1 : i \in 1 .. Len(ledger) \/ i = Len(ledger) + 1
      BY <1>5
    <3>4. Len(ledger) + 1 \in 1 .. Len(ledger) + 1 /\ \A i \in 1 .. Len(ledger) : i \in 1 .. Len(ledger) + 1
      BY <1>5
    <3>5. {ledger'[i] : i \in 1 .. Len(ledger) + 1} = {ledger[i] : i \in 1 .. Len(ledger)} \cup {t}
      BY <3>1, <3>3, <3>4
    <3>6. Events!ToSet(ledger)' = {ledger'[i] : i \in 1 .. Len(ledger) + 1}
      BY <3>2 DEF Events!ToSet
    <3>7. Events!ToSet(ledger) = {ledger[i] : i \in 1 .. Len(ledger)}
      BY <1>5 DEF Events!ToSet
    <3> QED
      BY <1>4, <1>9, <3>1, <3>5, <3>6, <3>7
  <2> QED
    BY <1>3, <1>4, <1>8, <1>9, <2>1 DEF LedgerOK
<1>12. \A d, e \in Known : Events!Before(d, e)' <=> Events!Before(d, e)
  BY <1>3, <1>10, Zenon DEF Events!Before, Events!blockchainSortFn
<1>13. ASSUME NEW list, NEW all \in SUBSET Known, ListOK(list, all) PROVE ListOK(list, all)'
  <2>1. /\ list \in Seq(Known) /\ Len(list) \in Nat /\ DOMAIN list = 1 .. Len(list)
        /\ \A i \in 1 .. Len(list) : list[i] \in Known
    BY <1>13, LenProperties, ElementOfSeq DEF ListOK
  <2>2. list \in Seq(Known') /\ Len(list) =< options'.maxEventsPerType
    BY <1>3, <1>10, <1>13, <2>1 DEF ListOK
  <2>3. Sorted(list) => Sorted(list)'
    BY <1>12, <2>1 DEF Sorted
  <2>4. HoldsTheFirst(list, all) => HoldsTheFirst(list, all)'
    <3>1. SUFFICES ASSUME HoldsTheFirst(list, all) PROVE HoldsTheFirst(list, all)'
      OBVIOUS
    <3>2. /\ Events!IsInjective(list) /\ Events!ToSet(list) \subseteq all
          /\ Len(list) < options.maxEventsPerType => Events!ToSet(list) = all
          /\ options.orderBy = "blockchain" =>
                 \A e \in all \ Events!ToSet(list) : ~Events!Before(e, Events!Last(list))
      BY <3>1 DEF HoldsTheFirst
    <3>3. ASSUME options.orderBy = "blockchain", NEW e \in all \ Events!ToSet(list)
          PROVE  ~Events!Before(e, Events!Last(list))'
      <4>1. Len(list) \in 1 .. Len(list)
        BY <1>2, <2>1, <3>2, <3>3 DEF OptionsOK
      <4>2. Events!Last(list) \in Known
        BY <2>1, <4>1 DEF Events!Last
      <4> QED
        BY <1>12, <3>2, <3>3, <4>2
    <3> QED
      BY <1>3, <3>2, <3>3 DEF HoldsTheFirst
  <2>5. Once' <=> Once
    BY <1>3 DEF Once
  <2> QED
    BY <1>3, <1>13, <2>2, <2>3, <2>4, <2>5 DEF ListOK
<1>14. StateOK(Events!State)'
  <2>1. /\ ListsOK(eventListMap, AllSeen(handled)) /\ CacheOK(txEventCache)
        /\ awaitTxPromises \subseteq Tx /\ awaitTxPromises \cap Events!ToSet(txEventCache) = {}
        /\ handled \subseteq Landed /\ (Once => handled \subseteq Events!ToSet(txEventCache))
    BY <1>1 DEF StateOK, Events!State
  <2>2. AllSeen(handled) \subseteq Known
    <3>1. ASSUME NEW u \in handled, NEW e \in Seen(u) PROVE e \in Known
      <4>1. u \in Tx /\ slotOf[u] # 0
        BY <2>1 DEF Landed
      <4>2. Events!AllOf(u) \subseteq Nat
        BY <4>1, PlacesAreNumbers
      <4>3. PICK i \in Nat : e = [tx |-> u, index |-> i]
        BY <4>2 DEF Seen
      <4> QED
        BY <4>1, <4>3 DEF Known, Events!Event
    <3> QED
      BY <3>1 DEF AllSeen
  <2>3. ListsOK(eventListMap, AllSeen(handled))'
    <3>1. \A type : OfType(type, AllSeen(handled)) \in SUBSET Known
      BY <2>2 DEF OfType
    <3>2. \A type \in DOMAIN eventListMap : ListOK(eventListMap[type], OfType(type, AllSeen(handled)))'
      BY <1>3, <1>13, <2>1, <3>1 DEF ListsOK, Events!subscriber
    <3> QED
      BY <1>3, <2>1, <3>2 DEF ListsOK, Events!subscriber
  <2>4. CacheOK(txEventCache)' /\ (Once' <=> Once)
    BY <1>3, <2>1 DEF CacheOK, Once, Events!subscriber
  <2> QED
    BY <1>3, <1>9, <2>1, <2>3, <2>4 DEF StateOK, Events!State, Events!subscriber
<1>15. ProvidersOK'
  <2>1. ASSUME NEW p, ProviderOK(p) PROVE ProviderOK(p)'
    <3>1. FetchedOK(p)'
      BY <1>9, <2>1 DEF ProviderOK, FetchedOK
    <3>2. (p \in ProviderType)' /\ CountsOnce(p)'
      BY <2>1 DEF ProviderOK, ProviderType, CountsOnce
    <3> QED
      BY <1>3, <2>1, <3>1, <3>2 DEF ProviderOK
  <2>2. /\ providers \in Seq(ProviderType) /\ Len(providers) > 0
        /\ \A i \in 1 .. Len(providers) : ProviderOK(providers[i])
        /\ currentProviderType = providers[Len(providers)].type
    BY <1>1 DEF ProvidersOK
  <2>3. \A i \in 1 .. Len(providers) : ProviderOK(providers[i])'
    BY <1>3, <2>1, <2>2
  <2>4. ProviderType' = ProviderType
    BY DEF ProviderType
  <2> QED
    BY <1>3, <2>2, <2>3, <2>4 DEF ProvidersOK
<1> QED
  BY <1>1, <1>3, <1>11, <1>14, <1>15 DEF EventsIInv

(* An answer of getSignaturesForAddress is a finite sequence of landed      *)
(* transactions.                                                            *)
LEMMA PageIsLanded ==
    ASSUME Events!EventsAssumption, LedgerOK, NEW before \in Landed \cup {None}, NEW until \in Landed \cup {None},
           NEW limit, NEW page \in Events!fetchLogs(before, until, limit)
    PROVE  page \in Seq(Tx) /\ Len(page) \in Nat /\ \A n \in 1 .. Len(page) : page[n] \in Landed
<1> DEFINE last == IF before = None THEN Len(ledger) ELSE Events!Place(before) - 1
           first == IF until = None THEN 1 ELSE Events!Place(until) + 1
           filtered == Events!Page(before, until, limit) \ Failing
           k == Events!Cardinality(filtered)
<1>1. /\ ledger \in Seq(Tx) /\ Events!ToSet(ledger) = Landed /\ Len(ledger) \in Nat
      /\ DOMAIN ledger = 1 .. Len(ledger) /\ \A n \in 1 .. Len(ledger) : ledger[n] \in Landed
  <2>1. ledger \in Seq(Tx) /\ Events!ToSet(ledger) = Landed
    BY DEF LedgerOK
  <2>2. Len(ledger) \in Nat /\ DOMAIN ledger = 1 .. Len(ledger)
    BY <2>1, LenProperties
  <2> QED
    BY <2>1, <2>2 DEF Events!ToSet
<1>2. ASSUME NEW u \in Landed PROVE Events!Place(u) \in 1 .. Len(ledger)
  <2>1. \E n \in DOMAIN ledger : ledger[n] = u
    BY <1>1 DEF Events!ToSet
  <2> QED
    BY <1>1, <2>1 DEF Events!Place
<1>3. last \in Int /\ last =< Len(ledger) /\ first \in Int /\ first >= 1
  <2>1. last \in Int /\ last =< Len(ledger)
    BY <1>1, <1>2
  <2>2. first \in Int /\ first >= 1
    BY <1>1, <1>2
  <2> QED
    BY <2>1, <2>2
<1>4. Events!Page(before, until, limit) = {ledger[n] : n \in {n \in first .. last : n > last - limit}}
  BY DEF Events!Page
<1> HIDE DEF first, last
<1>5. filtered \subseteq Landed
  <2>1. \A n \in first .. last : n \in 1 .. Len(ledger)
    BY <1>1, <1>3
  <2> QED
    BY <1>1, <1>4, <2>1
<1>6. page \in [1 .. k -> filtered]
  BY DEF Events!fetchLogs
<1> HIDE DEF filtered
<1>7. k \in Nat
  <2>1. IsFiniteSet(Tx)
    BY SameFiniteSets, Zenon DEF Events!EventsAssumption
  <2>2. filtered \subseteq Tx
    BY <1>5 DEF Landed
  <2>3. Cardinality(filtered) \in Nat
    BY <2>1, <2>2, FS_Subset, FS_CardinalityType
  <2> QED
    BY <2>3, SameFiniteSets
<1> HIDE DEF k
<1>8. page \in Seq(filtered) /\ Len(page) = k /\ \A n \in 1 .. k : page[n] \in filtered
  BY <1>6, <1>7
<1>9. filtered \subseteq Tx
  BY <1>5 DEF Landed
<1> QED
  BY <1>5, <1>6, <1>7, <1>8, <1>9

-----------------------------------------------------------------------------
(* subscribe(), unsubscribe(), fetchPreviousTx() and awaitTx().             *)
LEMMA CallsKeep ==
    ASSUME Events!EventsAssumption, EventsIInv,
           \/ Events!subscribe \/ Events!unsubscribe \/ Events!fetchPreviousTx \/ \E t \in Tx : Events!awaitTx(t)
    PROVE  EventsIInv'
<1>1. options \in Options /\ LedgerOK /\ StateOK(Events!State) /\ ProvidersOK
  BY DEF EventsIInv
<1>2. OptionsOK
  BY <1>1, OptionsFit
<1>3. /\ providers \in Seq(ProviderType) /\ Len(providers) \in Nat /\ Len(providers) \in DOMAIN providers
      /\ \A i \in DOMAIN providers : ProviderOK(providers[i])
  <2>1. /\ providers \in Seq(ProviderType) /\ Len(providers) > 0
        /\ \A i \in 1 .. Len(providers) : ProviderOK(providers[i])
    BY <1>1 DEF ProvidersOK
  <2>2. Len(providers) \in Nat /\ DOMAIN providers = 1 .. Len(providers)
    BY <2>1, LenProperties
  <2> QED
    BY <2>1, <2>2
<1> DEFINE i == Len(providers)
           p == providers[i]
<1>4. ProviderOK(p) /\ p \in ProviderType
  BY <1>3 DEF ProviderOK
<1>5. /\ ListsOK(eventListMap, AllSeen(handled)) /\ CacheOK(txEventCache)
      /\ awaitTxPromises \subseteq Tx /\ awaitTxPromises \cap Events!ToSet(txEventCache) = {}
      /\ handled \subseteq Landed /\ (Once => handled \subseteq Events!ToSet(txEventCache))
  BY <1>1 DEF StateOK, Events!State
<1>6. CASE Events!subscribe
  <2> DEFINE heard == IF p.reconnects = 2 \/ p.type = "polling" \/ options.type = "polling"
                      THEN p.reconnects ELSE p.reconnects + 1
             listening == [p EXCEPT !.reconnects = heard]
             s == [lists |-> [type \in options.eventTypes |-> <<>>], cache |-> txEventCache,
                   awaiting |-> awaitTxPromises, last |-> lastSeenTxSig, handled |-> {}]
  <2>1. /\ eventListMap' = [type \in options.eventTypes |-> <<>>] /\ handled' = {}
        /\ providers' = [providers EXCEPT ![i] = Events!Subscribed(listening)]
        /\ UNCHANGED <<options, ledger, slotOf, txEventCache, awaitTxPromises, currentProviderType, history>>
    BY <1>6 DEF Events!subscribe, Events!logProvider, Events!Last1
  <2>2. ProviderOK(listening) /\ listening.type = p.type
    <3>1. heard \in Nat
      BY <1>4, FieldsOfAProvider
    <3> HIDE DEF heard
    <3>2. /\ listening \in ProviderType /\ listening.type = p.type
          /\ listening.reconnectAttempts = p.reconnectAttempts /\ listening.removing = p.removing
          /\ listening.receivingData = p.receivingData /\ listening.timer = p.timer /\ listening.sub = p.sub
          /\ listening.isUnsubscribing = p.isUnsubscribing
          /\ listening.externalUnsubscribe = p.externalUnsubscribe
          /\ listening.mostRecentSeenTx = p.mostRecentSeenTx /\ listening.fetched = p.fetched
      BY <1>4, <3>1 DEF ProviderType
    <3> HIDE DEF listening
    <3>3. CountsOnce(listening) /\ FetchedOK(listening)
      BY <1>4, <3>2 DEF ProviderOK, CountsOnce, FetchedOK
    <3> QED
      BY <1>4, <3>2, <3>3 DEF ProviderOK
  <2> HIDE DEF listening, heard
  <2>3. ProviderOK(Events!Subscribed(listening)) /\ Events!Subscribed(listening).type = p.type
    BY <2>2, SubscribedKeeps
  <2>4. ProvidersOK'
    <3> HIDE DEF i
    <3> QED
      BY <1>1, <1>3, <2>1, <2>3, OneFollows DEF i
  <2>5. StateOK(s)
    <3>1. AllSeen({}) = {} /\ \A type : OfType(type, {}) = {}
      BY DEF AllSeen, OfType
    <3>2. ListOK(<<>>, {})
      <4>1. Sorted(<<>>)
        BY DEF Sorted
      <4>2. HoldsTheFirst(<<>>, {})
        BY DEF HoldsTheFirst, Events!IsInjective, Events!ToSet
      <4>3. <<>> \in Seq(Known) /\ Len(<<>>) =< options.maxEventsPerType
        BY <1>2 DEF OptionsOK
      <4> QED
        BY <4>1, <4>2, <4>3 DEF ListOK
    <3>3. ListsOK(s.lists, AllSeen(s.handled))
      BY <3>1, <3>2 DEF ListsOK
    <3> QED
      BY <1>5, <3>3 DEF StateOK
  <2>6. StateOK(Events!State)'
    <3>1. eventListMap' = s.lists /\ txEventCache' = s.cache /\ awaitTxPromises' = s.awaiting /\ handled' = s.handled
      BY <2>1
    <3> HIDE DEF s
    <3> QED
      BY <2>1, <2>5, <3>1, StateFollows
  <2>7. LedgerOK'
    <3>1. history' = None \/ history'.before \in Landed \cup {None}
      BY <1>1, <2>1 DEF LedgerOK
    <3> QED
      BY <1>1, <2>1, <3>1, LedgerStays
  <2> QED
    BY <1>1, <2>1, <2>4, <2>6, <2>7 DEF EventsIInv
<1>7. CASE Events!unsubscribe
  <2> DEFINE q == Events!Unsubscribed(p, TRUE, "caller")
  <2>1. /\ Events!Becomes(Events!Cleared) /\ providers' = [providers EXCEPT ![i] = q]
        /\ UNCHANGED <<options, ledger, slotOf, currentProviderType, history>>
    BY <1>7 DEF Events!unsubscribe, Events!logProvider, Events!Last1
  <2>2. ProviderOK(q) /\ q.type = p.type
    BY <1>4, UnsubscribedKeeps
  <2> HIDE DEF q
  <2>3. ProvidersOK'
    <3> HIDE DEF i
    <3> QED
      BY <1>1, <1>3, <2>1, <2>2, OneFollows DEF i
  <2>4. StateOK(Events!State)'
    BY <1>2, <2>1, ClearedIsOK, BecomesKeeps
  <2>5. LedgerOK'
    <3>1. history' = None \/ history'.before \in Landed \cup {None}
      BY <1>1, <2>1 DEF LedgerOK
    <3> QED
      BY <1>1, <2>1, <3>1, LedgerStays
  <2> QED
    BY <1>1, <2>1, <2>3, <2>4, <2>5 DEF EventsIInv
<1>8. CASE Events!fetchPreviousTx
  <2>1. /\ history' = [before |-> None, fetched |-> 0]
        /\ UNCHANGED <<options, ledger, slotOf, Events!subscriber, currentProviderType, providers>>
    BY <1>8 DEF Events!fetchPreviousTx
  <2>2. LedgerOK'
    BY <1>1, <2>1, LedgerStays
  <2>3. StateOK(Events!State)'
    BY <1>1, <2>1, StateStays
  <2>4. ProvidersOK'
    BY <1>1, <2>1, ProvidersStay
  <2> QED
    BY <1>1, <2>1, <2>2, <2>3, <2>4 DEF EventsIInv
<1>9. ASSUME NEW t \in Tx, Events!awaitTx(t) PROVE EventsIInv'
  <2> DEFINE s == [lists |-> eventListMap, cache |-> txEventCache,
                   awaiting |-> awaitTxPromises \cup {t}, last |-> lastSeenTxSig, handled |-> handled]
  <2>1. /\ awaitTxPromises' = awaitTxPromises \cup {t} /\ ~Events!Contains(txEventCache, t)
        /\ UNCHANGED <<options, ledger, slotOf, eventListMap, txEventCache, handled,
                       currentProviderType, providers, history>>
    BY <1>9 DEF Events!awaitTx
  <2>2. t \notin Events!ToSet(txEventCache)
    <3>1. DOMAIN txEventCache = 1 .. Len(txEventCache)
      BY <1>5, LenProperties DEF CacheOK
    <3> QED
      BY <2>1, <3>1 DEF Events!Contains, Events!ToSet
  <2>3. StateOK(s)
    BY <1>5, <2>2 DEF StateOK
  <2>4. StateOK(Events!State)'
    <3>1. eventListMap' = s.lists /\ txEventCache' = s.cache /\ awaitTxPromises' = s.awaiting /\ handled' = s.handled
      BY <2>1
    <3> HIDE DEF s
    <3> QED
      BY <2>1, <2>3, <3>1, StateFollows
  <2>5. LedgerOK'
    <3>1. history' = None \/ history'.before \in Landed \cup {None}
      BY <1>1, <2>1 DEF LedgerOK
    <3> QED
      BY <1>1, <2>1, <3>1, LedgerStays
  <2>6. ProvidersOK'
    BY <1>1, <2>1, ProvidersStay
  <2> QED
    BY <1>1, <2>1, <2>4, <2>5, <2>6 DEF EventsIInv
<1> QED
  BY <1>6, <1>7, <1>8, <1>9

(* A stream delivers logs.  Only a provider that is the events server sends *)
(* single events, and there is one only if the options ask for it.          *)
LEMMA DeliveredKeeps ==
    ASSUME Events!EventsAssumption, EventsIInv, NEW i \in DOMAIN providers, NEW t \in Tx,
           NEW index \in {0} \cup Events!AllOf(t), Events!Delivered(i, t, index)
    PROVE  EventsIInv'
<1> DEFINE p == providers[i]
           alive == Events!Alive(p)
           q == [alive EXCEPT !.got = alive.got \cup {<<t, index>>}]
           server == currentProviderType = "events-server"
<1>1. options \in Options /\ LedgerOK /\ StateOK(Events!State) /\ ProvidersOK
  BY DEF EventsIInv
<1>2. OptionsOK
  BY <1>1, OptionsFit
<1>3. /\ ProviderOK(p) /\ p \in ProviderType /\ CountsOnce(p) /\ FetchedOK(p)
      /\ p.type = "events-server" => options.type = "events-server"
      /\ server => options.type = "events-server"
  <2>1. /\ providers \in Seq(ProviderType) /\ Len(providers) > 0
        /\ \A j \in 1 .. Len(providers) : ProviderOK(providers[j])
        /\ currentProviderType = providers[Len(providers)].type
    BY <1>1 DEF ProvidersOK
  <2>2. Len(providers) \in 1 .. Len(providers) /\ DOMAIN providers = 1 .. Len(providers)
    BY <2>1, LenProperties
  <2> QED
    BY <2>1, <2>2 DEF ProviderOK
<1> HIDE DEF p
<1>4. /\ p.type # "polling" /\ p.sub /\ slotOf[t] # 0
      /\ IF p.type = "events-server" THEN index \in Events!AllOf(t) ELSE index = 0
      /\ providers' = [providers EXCEPT ![i] = q]
      /\ IF t \in Failing THEN UNCHANGED Events!subscriber
         ELSE Events!Becomes(Events!handleTxLogs(Events!State, t, index, server))
      /\ UNCHANGED <<options, ledger, slotOf, currentProviderType, history>>
  BY DEF Events!Delivered, p
<1>5. index \in Nat /\ t \in Landed
  BY <1>4, PlacesAreNumbers DEF Landed
<1>6. ProviderOK(alive) /\ alive.type = p.type
  <2>1. CASE p.isUnsubscribing
    BY <1>3, <2>1 DEF Events!Alive
  <2>2. CASE ~p.isUnsubscribing
    <3>1. alive = [p EXCEPT !.receivingData = TRUE, !.timer = TRUE, !.reconnectAttempts = 0]
      BY <2>2 DEF Events!Alive
    <3> HIDE DEF alive
    <3>2. /\ alive \in ProviderType /\ alive.type = p.type /\ alive.reconnectAttempts = 0
          /\ alive.removing = p.removing /\ alive.sub = p.sub
          /\ alive.mostRecentSeenTx = p.mostRecentSeenTx /\ alive.fetched = p.fetched
      BY <1>3, <3>1 DEF ProviderType
    <3>3. CountsOnce(alive) /\ FetchedOK(alive)
      BY <1>3, <1>4, <3>2 DEF CountsOnce, FetchedOK
    <3> QED
      BY <1>3, <3>2, <3>3 DEF ProviderOK
  <2> QED
    BY <2>1, <2>2
<1> HIDE DEF alive
<1>7. ProviderOK(q) /\ q.type = p.type
  <2>1. alive \in ProviderType /\ CountsOnce(alive) /\ FetchedOK(alive)
    BY <1>6 DEF ProviderOK
  <2>2. alive.got \cup {<<t, index>>} \in SUBSET (Tx \X Nat)
    BY <1>5, <2>1, FieldsOfAProvider
  <2>3. /\ q \in ProviderType /\ q.type = alive.type /\ q.reconnectAttempts = alive.reconnectAttempts
        /\ q.removing = alive.removing /\ q.receivingData = alive.receivingData /\ q.timer = alive.timer
        /\ q.sub = alive.sub /\ q.isUnsubscribing = alive.isUnsubscribing
        /\ q.externalUnsubscribe = alive.externalUnsubscribe
        /\ q.mostRecentSeenTx = alive.mostRecentSeenTx /\ q.fetched = alive.fetched
    BY <2>1, <2>2 DEF ProviderType
  <2> HIDE DEF q
  <2>4. CountsOnce(q) /\ FetchedOK(q)
    BY <2>1, <2>3 DEF CountsOnce, FetchedOK
  <2> QED
    BY <1>3, <1>6, <2>3, <2>4 DEF ProviderOK
<1> HIDE DEF q
<1>8. ProvidersOK'
  BY <1>1, <1>4, <1>7, OneFollows DEF p
<1>9. StateOK(Events!State)'
  <2>1. CASE t \in Failing
    BY <1>1, <1>4, <2>1, StateStays
  <2>2. CASE t \notin Failing
    <3>1. Once => index = 0 /\ ~server
      BY <1>3, <1>4 DEF Once
    <3>2. server \in BOOLEAN
      OBVIOUS
    <3> HIDE DEF server
    <3>3. StateOK(Events!handleTxLogs(Events!State, t, index, server))
      BY <1>1, <1>2, <1>5, <3>1, <3>2, HandleKeeps
    <3> QED
      BY <1>4, <2>2, <3>3, BecomesKeeps
  <2> QED
    BY <2>1, <2>2
<1>10. LedgerOK'
  <2>1. history' = None \/ history'.before \in Landed \cup {None}
    BY <1>1, <1>4 DEF LedgerOK
  <2> QED
    BY <1>1, <1>4, <2>1, LedgerStays
<1> QED
  BY <1>1, <1>4, <1>8, <1>9, <1>10 DEF EventsIInv

(* The watchdog fires.                                                      *)
LEMMA WatchdogKeeps ==
    ASSUME Events!EventsAssumption, EventsIInv, NEW i \in DOMAIN providers, Events!WatchdogFires(i)
    PROVE  EventsIInv'
<1> DEFINE p0 == providers[i]
           p == [p0 EXCEPT !.timer = FALSE]
           closed == Events!Unsubscribed(p, FALSE, "watchdog")
<1>1. options \in Options /\ LedgerOK /\ StateOK(Events!State) /\ ProvidersOK
  BY DEF EventsIInv
<1>2. OptionsOK
  BY <1>1, OptionsFit
<1>3. /\ p0 \in ProviderType /\ CountsOnce(p0) /\ FetchedOK(p0)
      /\ p0.type = "events-server" => options.type = "events-server"
  <2>1. providers \in Seq(ProviderType) /\ \A j \in 1 .. Len(providers) : ProviderOK(providers[j])
    BY <1>1 DEF ProvidersOK
  <2>2. DOMAIN providers = 1 .. Len(providers)
    BY <2>1, LenProperties
  <2> QED
    BY <2>1, <2>2 DEF ProviderOK
<1> HIDE DEF p0
<1>4. /\ p0.timer
      /\ CASE \/ p.isUnsubscribing \/ p.externalUnsubscribe
              \/ p.type = "websocket" /\ ~p.receivingData ->
                  providers' = [providers EXCEPT ![i] = p] /\ UNCHANGED <<Events!subscriber, currentProviderType>>
           [] ~p.isUnsubscribing /\ ~p.externalUnsubscribe /\ p.type = "events-server" ->
                  Events!Reconnects(i, closed)
           [] OTHER -> /\ providers' = [providers EXCEPT ![i] = closed]
                       /\ UNCHANGED <<Events!subscriber, currentProviderType>>
      /\ UNCHANGED <<options, ledger, slotOf, history>>
  BY DEF Events!WatchdogFires, p0
<1>5. /\ p \in ProviderType /\ p.type = p0.type /\ p.reconnectAttempts = p0.reconnectAttempts
      /\ p.removing = p0.removing /\ p.receivingData = p0.receivingData /\ ~p.timer
      /\ p.sub = p0.sub /\ p.isUnsubscribing = p0.isUnsubscribing
      /\ p.externalUnsubscribe = p0.externalUnsubscribe
      /\ p.mostRecentSeenTx = p0.mostRecentSeenTx /\ p.fetched = p0.fetched
  BY <1>3 DEF ProviderType
<1> HIDE DEF p
<1>6. ProviderOK(p)
  <2>1. CountsOnce(p) /\ FetchedOK(p)
    BY <1>3, <1>5 DEF CountsOnce, FetchedOK
  <2> QED
    BY <1>3, <1>5, <2>1 DEF ProviderOK
<1>7. p.type \in {"polling", "websocket", "events-server"}
  BY <1>5, FieldsOfAProvider
<1>8. LedgerOK'
  <2>1. history' = None \/ history'.before \in Landed \cup {None}
    BY <1>1, <1>4 DEF LedgerOK
  <2> QED
    BY <1>1, <1>4, <2>1, LedgerStays
<1>9. CASE p.isUnsubscribing \/ p.externalUnsubscribe \/ (p.type = "websocket" /\ ~p.receivingData)
  <2>1. providers' = [providers EXCEPT ![i] = p] /\ UNCHANGED <<Events!subscriber, currentProviderType>>
    <3> HIDE DEF closed
    <3> QED
      BY <1>4, <1>7, <1>9
  <2>2. ProvidersOK'
    BY <1>1, <1>4, <1>5, <1>6, <2>1, OneFollows DEF p0
  <2>3. StateOK(Events!State)'
    BY <1>1, <1>4, <2>1, StateStays
  <2> QED
    BY <1>1, <1>4, <1>8, <2>2, <2>3 DEF EventsIInv
<1>10. CASE ~(p.isUnsubscribing \/ p.externalUnsubscribe \/ (p.type = "websocket" /\ ~p.receivingData))
  <2>1. p.reconnectAttempts = 0 /\ p.type # "polling"
    BY <1>3, <1>4, <1>5, <1>7, <1>10 DEF CountsOnce
  <2>2. /\ ProviderOK(closed) /\ closed.type = p.type /\ closed.reconnectAttempts = 0
        /\ closed.type = "websocket" \/ closed.removing = {}
        /\ closed.type = "events-server" => closed.isUnsubscribing = p.sub
    BY <1>6, <2>1, UnsubscribedKeeps
  <2> HIDE DEF closed
  <2>3. CASE p.type = "events-server"
    <3>1. Events!Reconnects(i, closed)
      BY <1>4, <1>10, <2>3
    <3>2. closed.isUnsubscribing
      BY <1>3, <1>4, <1>5, <2>2, <2>3 DEF CountsOnce
    <3>3. "watchdog" \notin closed.removing
      BY <2>2, <2>3
    <3>4. closed.type = providers[i].type
      BY <1>5, <2>2 DEF p0
    <3>5. StateOK(Events!State)' /\ ProvidersOK'
      BY <1>1, <1>2, <1>4, <2>1, <2>2, <3>1, <3>2, <3>3, <3>4, ReconnectsKeep
    <3> QED
      BY <1>1, <1>4, <1>8, <3>5 DEF EventsIInv
  <2>4. CASE p.type = "websocket"
    <3>1. providers' = [providers EXCEPT ![i] = closed] /\ UNCHANGED <<Events!subscriber, currentProviderType>>
      BY <1>4, <1>10, <2>4
    <3>2. ProvidersOK'
      BY <1>1, <1>4, <1>5, <2>2, <3>1, OneFollows DEF p0
    <3>3. StateOK(Events!State)'
      BY <1>1, <1>4, <3>1, StateStays
    <3> QED
      BY <1>1, <1>4, <1>8, <3>2, <3>3 DEF EventsIInv
  <2> QED
    BY <1>7, <2>1, <2>3, <2>4
<1> QED
  BY <1>9, <1>10

(* The websocket listener is removed, or is not, and who waited goes on.    *)
LEMMA RemovalKeeps ==
    ASSUME Events!EventsAssumption, EventsIInv, NEW i \in DOMAIN providers,
           NEW who \in {"watchdog", "caller", "failover"}, Events!ListenerRemoved(i, who)
    PROVE  EventsIInv'
<1> DEFINE p == providers[i]
           next == Events!Fallback(currentProviderType)
<1>1. options \in Options /\ LedgerOK /\ StateOK(Events!State) /\ ProvidersOK
  BY DEF EventsIInv
<1>2. OptionsOK
  BY <1>1, OptionsFit
<1>3. /\ p \in ProviderType /\ CountsOnce(p) /\ FetchedOK(p)
      /\ p.type = "events-server" => options.type = "events-server"
  <2>1. providers \in Seq(ProviderType) /\ \A j \in 1 .. Len(providers) : ProviderOK(providers[j])
    BY <1>1 DEF ProvidersOK
  <2>2. DOMAIN providers = 1 .. Len(providers)
    BY <2>1, LenProperties
  <2> QED
    BY <2>1, <2>2 DEF ProviderOK
<1> HIDE DEF p
<1>4. PICK ok \in BOOLEAN :
          LET done == [p EXCEPT !.removing = p.removing \ {who}, !.isUnsubscribing = FALSE, !.sub = p.sub /\ ~ok]
          IN /\ who \in p.removing
             /\ CASE who = "watchdog" -> Events!Reconnects(i, done)
                  [] who = "failover" ->
                         /\ currentProviderType' = next
                         /\ providers' = Append([providers EXCEPT ![i] = done],
                                                Events!Subscribed(Events!NewProvider(next)))
                         /\ UNCHANGED Events!subscriber
                  [] who = "caller" ->
                         /\ providers' = [providers EXCEPT ![i] = done]
                         /\ UNCHANGED <<Events!subscriber, currentProviderType>>
             /\ UNCHANGED <<options, ledger, slotOf, history>>
  BY DEF Events!ListenerRemoved, p
<1> DEFINE listens == p.sub /\ ~ok
           done == [p EXCEPT !.removing = p.removing \ {who}, !.isUnsubscribing = FALSE, !.sub = listens]
<1>5. /\ done \in ProviderType /\ done.type = p.type /\ done.removing = p.removing \ {who}
      /\ done.reconnectAttempts = p.reconnectAttempts /\ done.receivingData = p.receivingData
      /\ done.mostRecentSeenTx = p.mostRecentSeenTx /\ done.fetched = p.fetched
  <2>1. listens \in BOOLEAN
    BY <1>3, FieldsOfAProvider
  <2>2. p.removing \ {who} \in SUBSET {"watchdog", "caller", "failover"}
    BY <1>3, FieldsOfAProvider
  <2> HIDE DEF listens
  <2> QED
    BY <1>3, <2>1, <2>2 DEF ProviderType
<1>6. /\ who \in p.removing
      /\ who = "watchdog" => Events!Reconnects(i, done)
      /\ who = "failover" => /\ currentProviderType' = next
                             /\ providers' = Append([providers EXCEPT ![i] = done],
                                                    Events!Subscribed(Events!NewProvider(next)))
                             /\ UNCHANGED Events!subscriber
      /\ who = "caller" => /\ providers' = [providers EXCEPT ![i] = done]
                           /\ UNCHANGED <<Events!subscriber, currentProviderType>>
      /\ UNCHANGED <<options, ledger, slotOf, history>>
  BY <1>4
<1> HIDE DEF done, next
<1>7. p.type = "websocket" /\ (who = "watchdog" => p.reconnectAttempts = 0)
  BY <1>3, <1>6 DEF CountsOnce
<1>8. ProviderOK(done)
  <2>1. CountsOnce(done) /\ FetchedOK(done)
    BY <1>3, <1>5, <1>7 DEF CountsOnce, FetchedOK
  <2> QED
    BY <1>5, <1>7, <2>1 DEF ProviderOK
<1>9. LedgerOK'
  <2>1. history' = None \/ history'.before \in Landed \cup {None}
    BY <1>1, <1>6 DEF LedgerOK
  <2> QED
    BY <1>1, <1>6, <2>1, LedgerStays
<1>10. done.type = providers[i].type
  BY <1>5 DEF p
<1>11. CASE who = "watchdog"
  <2>1. "watchdog" \notin done.removing /\ done.reconnectAttempts = 0 /\ done.type = "websocket"
    BY <1>5, <1>7, <1>11
  <2>2. StateOK(Events!State)' /\ ProvidersOK'
    BY <1>1, <1>2, <1>6, <1>8, <1>10, <1>11, <2>1, ReconnectsKeep
  <2> QED
    BY <1>1, <1>6, <1>9, <2>2 DEF EventsIInv
<1>12. CASE who = "failover"
  <2>1. next \in Events!ProviderType /\ next # "events-server"
    BY DEF Events!Fallback, Events!ProviderType, next
  <2>2. ProviderOK(Events!Subscribed(Events!NewProvider(next))) /\ Events!Subscribed(Events!NewProvider(next)).type = next
    BY <2>1, FreshKeeps, SubscribedKeeps
  <2>3. ProvidersOK'
    BY <1>1, <1>6, <1>8, <1>12, <2>2, NextFollows
  <2>4. StateOK(Events!State)'
    BY <1>1, <1>6, <1>12, StateStays
  <2> QED
    BY <1>1, <1>6, <1>9, <2>3, <2>4 DEF EventsIInv
<1>13. CASE who = "caller"
  <2>1. ProvidersOK'
    BY <1>1, <1>6, <1>8, <1>10, <1>13, OneFollows
  <2>2. StateOK(Events!State)'
    BY <1>1, <1>6, <1>13, StateStays
  <2> QED
    BY <1>1, <1>6, <1>9, <2>1, <2>2 DEF EventsIInv
<1> QED
  BY <1>11, <1>12, <1>13

(* The poller asks, is answered, or is not.                                 *)
LEMMA PollsKeep ==
    ASSUME Events!EventsAssumption, EventsIInv, NEW i \in DOMAIN providers,
           Events!PollStarts(i) \/ Events!PollAnswered(i) \/ Events!PollFails(i)
    PROVE  EventsIInv'
<1> DEFINE p == providers[i]
<1>1. options \in Options /\ LedgerOK /\ StateOK(Events!State) /\ ProvidersOK
  BY DEF EventsIInv
<1>2. OptionsOK
  BY <1>1, OptionsFit
<1>3. /\ p \in ProviderType /\ CountsOnce(p) /\ FetchedOK(p) /\ providers \in Seq(ProviderType)
      /\ p.type = "events-server" => options.type = "events-server"
  <2>1. providers \in Seq(ProviderType) /\ \A j \in 1 .. Len(providers) : ProviderOK(providers[j])
    BY <1>1 DEF ProvidersOK
  <2>2. DOMAIN providers = 1 .. Len(providers)
    BY <2>1, LenProperties
  <2> QED
    BY <2>1, <2>2 DEF ProviderOK
<1>4. ASSUME UNCHANGED <<options, ledger, slotOf, history>> PROVE LedgerOK'
  <2>1. history' = None \/ history'.before \in Landed \cup {None}
    BY <1>1, <1>4 DEF LedgerOK
  <2> QED
    BY <1>1, <1>4, <2>1, LedgerStays
(* Only what the poller has under way and has seen last changes.            *)
<1>5. ASSUME NEW q \in ProviderType, q.type = p.type, q.reconnectAttempts = p.reconnectAttempts,
             q.removing = p.removing, q.receivingData = p.receivingData, q.timer = p.timer, q.sub = p.sub,
             q.isUnsubscribing = p.isUnsubscribing, q.externalUnsubscribe = p.externalUnsubscribe,
             q.mostRecentSeenTx \in Landed \cup {None}, Events!ToSet(q.fetched) \subseteq Landed,
             providers' = [providers EXCEPT ![i] = q],
             UNCHANGED <<options, ledger, slotOf, currentProviderType, history>>
      PROVE  ProvidersOK'
  <2>1. CountsOnce(q)
    BY <1>3, <1>5 DEF CountsOnce
  <2>2. ProviderOK(q)
    BY <1>3, <1>5, <2>1 DEF ProviderOK, FetchedOK
  <2> QED
    BY <1>1, <1>5, <2>2, OneFollows
<1>6. p.fetched \in Seq(Tx) /\ p.mostRecentSeenTx \in Landed \cup {None} /\ Events!ToSet(p.fetched) \subseteq Landed
  BY <1>3, FieldsOfAProvider DEF FetchedOK
<1> HIDE DEF p
<1>7. CASE Events!PollStarts(i)
  <2>1. PICK page \in Events!fetchLogs(None, p.mostRecentSeenTx, IF p.firstFetch THEN 1 ELSE Events!UNLIMITED) :
            /\ providers' = [providers EXCEPT ![i].mutex = TRUE, ![i].fetched = page]
            /\ UNCHANGED <<options, ledger, slotOf, Events!subscriber, currentProviderType, history>>
    BY <1>7 DEF Events!PollStarts, p
  <2> DEFINE q == [p EXCEPT !.mutex = TRUE, !.fetched = page]
  <2>2. page \in Seq(Tx) /\ \A n \in 1 .. Len(page) : page[n] \in Landed
    BY <1>1, <1>6, PageIsLanded
  <2>3. Events!ToSet(page) \subseteq Landed
    BY <2>2, LenProperties DEF Events!ToSet
  <2>4. providers' = [providers EXCEPT ![i] = q]
    BY <2>1 DEF p
  <2>5. /\ q \in ProviderType /\ q.type = p.type /\ q.reconnectAttempts = p.reconnectAttempts
        /\ q.removing = p.removing /\ q.receivingData = p.receivingData /\ q.timer = p.timer /\ q.sub = p.sub
        /\ q.isUnsubscribing = p.isUnsubscribing /\ q.externalUnsubscribe = p.externalUnsubscribe
        /\ q.mostRecentSeenTx = p.mostRecentSeenTx /\ q.fetched = page
    BY <1>3, <2>2 DEF ProviderType
  <2> HIDE DEF q
  <2>6. ProvidersOK'
    BY <1>5, <1>6, <2>1, <2>3, <2>4, <2>5
  <2>7. StateOK(Events!State)'
    BY <1>1, <2>1, StateStays
  <2> QED
    BY <1>1, <1>4, <2>1, <2>6, <2>7 DEF EventsIInv
<1>8. CASE Events!PollAnswered(i)
  <2> DEFINE none == <<>>
             idle == [p EXCEPT !.mutex = FALSE, !.fetched = none]
             advanced == [idle EXCEPT !.firstFetch = FALSE, !.mostRecentSeenTx = Events!Last(p.fetched)]
             q == IF p.fetched = <<>> THEN idle ELSE advanced
  <2>1. PICK missing \in SUBSET Events!ToSet(p.fetched) :
            /\ providers' = [providers EXCEPT ![i] = q]
            /\ Events!Becomes(Events!AllHandled(Events!State, p.fetched, missing))
            /\ UNCHANGED <<options, ledger, slotOf, currentProviderType, history>>
    BY <1>8 DEF Events!PollAnswered, p
  <2>2. Len(p.fetched) \in Nat /\ \A n \in 1 .. Len(p.fetched) : p.fetched[n] \in Landed
    BY <1>6, LenProperties DEF Events!ToSet
  <2>3. p.fetched # <<>> => Events!Last(p.fetched) \in Landed
    BY <1>6, <2>2, EmptySeq DEF Events!Last
  <2>4. /\ idle \in ProviderType /\ idle.type = p.type /\ idle.reconnectAttempts = p.reconnectAttempts
        /\ idle.removing = p.removing /\ idle.receivingData = p.receivingData /\ idle.timer = p.timer
        /\ idle.sub = p.sub
        /\ idle.isUnsubscribing = p.isUnsubscribing /\ idle.externalUnsubscribe = p.externalUnsubscribe
        /\ idle.mostRecentSeenTx = p.mostRecentSeenTx /\ idle.fetched = <<>>
    <3>1. none \in Seq(Tx)
      OBVIOUS
    <3>2. none = <<>>
      OBVIOUS
    <3> HIDE DEF none
    <3>3. /\ idle \in ProviderType /\ idle.type = p.type /\ idle.reconnectAttempts = p.reconnectAttempts
          /\ idle.removing = p.removing /\ idle.receivingData = p.receivingData /\ idle.timer = p.timer
          /\ idle.sub = p.sub
          /\ idle.isUnsubscribing = p.isUnsubscribing /\ idle.externalUnsubscribe = p.externalUnsubscribe
          /\ idle.mostRecentSeenTx = p.mostRecentSeenTx /\ idle.fetched = none
      BY <1>3, <3>1 DEF ProviderType
    <3> QED
      BY <3>2, <3>3
  <2>5. Landed \subseteq Tx
    BY DEF Landed
  <2> HIDE DEF idle
  <2>6. p.fetched # <<>> =>
            /\ advanced \in ProviderType /\ advanced.type = idle.type
            /\ advanced.reconnectAttempts = idle.reconnectAttempts
            /\ advanced.removing = idle.removing /\ advanced.receivingData = idle.receivingData /\ advanced.timer = idle.timer
            /\ advanced.sub = idle.sub /\ advanced.isUnsubscribing = idle.isUnsubscribing
            /\ advanced.externalUnsubscribe = idle.externalUnsubscribe
            /\ advanced.mostRecentSeenTx = Events!Last(p.fetched) /\ advanced.fetched = <<>>
    BY <2>3, <2>4, <2>5 DEF ProviderType
  <2> HIDE DEF advanced
  <2>7. Events!ToSet(<<>>) = {}
    BY DEF Events!ToSet
  <2>8. ProvidersOK'
    <3>1. CASE p.fetched = <<>>
      BY <1>5, <1>6, <2>1, <2>4, <2>7, <3>1
    <3>2. CASE p.fetched # <<>>
      BY <1>5, <1>6, <2>1, <2>3, <2>4, <2>6, <2>7, <3>2
    <3> QED
      BY <3>1, <3>2
  <2>9. StateOK(Events!State)'
    <3>1. StateOK(Events!AllHandled(Events!State, p.fetched, missing))
      BY <1>1, <1>2, <2>2, AllHandledKeeps
    <3> QED
      BY <2>1, <3>1, BecomesKeeps
  <2> QED
    BY <1>1, <1>4, <2>1, <2>8, <2>9 DEF EventsIInv
<1>9. CASE Events!PollFails(i)
  <2> DEFINE none == <<>>
             q == [p EXCEPT !.mutex = FALSE, !.fetched = none]
  <2>1. /\ providers' = [providers EXCEPT ![i].mutex = FALSE, ![i].fetched = <<>>]
        /\ UNCHANGED <<options, ledger, slotOf, Events!subscriber, currentProviderType, history>>
    BY <1>9 DEF Events!PollFails
  <2>2. providers' = [providers EXCEPT ![i] = q]
    BY <2>1 DEF p
  <2>3. /\ q \in ProviderType /\ q.type = p.type /\ q.reconnectAttempts = p.reconnectAttempts
        /\ q.removing = p.removing /\ q.receivingData = p.receivingData /\ q.timer = p.timer /\ q.sub = p.sub
        /\ q.isUnsubscribing = p.isUnsubscribing /\ q.externalUnsubscribe = p.externalUnsubscribe
        /\ q.mostRecentSeenTx = p.mostRecentSeenTx /\ q.fetched = <<>>
    <3>1. none \in Seq(Tx)
      OBVIOUS
    <3>2. none = <<>>
      OBVIOUS
    <3> HIDE DEF none
    <3>3. /\ q \in ProviderType /\ q.type = p.type /\ q.reconnectAttempts = p.reconnectAttempts
          /\ q.removing = p.removing /\ q.receivingData = p.receivingData /\ q.timer = p.timer /\ q.sub = p.sub
          /\ q.isUnsubscribing = p.isUnsubscribing /\ q.externalUnsubscribe = p.externalUnsubscribe
          /\ q.mostRecentSeenTx = p.mostRecentSeenTx /\ q.fetched = none
      BY <1>3, <3>1 DEF ProviderType
    <3> QED
      BY <3>2, <3>3
  <2> HIDE DEF q
  <2>4. Events!ToSet(<<>>) = {}
    BY DEF Events!ToSet
  <2>5. ProvidersOK'
    BY <1>5, <1>6, <2>1, <2>2, <2>3, <2>4
  <2>6. StateOK(Events!State)'
    BY <1>1, <2>1, StateStays
  <2> QED
    BY <1>1, <1>4, <2>1, <2>5, <2>6 DEF EventsIInv
<1> QED
  BY <1>7, <1>8, <1>9

(* A page of fetchPreviousTx comes.                                         *)
LEMMA HistoryKeeps ==
    ASSUME Events!EventsAssumption, EventsIInv, Events!HistoryFetched
    PROVE  EventsIInv'
<1>1. options \in Options /\ LedgerOK /\ StateOK(Events!State) /\ ProvidersOK
  BY DEF EventsIInv
<1>2. OptionsOK
  BY <1>1, OptionsFit
<1>3. history # None /\ history.before \in Landed \cup {None}
  BY <1>1 DEF Events!HistoryFetched, LedgerOK
<1>4. PICK page \in Events!fetchLogs(history.before, None, HistoryPage) :
          /\ Events!Becomes(Events!AllHandled(Events!State, page, {}))
          /\ history' = IF page = <<>> \/ history.fetched + Len(page) >= options.maxTx THEN None
                        ELSE [before |-> Events!Head(page), fetched |-> history.fetched + Len(page)]
          /\ UNCHANGED <<options, ledger, slotOf, currentProviderType, providers>>
  BY DEF Events!HistoryFetched
<1>5. page \in Seq(Tx) /\ Len(page) \in Nat /\ \A n \in 1 .. Len(page) : page[n] \in Landed
  BY <1>1, <1>3, PageIsLanded
<1>6. history' = None \/ history'.before \in Landed \cup {None}
  <2>1. CASE page = <<>>
    BY <1>4, <2>1
  <2>2. CASE page # <<>>
    <3>1. page[1] \in Landed /\ Head(page) = page[1]
      BY <1>5, <2>2, EmptySeq
    <3> QED
      BY <1>4, <2>2, <3>1
  <2> QED
    BY <2>1, <2>2
<1>7. LedgerOK'
  BY <1>1, <1>4, <1>6, LedgerStays
<1>8. StateOK(Events!State)'
  <2>1. StateOK(Events!AllHandled(Events!State, page, {}))
    BY <1>1, <1>2, <1>5, AllHandledKeeps
  <2> QED
    BY <1>4, <2>1, BecomesKeeps
<1>9. ProvidersOK'
  BY <1>1, <1>4, ProvidersStay
<1> QED
  BY <1>1, <1>4, <1>7, <1>8, <1>9 DEF EventsIInv

(* The invariant holds at first, ...                                        *)
LEMMA EventsBegin ==
    ASSUME Events!EventsAssumption, Events!Init
    PROVE  EventsIInv
<1>1. /\ options \in Options /\ ledger = <<>> /\ slotOf = [t \in Tx |-> 0]
      /\ eventListMap = <<>> /\ txEventCache = <<>> /\ awaitTxPromises = {} /\ handled = {}
      /\ currentProviderType = options.type /\ providers = <<Events!NewProvider(options.type)>>
      /\ history = None
  BY DEF Events!Init
<1>2. Landed = {}
  BY <1>1 DEF Landed
<1>3. LedgerOK
  <2>1. slotOf \in [Tx -> 0 .. MaxEventSlot]
    <3>1. MaxEventSlot \in Nat
      BY DEF Events!EventsAssumption
    <3> QED
      BY <1>1, <3>1
  <2>2. ledger \in Seq(Tx) /\ Events!ToSet(ledger) = Landed
    BY <1>1, <1>2 DEF Events!ToSet
  <2> QED
    BY <1>1, <2>1, <2>2 DEF LedgerOK
<1>4. OptionsOK /\ options.type \in Events!ProviderType
  BY <1>1, <1>3, OptionsFit
<1>5. StateOK(Events!State)
  <2>1. StateOK(Events!Cleared)
    BY <1>4, ClearedIsOK
  <2>2. /\ Events!State.lists = <<>> /\ Events!State.cache = <<>>
        /\ Events!State.awaiting = {} /\ Events!State.handled = {}
    BY <1>1 DEF Events!State
  <2>3. /\ Events!Cleared.lists = <<>> /\ Events!Cleared.cache = <<>>
        /\ Events!Cleared.awaiting = {} /\ Events!Cleared.handled = {}
    BY DEF Events!Cleared, Events!State
  <2> QED
    BY <2>1, <2>2, <2>3 DEF StateOK
<1>6. ProvidersOK
  <2> DEFINE p == Events!NewProvider(options.type)
  <2>1. ProviderOK(p) /\ p.type = options.type /\ p \in ProviderType
    BY <1>4, FreshKeeps DEF ProviderOK
  <2> HIDE DEF p
  <2>2. providers = <<p>>
    BY <1>1 DEF p
  <2> QED
    BY <1>1, <2>1, <2>2 DEF ProvidersOK
<1> QED
  BY <1>1, <1>3, <1>5, <1>6 DEF EventsIInv

(* ... every step keeps it ...                                              *)
LEMMA EventsGoOn ==
    ASSUME Events!EventsAssumption, EventsIInv, [Events!Next]_(Events!vars)
    PROVE  EventsIInv'
<1>1. CASE UNCHANGED Events!vars
  <2>1. /\ UNCHANGED <<options, ledger, slotOf, currentProviderType, providers, history>>
        /\ UNCHANGED Events!subscriber
    BY <1>1 DEF Events!vars
  <2>2. options \in Options /\ LedgerOK /\ StateOK(Events!State) /\ ProvidersOK
    BY DEF EventsIInv
  <2>3. history' = None \/ history'.before \in Landed \cup {None}
    BY <2>1, <2>2 DEF LedgerOK
  <2> QED
    BY <2>1, <2>2, <2>3, LedgerStays, StateStays, ProvidersStay DEF EventsIInv
<1>2. ASSUME NEW t \in Tx, Events!Land(t) PROVE EventsIInv'
  BY <1>2, LandKeeps
<1>3. ASSUME NEW t \in Tx, Events!awaitTx(t) PROVE EventsIInv'
  BY <1>3, CallsKeep
<1>4. ASSUME Events!subscribe \/ Events!unsubscribe \/ Events!fetchPreviousTx PROVE EventsIInv'
  BY <1>4, CallsKeep
<1>5. ASSUME Events!HistoryFetched PROVE EventsIInv'
  BY <1>5, HistoryKeeps
<1>6. ASSUME NEW i \in DOMAIN providers, NEW t \in Tx, NEW index \in {0} \cup Events!AllOf(t),
             Events!Delivered(i, t, index)
      PROVE  EventsIInv'
  BY <1>6, DeliveredKeeps
<1>7. ASSUME NEW i \in DOMAIN providers, Events!WatchdogFires(i) PROVE EventsIInv'
  BY <1>7, WatchdogKeeps
<1>8. ASSUME NEW i \in DOMAIN providers, NEW who \in {"watchdog", "caller", "failover"},
             Events!ListenerRemoved(i, who)
      PROVE  EventsIInv'
  BY <1>8, RemovalKeeps
<1>9. ASSUME NEW i \in DOMAIN providers, Events!PollStarts(i) \/ Events!PollAnswered(i) \/ Events!PollFails(i)
      PROVE  EventsIInv'
  BY <1>9, PollsKeep
<1> QED
  BY <1>1, <1>2, <1>3, <1>4, <1>5, <1>6, <1>7, <1>8, <1>9 DEF Events!Next

(* ... and it says what EventsAreKept says.                                 *)
LEMMA InvariantKeepsEvents ==
    ASSUME Events!EventsAssumption, EventsIInv
    PROVE  EventsAreKept
<1>1. options \in Options /\ LedgerOK /\ StateOK(Events!State) /\ ProvidersOK
  BY DEF EventsIInv
<1>2. OptionsOK
  BY <1>1, OptionsFit
<1>3. /\ ListsOK(eventListMap, AllSeen(handled)) /\ CacheOK(txEventCache)
      /\ awaitTxPromises \subseteq Tx /\ awaitTxPromises \cap Events!ToSet(txEventCache) = {}
  BY <1>1 DEF StateOK, Events!State
<1>4. Events!TypeOK
  <2>1. currentProviderType = Events!logProvider.type
    BY <1>1 DEF ProvidersOK, Events!logProvider, Events!Last1
  <2>2. slotOf \in [Tx -> 0 .. MaxEventSlot] /\ Events!ToSet(ledger) = {t \in Tx : slotOf[t] # 0}
    BY <1>1 DEF LedgerOK, Landed
  <2>3. DOMAIN eventListMap \in SUBSET options.eventTypes /\ Len(txEventCache) =< options.maxTx
    BY <1>3 DEF ListsOK, CacheOK
  <2> QED
    BY <1>3, <2>1, <2>2, <2>3 DEF Events!TypeOK
<1>5. Events!ListsHoldTheFirst
  <2>1. SUFFICES
          ASSUME NEW type \in DOMAIN eventListMap
          PROVE  LET list == eventListMap[type]
                     all == {e \in UNION {{[tx |-> t, index |-> i] : i \in Events!AllOf(t)} : t \in handled} :
                                Events!TypeOf(e) = type}
                 IN /\ Len(list) =< options.maxEventsPerType
                    /\ options.orderBy = "blockchain" =>
                           \A i, j \in DOMAIN list : i < j => ~Events!Before(list[j], list[i])
                    /\ options.type # "events-server" /\ options.maxTx >= Events!Cardinality(Tx) =>
                           /\ Events!IsInjective(list) /\ Events!ToSet(list) \subseteq all
                           /\ Len(list) < options.maxEventsPerType => Events!ToSet(list) = all
                           /\ options.orderBy = "blockchain" =>
                                  \A e \in all \ Events!ToSet(list) : ~Events!Before(e, Events!Last(list))
    BY DEF Events!ListsHoldTheFirst
  <2> DEFINE list == eventListMap[type]
             all == OfType(type, AllSeen(handled))
  <2>2. ListOK(list, all)
    BY <1>3 DEF ListsOK
  <2>3. all = {e \in UNION {{[tx |-> t, index |-> i] : i \in Events!AllOf(t)} : t \in handled} :
                  Events!TypeOf(e) = type}
    BY DEF OfType, AllSeen, Seen
  <2>4. Once <=> options.type # "events-server" /\ options.maxTx >= Events!Cardinality(Tx)
    BY SameFiniteSets DEF Once
  <2> HIDE DEF list, all
  <2>5. /\ Len(list) =< options.maxEventsPerType
        /\ options.orderBy = "blockchain" => \A i, j \in DOMAIN list : i < j => ~Events!Before(list[j], list[i])
        /\ Once => /\ Events!IsInjective(list) /\ Events!ToSet(list) \subseteq all
                   /\ Len(list) < options.maxEventsPerType => Events!ToSet(list) = all
                   /\ options.orderBy = "blockchain" =>
                          \A e \in all \ Events!ToSet(list) : ~Events!Before(e, Events!Last(list))
    BY <2>2, Zenon DEF ListOK, Sorted, HoldsTheFirst
  <2> QED
    BY <2>3, <2>4, <2>5, Zenon DEF list
<1>6. Events!AwaitedAreNew
  BY <1>3 DEF Events!AwaitedAreNew
<1>7. Events!OneReconnection
  <2>1. providers \in Seq(ProviderType) /\ \A i \in 1 .. Len(providers) : ProviderOK(providers[i])
    BY <1>1 DEF ProvidersOK
  <2>2. DOMAIN providers = 1 .. Len(providers)
    BY <2>1, LenProperties
  <2> QED
    BY <2>1, <2>2 DEF Events!OneReconnection, ProviderOK, CountsOnce
<1> QED
  BY <1>4, <1>5, <1>6, <1>7 DEF EventsAreKept, Events!EventsAreKept

(* For any transactions, events, options and callers: a list of events is   *)
(* in order, within its limit and, unless the events server repeats itself  *)
(* or the cache is too small, exactly the first of all that was handled; no *)
(* promise waits for a transaction that was seen; and no provider counts    *)
(* two attempts to reconnect.                                               *)
THEOREM EventsStayKept ==
    ASSUME Events!EventsAssumption
    PROVE  Events!Spec => []EventsAreKept
<1>1. Events!Init => EventsIInv
  BY EventsBegin
<1>2. EventsIInv /\ [Events!Next]_(Events!vars) => EventsIInv'
  BY EventsGoOn
<1>3. EventsIInv => EventsAreKept
  BY InvariantKeepsEvents
<1> QED
  BY <1>1, <1>2, <1>3, PTL DEF Events!Spec
=============================================================================
