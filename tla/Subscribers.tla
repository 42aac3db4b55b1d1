----------------------------- MODULE Subscribers -----------------------------
(***************************************************************************)
(* What keeps a client up to date.  The copy of one account: a subscriber   *)
(* with a websocket and a watchdog (this module's own variables), and one   *)
(* that polls (Polling); a client has subscribers of one kind or of the     *)
(* other, and they share nothing but the chain's slots.  The events of a    *)
(* program: a subscriber that has providers of three kinds (Events).        *)
(***************************************************************************)
EXTENDS WebSocketAccountSubscriber

CONSTANTS Kinds, Call, Shared, MaxFailures, CarefulCallers
VARIABLES chain, kind, copy, buffer, callbacks, callbackId, isSubscribed, calls, asked, failures

Polling == INSTANCE PollingAccountSubscriber WITH fetching <- asked

pollingVars == <<chain, kind, copy, buffer, callbacks, callbackId, isSubscribed, calls, asked, failures>>

CONSTANTS Tx, EventType, EventsOf, Failing, Options, MaxEventSlot, MaxSubscribes, HistoryPage
VARIABLES
    options, ledger, slotOf, eventListMap, txEventCache, awaitTxPromises, lastSeenTxSig,
    currentProviderType, providers, history, handled, skipped, subscribes, lost

Events == INSTANCE EventSubscriber WITH
    Configs <- Options, MaxSlot <- MaxEventSlot, config <- options, failures <- lost

eventVars == <<options, ledger, slotOf, eventListMap, txEventCache, awaitTxPromises, lastSeenTxSig,
    currentProviderType, providers, history, handled, skipped, subscribes, lost>>

(* What is kept never goes back to an older slot, neither what the          *)
(* websocket subscriber reports nor the copy of one that polls.             *)
NothingMovesBack == OnChangeMovesForward /\ Polling!CopyMovesForward

(* The copy of one that polls is the account at its slot, and each callback *)
(* that the loader has is one that unsubscribe() removes, but after a       *)
(* subscribe() of a token or an oracle that threw.                          *)
CallbacksAreOwned == Polling!TypeOK /\ Polling!CopyIsTheChains /\ Polling!CallbacksAreOwned

(* The lists of events are in order, complete up to their limits, and no    *)
(* promise waits for a transaction that was seen.                           *)
EventsAreKept == Events!EventsAreKept
=============================================================================
