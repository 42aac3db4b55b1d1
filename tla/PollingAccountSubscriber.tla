---------------------- MODULE PollingAccountSubscriber ----------------------
(***************************************************************************)
(* accounts/polling*Subscriber.ts for one account: the copy that a shared   *)
(* loader, the subscriber's own fetches and its caller write, each with the *)
(* slot of the data.  The subscribers for users, their stats, insurance     *)
(* stakes, the high leverage config, vaults (and depositors), tokens and    *)
(* oracles differ in how they load and in whether they compare slots.       *)
(*                                                                         *)
(* The loader is summarised by its buffer and callbacks (BulkAccountLoader  *)
(* has its details).  Slot 0 is an undefined slot.                          *)
(***************************************************************************)
EXTENDS Naturals, Sequences

CONSTANTS
    Kinds,              \* subset of Kind to consider
    Call,               \* bound: ids of subscribe() calls, which are those of their callbacks
    None,
    Shared,             \* TRUE: another subscriber polls the account, too
    MaxSlot,            \* bound: blocks of the chain
    MaxFailures,        \* bound: answers that are errors
    CarefulCallers      \* TRUE: subscribe() is called when no other subscribe() runs

Kind == {"user", "userStats", "insuranceFundStake", "highLeverageModeConfig", "vault", "token", "oracle"}

PollingAssumption ==
    /\ Kinds \subseteq Kind /\ None \notin Nat \cup Call \cup [data : Nat \cup {None}, slot : Nat]
    /\ {Shared, CarefulCallers} \subseteq BOOLEAN
    /\ MaxSlot \in Nat \ {0} /\ MaxFailures \in Nat

VARIABLES
    chain,              \* blocks: the block that last wrote the account, None: no account
    kind,
    copy,               \* data and slot, or None
    buffer,             \* bufferAndSlotMap's entry for the account, or None
    callbacks,          \* calls whose callback the loader has
    callbackId,
    isSubscribed,
    calls,              \* where each subscribe() call is
    fetching,           \* TRUE: a caller's fetch() waits for its answer
    failures

vars == <<chain, kind, copy, buffer, callbacks, callbackId, isSubscribed, calls, fetching, failures>>

Now == Len(chain)
At(slot) == [data |-> chain[slot], slot |-> slot]

(* Kinds that take data from the caller of subscribe(), that fetch by       *)
(* themselves, through the loader, and that compare slots.                  *)
TakesData   == kind \in {"user", "userStats", "insuranceFundStake", "highLeverageModeConfig"}
FetchesOnce == kind \in {"user", "userStats", "highLeverageModeConfig"}
ReadsLoader == kind \in {"vault", "token", "oracle"}
ComparesSlots == kind \notin {"token", "oracle"}
HasUpdateData == kind \in {"user", "insuranceFundStake", "highLeverageModeConfig", "vault"}

TypeOK ==
    /\ chain \in Seq({None} \cup 1 .. MaxSlot)
    /\ kind \in Kinds
    /\ copy \in {None} \cup [data : 1 .. MaxSlot, slot : 0 .. MaxSlot]
    /\ buffer \in {None} \cup [data : {None} \cup 1 .. MaxSlot, slot : 1 .. MaxSlot]
    /\ callbacks \subseteq Call
    /\ callbackId \in {None} \cup Call
    /\ {isSubscribed, fetching} \subseteq BOOLEAN
    /\ calls \in [Call -> {"new", "adding", "fetching", "done"}]
    /\ failures \in Nat

Init ==
    /\ kind \in Kinds
    /\ \E first \in IF ComparesSlots THEN {None, 1} ELSE {1} : chain = <<first>>
    /\ copy = None
    /\ buffer = None
    /\ callbacks = {}
    /\ callbackId = None
    /\ isSubscribed = FALSE /\ fetching = FALSE
    /\ calls = [c \in Call |-> "new"]
    /\ failures = 0

(* A block writes the account, or not.                                      *)
NewBlock ==
    /\ Now < MaxSlot
    /\ \E data \in {chain[Now], Now + 1} : chain' = Append(chain, data)
    /\ UNCHANGED <<kind, copy, buffer, callbacks, callbackId, isSubscribed, calls, fetching, failures>>

-----------------------------------------------------------------------------
(* The loader stores the first answer for an account, and later ones with   *)
(* other data of a slot that is not older; then it calls the callbacks.     *)
Polled == Shared \/ callbacks # {}

(* Mutant: only the first answer is stored.                                 *)
IsNewsOnce(slot) == buffer = None

IsNews(slot) == IF buffer = None THEN TRUE
                ELSE buffer.slot <= slot /\ chain[slot] \notin {None, buffer.data}

(* Mutant: the slots are not compared.                                      *)
ReceivedAlways(slot) == IF chain[slot] = None THEN copy ELSE At(slot)

(* The callback of the subscriber.                                          *)
Received(slot) ==
    IF chain[slot] = None \/ (ComparesSlots /\ copy # None /\ copy.slot > slot) THEN copy ELSE At(slot)

Loads(slot) ==
    IF IsNews(slot)
    THEN /\ buffer' = At(slot)
         /\ copy' = IF callbacks = {} THEN copy ELSE Received(slot)
    ELSE UNCHANGED <<buffer, copy>>

LoaderLoads(slot) ==
    /\ Polled
    /\ Loads(slot)
    /\ UNCHANGED <<chain, kind, callbacks, callbackId, isSubscribed, calls, fetching, failures>>

-----------------------------------------------------------------------------
(* subscribe().                                                             *)

(* Mutant: addToAccountLoader registers even if there is a callback.        *)
AddsCallbackAgain(c) == callbacks \cup {c}

(* addToAccountLoader looks for a callback id, registers, and knows its id  *)
(* when addAccount has returned.                                            *)
AddsCallback(c) == IF callbackId = None THEN callbacks \cup {c} ELSE callbacks

Begins(c, given) ==
    /\ copy' = given
    /\ callbacks' = AddsCallback(c)
    /\ calls' = [calls EXCEPT ![c] = "adding"]

subscribe(c) ==
    /\ calls[c] = "new" /\ ~isSubscribed
    /\ CarefulCallers => \A d \in Call : calls[d] \notin {"adding", "fetching"}
    /\ \/ Begins(c, copy)
       \/ \E slot \in 1 .. Now : TakesData /\ chain[slot] # None /\ Begins(c, [data |-> chain[slot], slot |-> 0])
    /\ UNCHANGED <<chain, kind, buffer, callbackId, isSubscribed, fetching, failures>>

MustFetch == (copy = None /\ (FetchesOnce \/ kind = "vault")) \/ kind \in {"token", "oracle"}
addAccountReturns(c) ==
    /\ calls[c] = "adding"
    /\ callbackId' = IF c \in callbacks THEN c ELSE callbackId
    /\ calls' = [calls EXCEPT ![c] = IF MustFetch THEN "fetching" ELSE "done"]
    /\ isSubscribed' = (isSubscribed \/ ~MustFetch)
    /\ UNCHANGED <<chain, kind, copy, buffer, callbacks, fetching, failures>>

Returns(c, subscribed) ==
    /\ calls' = [calls EXCEPT ![c] = "done"]
    /\ isSubscribed' = (isSubscribed \/ subscribed)

(* fetch() with a call of its own: a newer slot is stored.                  *)
Fetched(slot) ==
    IF chain[slot] # None /\ slot > (IF copy = None THEN 0 ELSE copy.slot) THEN At(slot) ELSE copy

(* fetch() through the loader: it loads, and takes what the loader has; the *)
(* subscribers for tokens and oracles do not compare slots.                 *)
TakesBuffer ==
    IF ComparesSlots
    THEN IF buffer'.data # None /\ buffer'.slot > (IF copy = None THEN 0 ELSE copy.slot)
         THEN buffer' ELSE copy
    ELSE buffer'

fetchReturns(c, slot) ==
    /\ calls[c] = "fetching"
    /\ IF ReadsLoader
       THEN /\ buffer' = IF IsNews(slot) THEN At(slot) ELSE buffer
            /\ copy' = TakesBuffer
       ELSE copy' = Fetched(slot) /\ UNCHANGED buffer
    /\ Returns(c, TRUE)
    /\ UNCHANGED <<chain, kind, callbacks, callbackId, fetching, failures>>

(* The fetch fails: the error is swallowed, but without a buffer the        *)
(* subscribers for tokens and oracles throw, and keep their callback.       *)
fetchFails(c) ==
    /\ calls[c] = "fetching" /\ failures < MaxFailures
    /\ failures' = failures + 1
    /\ IF ReadsLoader /\ buffer # None
       THEN copy' = IF ComparesSlots /\ copy # None THEN copy ELSE IF buffer.data = None THEN copy ELSE buffer
       ELSE UNCHANGED copy
    /\ Returns(c, ComparesSlots \/ buffer # None)
    /\ UNCHANGED <<chain, kind, buffer, callbacks, callbackId, fetching>>

-----------------------------------------------------------------------------
(* Other calls.                                                             *)

fetch ==
    /\ TakesData /\ isSubscribed /\ ~fetching
    /\ fetching' = TRUE
    /\ UNCHANGED <<chain, kind, copy, buffer, callbacks, callbackId, isSubscribed, calls, failures>>
fetchAnswered(slot) ==
    /\ fetching
    /\ fetching' = FALSE
    /\ copy' = Fetched(slot)
    /\ UNCHANGED <<chain, kind, buffer, callbacks, callbackId, isSubscribed, calls, failures>>

updateData(slot) ==
    /\ HasUpdateData /\ isSubscribed /\ chain[slot] # None
    /\ copy' = IF copy = None THEN At(slot)
               ELSE IF copy.slot # 0 /\ copy.slot < slot THEN At(slot) ELSE copy
    /\ UNCHANGED <<chain, kind, buffer, callbacks, callbackId, isSubscribed, calls, fetching, failures>>

(* removeAccount drops the buffer with the last callback.                   *)
unsubscribe ==
    /\ isSubscribed
    /\ isSubscribed' = FALSE
    /\ callbackId' = None
    /\ callbacks' = callbacks \ {callbackId}
    /\ buffer' = IF callbacks' = {} /\ ~Shared THEN None ELSE buffer
    /\ UNCHANGED <<chain, kind, copy, calls, fetching, failures>>

Next ==
    \/ NewBlock
    \/ \E slot \in 1 .. Now : LoaderLoads(slot) \/ fetchAnswered(slot) \/ updateData(slot)
    \/ \E c \in Call : subscribe(c) \/ addAccountReturns(c) \/ fetchFails(c)
    \/ \E c \in Call, slot \in 1 .. Now : fetchReturns(c, slot)
    \/ fetch \/ unsubscribe

(* The loader polls and is at last answered from the newest block.          *)
Fairness == SF_vars(LoaderLoads(Now))

Spec == Init /\ [][Next]_vars /\ Fairness

-----------------------------------------------------------------------------
(* Whatever the order of the loader's callbacks, fetches and data from the  *)
(* caller, the copy is the account at its slot.                             *)
CopyIsTheChains == copy # None /\ copy.slot # 0 => copy.data = chain[copy.slot]

(* ... and, where slots are compared, it does not go back, but to data that *)
(* a caller gives to subscribe() without a slot.                            *)
CopyMovesForward ==
    [][ComparesSlots /\ copy # None /\ copy' # None =>
           copy'.slot >= copy.slot \/ copy'.slot = 0]_vars

(* A subscribe() of a token or an oracle that failed: it kept its callback, *)
(* and unsubscribe() returns early as long as nobody is subscribed.         *)
SubscribeThrew == kind \in {"token", "oracle"} /\ failures > 0

(* When callers wait for each other, each callback in the loader is known,  *)
(* so that the next subscribe() registers none and unsubscribe() removes    *)
(* it, or belongs to a subscribe() under way; and there is one only while   *)
(* somebody is subscribed or subscribes, for else unsubscribe() does not    *)
(* reach it.  The exception to the last: subscribe() of a token or an       *)
(* oracle that threw (pollingTokenAccountSubscriber.ts:89,                  *)
(* pollingOracleAccountSubscriber.ts:96).                                   *)
CallbacksAreOwned ==
    /\ callbacks \subseteq {callbackId} \cup {c \in Call : calls[c] = "adding"}
    /\ callbacks = {} \/ isSubscribed \/ SubscribeThrew
          \/ (\E c \in Call : calls[c] \in {"adding", "fetching"})

(* The copy of a subscriber that has the account for itself comes to be the *)
(* account on chain.  (If the loader already holds the newest data for      *)
(* another subscriber, no callback brings it to this one.)                  *)
CopyFollowsTheChain ==
    ~Shared /\ isSubscribed ~>
        ~isSubscribed \/ chain[Now] = None \/ (copy # None /\ copy.data = chain[Now])
=============================================================================
