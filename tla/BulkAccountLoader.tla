-------------------------- MODULE BulkAccountLoader --------------------------
(***************************************************************************)
(* accounts/bulkAccountLoader.ts: one poller shared by every polling        *)
(* subscriber.  It keeps a registry of accounts with their callbacks, asks  *)
(* the RPC node for all of them in batches of requests, stores the newest   *)
(* buffer of each account and hands changed buffers to the callbacks.       *)
(*                                                                         *)
(* The JavaScript event loop runs a synchronous block without interruption, *)
(* so an action is the code between two awaits.  The order in which the     *)
(* registry Map is iterated is abstracted to an arbitrary enumeration.      *)
(***************************************************************************)
EXTENDS Integers, FiniteSets

CONSTANTS
    Key,                \* account public keys
    Callback,           \* callback ids (uuids): each is registered at most once
    ErrorCallback,      \* ids of error callbacks
    Value,              \* account buffers
    None,               \* JavaScript's undefined; also a closed account
    Load,               \* identities of load() calls that may coexist
    MaxSlot,            \* bound: the last slot of the chain
    Ledger,             \* Ledger[k][s]: buffer of account k on chain at slot s
    CHUNK_SIZE,         \* GET_MULTIPLE_ACCOUNTS_CHUNK_SIZE: accounts per request
    BATCH_SIZE,         \* requests per RPC batch (10 in the code)
    CallbacksMayThrow,  \* TRUE: an account callback may throw
    SlowLoads           \* TRUE: more than a minute may pass during a load

Slot == 1 .. MaxSlot
Entry == [slot : Slot, buffer : Value \cup {None}]

ASSUME SetsAssumption == IsFiniteSet(Key) /\ IsFiniteSet(Load)
ASSUME NoneAssumption == None \notin Value /\ None \notin Load /\ None \notin Entry
ASSUME SlotAssumption == MaxSlot \in Nat \ {0}
ASSUME LedgerAssumption == Ledger \in [Key -> [Slot -> Value \cup {None}]]
ASSUME ChunkAssumption == CHUNK_SIZE \in Nat \ {0} /\ BATCH_SIZE \in Nat \ {0}
ASSUME SwitchAssumption == CallbacksMayThrow \in BOOLEAN /\ SlowLoads \in BOOLEAN

VARIABLES
    head,               \* the chain's newest slot
    accountsToLoad,     \* keys of the registry
    callbacks,          \* callbacks[k]: ids in the callback map of k's entry
    bufferAndSlotMap,   \* stored entry of each key, or None
    errorCallbacks,
    mostRecentSlot,
    intervalId,         \* TRUE while an interval is installed
    pollingFrequency,   \* 0: polling disabled, 1: some positive period
    loadPromise,        \* the load whose promise is current, or None
    loadPromiseResolver,\* the load whose promise the resolver settles, or None
    minutePassed,       \* more than oneMinute since the last load started
    settled,            \* loads whose promise is resolved
    job,                \* what each load() call is doing
    pc,                 \* progress of the addAccount call that made an id
    awaiting,           \* the promise that call awaits, or None
    delivered           \* history: entry last handed to each callback, or None

registry == <<accountsToLoad, callbacks, bufferAndSlotMap, errorCallbacks>>
timer    == <<intervalId, pollingFrequency>>
promise  == <<loadPromise, loadPromiseResolver, minutePassed, settled>>
waiters  == <<pc, awaiting>>
vars     == <<head, registry, mostRecentSlot, timer, promise, job, waiters, delivered>>

(* A load() call: keys are the accounts in the order they are sent, asked   *)
(* the positions the request really names, live the keys whose AccountToLoad *)
(* object is still the registered one, pending the batches in flight.       *)
Phase == {"ended", "running", "failed"}
Positions == 1 .. Cardinality(Key)
Job == [phase : Phase, keys : UNION {[1 .. n -> Key] : n \in 0 .. Cardinality(Key)},
        asked : SUBSET Positions, live : SUBSET Key, pending : SUBSET Nat]
NoJob == [phase |-> "ended", keys |-> [i \in 1 .. 0 |-> CHOOSE k \in Key : TRUE],
          asked |-> {}, live |-> {}, pending |-> {}]

Init ==
    /\ head = 1
    /\ accountsToLoad = {}
    /\ callbacks = [k \in Key |-> {}]
    /\ bufferAndSlotMap = [k \in Key |-> None]
    /\ errorCallbacks = {}
    /\ mostRecentSlot = 0
    /\ intervalId = FALSE
    /\ pollingFrequency \in {0, 1}
    /\ loadPromise = None
    /\ loadPromiseResolver = None
    /\ minutePassed = FALSE
    /\ settled = {}
    /\ job = [l \in Load |-> NoJob]
    /\ pc = [c \in Callback |-> "idle"]
    /\ awaiting = [c \in Callback |-> None]
    /\ delivered = [c \in Callback |-> None]

-----------------------------------------------------------------------------
(* The chain and the clock.                                                 *)

AdvanceChain ==
    /\ head < MaxSlot
    /\ head' = head + 1
    /\ UNCHANGED <<registry, mostRecentSlot, timer, promise, job, waiters, delivered>>

MinutePasses ==
    /\ SlowLoads
    /\ loadPromise # None
    /\ minutePassed' = TRUE
    /\ UNCHANGED <<head, registry, mostRecentSlot, timer, loadPromise,
                   loadPromiseResolver, settled, job, waiters, delivered>>

-----------------------------------------------------------------------------
(* The registry.                                                            *)

(* startPolling: the interval is kept if there is one, and none is          *)
(* installed when the frequency is 0.                                       *)
PollingAfterStart(frequency, installed) == installed \/ frequency # 0

(* Mutant: the size is tested before the callback is deleted.               *)
EmptiedTooLate(k, c) == callbacks[k] = {}

(* Deleting callback c leaves key k's entry without callbacks.              *)
Emptied(k, c) == callbacks[k] = {c}

AddAccount(k, c) ==
    /\ pc[c] = "idle"
    /\ callbacks' = [callbacks EXCEPT ![k] = @ \cup {c}]
    /\ accountsToLoad' = accountsToLoad \cup {k}
    /\ intervalId' = IF accountsToLoad = {}
                     THEN PollingAfterStart(pollingFrequency, intervalId)
                     ELSE intervalId
    /\ pc' = [pc EXCEPT ![c] = "adding"]
    /\ awaiting' = [awaiting EXCEPT ![c] = loadPromise]
    /\ UNCHANGED <<head, bufferAndSlotMap, errorCallbacks, mostRecentSlot,
                   pollingFrequency, promise, job, delivered>>

(* The code after `await this.loadPromise`: the id reaches the caller.      *)
AddAccountReturns(c) ==
    /\ pc[c] = "adding"
    /\ awaiting[c] = None \/ awaiting[c] \in settled
    /\ pc' = [pc EXCEPT ![c] = "added"]
    /\ awaiting' = [awaiting EXCEPT ![c] = None]
    /\ UNCHANGED <<head, registry, mostRecentSlot, timer, promise, job, delivered>>

(* The entry goes with its last callback, and loads in flight then hold an  *)
(* AccountToLoad object that is no longer the registered one.               *)
RemoveAccount(k, c) ==
    /\ pc[c] = "added"
    /\ c \in callbacks[k]
    /\ callbacks' = [callbacks EXCEPT ![k] = @ \ {c}]
    /\ accountsToLoad' = IF Emptied(k, c) THEN accountsToLoad \ {k} ELSE accountsToLoad
    /\ bufferAndSlotMap' = IF Emptied(k, c) THEN [bufferAndSlotMap EXCEPT ![k] = None]
                           ELSE bufferAndSlotMap
    /\ job' = IF Emptied(k, c) THEN [l \in Load |-> [job[l] EXCEPT !.live = @ \ {k}]]
              ELSE job
    /\ intervalId' = (intervalId /\ accountsToLoad' # {})
    /\ pc' = [pc EXCEPT ![c] = "removed"]
    /\ UNCHANGED <<head, errorCallbacks, mostRecentSlot, pollingFrequency, promise,
                   awaiting, delivered>>

AddErrorCallbacks(e) ==
    /\ errorCallbacks' = errorCallbacks \cup {e}
    /\ UNCHANGED <<head, accountsToLoad, callbacks, bufferAndSlotMap, mostRecentSlot,
                   timer, promise, job, waiters, delivered>>

RemoveErrorCallbacks(e) ==
    /\ errorCallbacks' = errorCallbacks \ {e}
    /\ UNCHANGED <<head, accountsToLoad, callbacks, bufferAndSlotMap, mostRecentSlot,
                   timer, promise, job, waiters, delivered>>

UpdatePollingFrequency(frequency) ==
    /\ pollingFrequency' = frequency
    /\ intervalId' = (accountsToLoad # {} /\ PollingAfterStart(frequency, FALSE))
    /\ UNCHANGED <<head, registry, mostRecentSlot, promise, job, waiters, delivered>>

-----------------------------------------------------------------------------
(* load(): positions p of the snapshot are grouped into requests, and       *)
(* requests into batches.                                                   *)

RequestOf(p) == (p - 1) \div CHUNK_SIZE
BatchOf(p)   == RequestOf(p) \div BATCH_SIZE

Enumerations(S) ==
    {f \in [1 .. Cardinality(S) -> S] : \A i, j \in DOMAIN f : f[i] = f[j] => i = j}

(* A load identity is free once nothing refers to its previous use.         *)
Free(l) ==
    /\ job[l].phase = "ended" /\ job[l].pending = {}
    /\ l # loadPromise
    /\ \A c \in Callback : awaiting[c] # l

(* load() joins the current load unless that one is more than a minute old. *)
MayLoad == loadPromise = None \/ minutePassed

ResolverOf(l) == l

StartLoad(l) ==
    /\ Free(l)
    /\ MayLoad
    /\ \E keys \in Enumerations(accountsToLoad) :
          job' = [job EXCEPT ![l] =
                    [phase   |-> "running",
                     keys    |-> keys,
                     asked   |-> {p \in DOMAIN keys : callbacks[keys[p]] # {}},
                     live    |-> accountsToLoad,
                     pending |-> {BatchOf(p) : p \in DOMAIN keys}]]
    /\ loadPromise' = l
    /\ loadPromiseResolver' = ResolverOf(l)
    /\ minutePassed' = FALSE
    /\ settled' = settled \ {l}
    /\ UNCHANGED <<head, registry, mostRecentSlot, timer, waiters, delivered>>

PollTick(l)   == intervalId /\ StartLoad(l)
ClientLoad(l) == StartLoad(l)

(* The position whose account the j-th value of a response describes when   *)
(* position p reads it: the response is dense over the positions asked for, *)
(* while p's index counts every position of the request.                    *)
Below(S, p) == {q \in S : q < p /\ RequestOf(q) = RequestOf(p)}
AnsweredFor(l, p) ==
    {q \in job[l].asked :
        /\ RequestOf(q) = RequestOf(p)
        /\ Cardinality(Below(job[l].asked, q)) = Cardinality(Below(DOMAIN job[l].keys, p))}
AnswerAt(l, p, s) ==
    IF AnsweredFor(l, p) = {} THEN None
    ELSE Ledger[job[l].keys[CHOOSE q \in AnsweredFor(l, p) : TRUE]][s]

(* The callbacks of the AccountToLoad object that load l holds for key k.   *)
ObjectCallbacks(l, k) == IF k \in job[l].live THEN callbacks[k] ELSE {}

(* Mutants of Accepted: without the slot comparison; without the test that  *)
(* the account still has callbacks; only a first buffer is stored.          *)
AcceptedAnySlot(l, p, s) ==
    LET k   == job[l].keys[p]
        new == AnswerAt(l, p, s)
    IN  /\ ObjectCallbacks(l, k) # {}
        /\ bufferAndSlotMap[k] # None => new # None /\ new # bufferAndSlotMap[k].buffer
AcceptedForRemoved(l, p, s) ==
    LET k   == job[l].keys[p]
        old == bufferAndSlotMap[k]
        new == AnswerAt(l, p, s)
    IN  old # None => s >= old.slot /\ new # None /\ new # old.buffer
AcceptedOnlyFirst(l, p, s) ==
    LET k   == job[l].keys[p]
        old == bufferAndSlotMap[k]
        new == AnswerAt(l, p, s)
    IN  /\ ObjectCallbacks(l, k) # {}
        /\ old # None => s >= old.slot /\ new # None /\ old.buffer = None

(* Position p of load l, answered at slot s, replaces the stored entry.     *)
Accepted(l, p, s) ==
    LET k   == job[l].keys[p]
        old == bufferAndSlotMap[k]
        new == AnswerAt(l, p, s)
    IN  /\ ObjectCallbacks(l, k) # {}
        /\ old # None => s >= old.slot /\ new # None /\ new # old.buffer

BatchPositions(l, b) == {p \in DOMAIN job[l].keys : BatchOf(p) = b}
BatchRequests(l, b)  == {RequestOf(p) : p \in BatchPositions(l, b)}

IsLargest(x, S) == x \in S /\ \A y \in S : y <= x

IsNewMostRecentSlot(x, slots) == IsLargest(x, slots \cup {mostRecentSlot})

(* at[r] is the slot of request r's response, 0 when its result is missing. *)
UpdatedPositions(l, at, done) ==
    {p \in done : at[RequestOf(p)] # 0 /\ Accepted(l, p, at[RequestOf(p)])}
EntryAt(l, at, p) ==
    [slot |-> at[RequestOf(p)], buffer |-> AnswerAt(l, p, at[RequestOf(p)])]

(* The answers to the positions `done` of a batch are stored, and delivered *)
(* to the callbacks `told` of their accounts.                               *)
StoreAnswers(l, at, done, told) ==
    LET updated == UpdatedPositions(l, at, done) IN
    /\ bufferAndSlotMap' = [k \in Key |->
          IF \E p \in updated : job[l].keys[p] = k
          THEN EntryAt(l, at, CHOOSE p \in updated : job[l].keys[p] = k)
          ELSE bufferAndSlotMap[k]]
    /\ delivered' = [c \in Callback |->
          IF c \in told /\ \E p \in updated : c \in ObjectCallbacks(l, job[l].keys[p])
          THEN EntryAt(l, at, CHOOSE p \in updated : c \in ObjectCallbacks(l, job[l].keys[p]))
          ELSE delivered[c]]
    /\ \E x \in 0 .. MaxSlot :
          /\ IsNewMostRecentSlot(x, {at[RequestOf(p)] : p \in done})
          /\ mostRecentSlot' = x

(* Batch b of load l is over, and the load is then in the given phase.      *)
BatchOver(l, b, phase) ==
    job' = [job EXCEPT ![l] = [job[l] EXCEPT !.pending = job[l].pending \ {b}, !.phase = phase]]
FailedPhase(l) == IF job[l].phase = "running" THEN "failed" ELSE job[l].phase

(* loadChunk after the RPC answered.                                        *)
HandleBatch(l, b, at) ==
    /\ b \in job[l].pending
    /\ StoreAnswers(l, at, BatchPositions(l, b), Callback)
    /\ BatchOver(l, b, job[l].phase)
    /\ UNCHANGED <<head, accountsToLoad, callbacks, errorCallbacks, timer, promise, waiters>>

(* The same, when a callback of position p throws: the positions after p    *)
(* are skipped, the callbacks before it in its entry were told, the batch   *)
(* rejects.                                                                 *)
HandleBatchThrows(l, b, at) ==
    /\ CallbacksMayThrow
    /\ b \in job[l].pending
    /\ \E p \in BatchPositions(l, b) :
       \E told \in SUBSET ObjectCallbacks(l, job[l].keys[p]) :
          /\ told # ObjectCallbacks(l, job[l].keys[p])
          /\ at[RequestOf(p)] # 0 /\ Accepted(l, p, at[RequestOf(p)])
          /\ StoreAnswers(l, at, {q \in BatchPositions(l, b) : q <= p},
                          told \cup (Callback \ callbacks[job[l].keys[p]]))
    /\ BatchOver(l, b, FailedPhase(l))
    /\ UNCHANGED <<head, accountsToLoad, callbacks, errorCallbacks, timer, promise, waiters>>

(* promiseTimeout answers null after 10 s: the batch completes with no      *)
(* effect.                                                                  *)
BatchTimesOut(l, b) ==
    /\ b \in job[l].pending
    /\ BatchOver(l, b, job[l].phase)
    /\ UNCHANGED <<head, registry, mostRecentSlot, timer, promise, waiters, delivered>>

BatchRejects(l, b) ==
    /\ b \in job[l].pending
    /\ BatchOver(l, b, FailedPhase(l))
    /\ UNCHANGED <<head, registry, mostRecentSlot, timer, promise, waiters, delivered>>

Finished(l) ==
    \/ job[l].phase = "running" /\ job[l].pending = {}
    \/ job[l].phase = "failed"

(* The end of load(): Promise.all resolved, or the first rejection, which   *)
(* leaves the other batches in flight.  The resolver and the promise are    *)
(* fields of the loader, not of this call.                                  *)
FinishLoad(l) ==
    /\ Finished(l)
    /\ job' = [job EXCEPT ![l] = [job[l] EXCEPT !.phase = "ended"]]
    /\ settled' = settled \cup {loadPromiseResolver}
    /\ loadPromise' = None
    /\ minutePassed' = FALSE
    /\ UNCHANGED <<head, registry, mostRecentSlot, timer, loadPromiseResolver, waiters, delivered>>
-----------------------------------------------------------------------------
Slots(l, b) == [BatchRequests(l, b) -> 0 .. head]

Next ==
    \/ AdvanceChain
    \/ MinutePasses
    \/ \E k \in Key, c \in Callback : AddAccount(k, c) \/ RemoveAccount(k, c)
    \/ \E c \in Callback : AddAccountReturns(c)
    \/ \E e \in ErrorCallback : AddErrorCallbacks(e) \/ RemoveErrorCallbacks(e)
    \/ \E frequency \in {0, 1} : UpdatePollingFrequency(frequency)
    \/ \E l \in Load : PollTick(l) \/ ClientLoad(l) \/ FinishLoad(l)
    \/ \E l \in Load : \E b \in job[l].pending :
          \/ \E at \in Slots(l, b) : HandleBatch(l, b, at) \/ HandleBatchThrows(l, b, at)
          \/ BatchTimesOut(l, b) \/ BatchRejects(l, b)

Spec == Init /\ [][Next]_vars

(* The event loop runs what is ready: timers fire, every RPC batch ends     *)
(* (promiseTimeout sees to it), promise continuations run.  Batch numbers   *)
(* are below the number of accounts.                                        *)
BatchEnds(l, b) ==
    \/ \E at \in Slots(l, b) : HandleBatch(l, b, at)
    \/ BatchTimesOut(l, b)
    \/ BatchRejects(l, b)
Batches == 0 .. Cardinality(Key) - 1
EventLoopFairness ==
    /\ \A c \in Callback : WF_vars(AddAccountReturns(c))
    /\ WF_vars(\E l \in Load : PollTick(l))
    /\ \A l \in Load : WF_vars(FinishLoad(l))
    /\ \A l \in Load, b \in Batches : WF_vars(b \in job[l].pending /\ BatchEnds(l, b))
FairSpec == Spec /\ EventLoopFairness

(* The RPC node may fail, time out or lag for a while, but keeps coming     *)
(* back with an answer of the newest slot for every account.                *)
FreshAnswer(l, k) ==
    \E b \in job[l].pending :
        /\ \E p \in BatchPositions(l, b) : job[l].keys[p] = k
        /\ HandleBatch(l, b, [r \in BatchRequests(l, b) |-> head])
RpcFairness ==
    /\ WF_vars(AdvanceChain)
    /\ \A l \in Load, k \in Key : SF_vars(FreshAnswer(l, k))
FreshSpec == FairSpec /\ RpcFairness

-----------------------------------------------------------------------------
(* Every variable has its type.                                             *)
TypeOK ==
    /\ head \in Slot
    /\ accountsToLoad \in SUBSET Key
    /\ callbacks \in [Key -> SUBSET Callback]
    /\ bufferAndSlotMap \in [Key -> Entry \cup {None}]
    /\ errorCallbacks \in SUBSET ErrorCallback
    /\ mostRecentSlot \in 0 .. MaxSlot
    /\ intervalId \in BOOLEAN
    /\ pollingFrequency \in {0, 1}
    /\ loadPromise \in Load \cup {None}
    /\ loadPromiseResolver \in Load \cup {None}
    /\ minutePassed \in BOOLEAN
    /\ settled \in SUBSET Load
    /\ job \in [Load -> Job]
    /\ pc \in [Callback -> {"idle", "adding", "added", "removed"}]
    /\ awaiting \in [Callback -> Load \cup {None}]
    /\ delivered \in [Callback -> Entry \cup {None}]

(* The registry holds exactly the keys that have callbacks, and a buffer is *)
(* stored only for a registered key: an answer that arrives after           *)
(* removeAccount does not bring the account back.                           *)
RegistryConsistent ==
    \A k \in Key :
        /\ k \in accountsToLoad <=> callbacks[k] # {}
        /\ bufferAndSlotMap[k] # None => k \in accountsToLoad

(* A stored buffer is that account's state on chain at the stored slot: the *)
(* values of a response, read by index, are attributed to the right account *)
(* whatever was added and removed while the request was in flight.          *)
BufferIsChainState ==
    \A k \in Key : bufferAndSlotMap[k] # None =>
        bufferAndSlotMap[k].buffer = Ledger[k][bufferAndSlotMap[k].slot]

(* getSlot() is never behind a buffer that getBufferAndSlot() returns.      *)
MostRecentSlotCoversBuffers ==
    \A k \in Key : bufferAndSlotMap[k] # None => bufferAndSlotMap[k].slot <= mostRecentSlot

(* What a registered callback was handed last is what is stored, so that a  *)
(* subscriber and getBufferAndSlot agree; when callbacks may throw, it is at *)
(* least nothing newer than the stored entry.                               *)
CallbacksSawStoredEntry ==
    \A k \in Key : \A c \in callbacks[k] : delivered[c] # None =>
        /\ bufferAndSlotMap[k] # None
        /\ delivered[c].slot <= bufferAndSlotMap[k].slot
        /\ CallbacksMayThrow \/ delivered[c] = bufferAndSlotMap[k]

(* The interval is installed exactly while there is an account to poll and  *)
(* polling is enabled, however the calls that start and stop it interleave. *)
PollingIffAccounts == intervalId <=> (accountsToLoad # {} /\ pollingFrequency # 0)

(* The registry, the timer and the slot of the loader agree.                *)
LoaderConsistent ==
    TypeOK /\ RegistryConsistent /\ MostRecentSlotCoversBuffers /\ PollingIffAccounts

(* Clients spamming load() share one load: unless a load took over a minute, *)
(* at most one call is loading, and its promise is the current one.         *)
OneLoadAtATime ==
    ~SlowLoads => \A l \in Load : job[l].phase # "ended" <=> loadPromise = l

(* The stored slot of an account that stays registered, and the slots that  *)
(* a callback is handed, never go back, however late an answer arrives.     *)
SlotsOnlyMoveForward ==
    [][/\ \A k \in Key : bufferAndSlotMap[k] # None /\ bufferAndSlotMap'[k] # None
                => bufferAndSlotMap[k].slot <= bufferAndSlotMap'[k].slot
       /\ \A c \in Callback : delivered[c] # None
                => delivered'[c] # None /\ delivered[c].slot <= delivered'[c].slot]_vars

(* Every addAccount call returns: the load it waits for, successful or not, *)
(* resolves the promise.                                                    *)
AddAccountReturnsEventually == \A c \in Callback : pc[c] = "adding" ~> pc[c] # "adding"

(* With a node that keeps answering, a polled account's buffer ends up the  *)
(* account's last state on chain.  (An account closed on chain keeps its    *)
(* last buffer, by design of the comparison in loadChunk.)                  *)
PolledAccountsGetFresh ==
    \A k \in Key : Ledger[k][MaxSlot] # None =>
        ((<>[](k \in accountsToLoad /\ intervalId)) =>
            <>[](bufferAndSlotMap[k] # None /\ bufferAndSlotMap[k].buffer = Ledger[k][MaxSlot]))
=============================================================================
