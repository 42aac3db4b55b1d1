------------------------------- MODULE UserMap -------------------------------
(***************************************************************************)
(* userMap/userMap.ts with its two subscriptions: a map of the users of the *)
(* exchange, filled by syncs (one getProgramAccounts, or a list of keys and *)
(* chunks), by notifications of a program subscription and by mustGet.      *)
(*                                                                         *)
(* Answers come from any block seen so far: nodes lag, and calls overlap.   *)
(* What follows an answer without further input is one step: decoding and   *)
(* addPubkey with an account wait for nothing outside.  Users have the      *)
(* default one shot subscriber, whose data and slot are those of the entry. *)
(***************************************************************************)
EXTENDS Naturals, Sequences, FiniteSets

CONSTANTS
    User,
    None,
    Loop,               \* bound: ids of subscribe() calls that may start polling
    Modes,              \* configurations to consider
    MaxSlot,            \* bound: blocks of the chain
    MaxGets,            \* bound: calls of mustGet
    MaxFailures,        \* bound: answers that are errors
    CarefulCallers      \* TRUE: unsubscribe() and subscribe() are called only when the
                        \* subscribe() before has returned and no sync is running

ASSUME UserMapAssumption ==
    /\ None \notin User \cup Loop \cup Nat
    /\ Modes \subseteq [polling : BOOLEAN, paginated : BOOLEAN,
                        includeIdle : BOOLEAN, skipInitialLoad : BOOLEAN,
                        throwOnFailedSync : BOOLEAN]
    /\ MaxSlot \in Nat \ {0} /\ {MaxGets, MaxFailures} \subseteq Nat

VARIABLES
    chain,              \* blocks: what each user's account contains, None: no account
    mode,               \* the configuration
    userMap,            \* entry of each user or None; its slot is None when undefined
    mostRecentSlot,
    syncPromise,        \* the sync that runs: where it is and its keys
    syncCaller,         \* whose sync() it is: a loop, or the number that the callback waits to store
    orphans,            \* chunks of a paginated sync that has failed
    gets,               \* mustGet calls that wait for the account, and their number
    loops,              \* what each subscribe() call or its polling loop waits for
    intervalId,         \* the loop whose timer was armed last
    buffers,            \* of the program subscription, None while not subscribed
    listeners,          \* how often stateAccountUpdateCallback is registered
    lastNumberOfSubAccounts,
    numbers,            \* values that stateAccountUpdateCallback waits to store
    failures

subscription == <<syncCaller, loops, intervalId, buffers, listeners, lastNumberOfSubAccounts, numbers>>
vars == <<chain, mode, userMap, mostRecentSlot, syncPromise, orphans, gets, subscription, failures>>

Slots == 1 .. Len(chain)
Now   == Len(chain)
NoSync == [at |-> "none", keys |-> {}, got |-> {}]
Entry(u, slot) == [data |-> chain[slot][u], slot |-> slot]

(* The accounts that getUserFilter and getNonIdleUserFilter let through.    *)
Listed(slot) ==
    {u \in User : chain[slot][u] # None /\ (mode.includeIdle \/ ~chain[slot][u].idle)}
numberOfSubAccounts(slot) == Cardinality({u \in User : chain[slot][u] # None})

TypeOK ==
    /\ chain \in Seq([User -> {None} \cup [idle : BOOLEAN, since : 1 .. MaxSlot]])
    /\ mode \in Modes
    /\ userMap \in [User -> {None} \cup
           [data : {None} \cup [idle : BOOLEAN, since : Slots], slot : {None} \cup Slots]]
    /\ mostRecentSlot \in 0 .. Now
    /\ syncPromise \in [at : {"none", "asked", "chunks"}, keys : SUBSET User, got : SUBSET User]
    /\ orphans \subseteq User
    /\ gets \in [waiting : SUBSET User, calls : 0 .. MaxGets]
    /\ loops \in [Loop -> {"off", "initial", "syncing", "armed", "threw"}]
    /\ intervalId \in {None} \cup Loop

Init ==
    /\ \E live \in SUBSET User :
           chain = <<[u \in User |-> IF u \in live THEN [idle |-> FALSE, since |-> 1] ELSE None]>>
    /\ mode \in Modes
    /\ userMap = [u \in User |-> None]
    /\ mostRecentSlot = 0
    /\ syncPromise = NoSync
    /\ syncCaller = None
    /\ orphans = {}
    /\ gets = [waiting |-> {}, calls |-> 0]
    /\ loops = [l \in Loop |-> "off"]
    /\ intervalId = None
    /\ buffers = None
    /\ listeners = 0
    /\ lastNumberOfSubAccounts = None
    /\ numbers = {}
    /\ failures = 0

(* A block changes the account of one user.                                 *)
NewBlock ==
    /\ Now < MaxSlot
    /\ \E u \in User, idle \in BOOLEAN, closes \in BOOLEAN :
           /\ closes => chain[Now][u] # None /\ ~idle
           /\ chain' = Append(chain, [chain[Now] EXCEPT ![u] =
                  IF closes THEN None ELSE [idle |-> idle, since |-> Now + 1]])
    /\ UNCHANGED <<mode, userMap, mostRecentSlot, syncPromise, orphans, gets, subscription, failures>>

-----------------------------------------------------------------------------
(* Entries.                                                                 *)

IsNewer(slot, entry) == entry.slot # None /\ slot >= entry.slot
updateLatestSlot(slot) == mostRecentSlot' = IF slot > mostRecentSlot THEN slot ELSE mostRecentSlot

(* Mutant: the slot is not compared.                                        *)
UpdatedAlways(u, slot) == Entry(u, slot)

(* Mutant: the entry is stamped with the most recent slot of the map.       *)
UpdatedAtLatestSlot(u, slot) ==
    IF userMap[u] = None \/ IsNewer(slot, userMap[u])
    THEN [data |-> chain[slot][u], slot |-> IF slot > mostRecentSlot THEN slot ELSE mostRecentSlot]
    ELSE userMap[u]

(* updateUserAccount, and what a full sync does with an account of its      *)
(* answer: the entry is created, or replaced unless it is newer.            *)
Updated(u, slot) ==
    IF userMap[u] = None \/ IsNewer(slot, userMap[u]) THEN Entry(u, slot) ELSE userMap[u]

addPubkey(u, slot) ==
    IF chain[slot][u] = None THEN [data |-> None, slot |-> None] ELSE Entry(u, slot)

(* mustGet without an account: the user fetches it, and is then stored      *)
(* whatever the map holds by that time.                                     *)
mustGet(u) ==
    /\ userMap[u] = None /\ u \notin gets.waiting /\ gets.calls < MaxGets
    /\ gets' = [waiting |-> gets.waiting \cup {u}, calls |-> gets.calls + 1]
    /\ UNCHANGED <<chain, mode, userMap, mostRecentSlot, syncPromise, orphans, subscription, failures>>
mustGetReturns(u) ==
    /\ u \in gets.waiting
    /\ gets' = [gets EXCEPT !.waiting = @ \ {u}]
    /\ \E slot \in Slots : userMap' = [userMap EXCEPT ![u] = addPubkey(u, slot)]
    /\ UNCHANGED <<chain, mode, mostRecentSlot, syncPromise, orphans, subscription, failures>>

-----------------------------------------------------------------------------
(* Syncs.  Whoever calls sync() while one runs waits for that one.          *)

Started == IF syncPromise.at = "none" THEN [NoSync EXCEPT !.at = "asked"] ELSE syncPromise
Caller(c) == IF syncPromise.at = "none" THEN c ELSE syncCaller

(* Mutant: the promise of the last sync is kept.                            *)
SyncSettlesKeepingPromise(thrown) ==
    /\ loops' = [l \in Loop |-> IF loops[l] \in {"initial", "syncing"} THEN "armed" ELSE loops[l]]
    /\ syncPromise' = [NoSync EXCEPT !.at = "chunks"]
    /\ numbers' = {}
    /\ UNCHANGED <<syncCaller, intervalId, lastNumberOfSubAccounts, buffers, listeners>>

(* The sync ends: subscribe() goes on to executeSync, which syncs again; a  *)
(* polling loop arms its timer; stateAccountUpdateCallback stores numbers.  *)
(* What it throws reaches only the call that started it: that subscribe()   *)
(* or executeSync ends there, and the callback stores nothing.              *)
SyncSettles(thrown) ==
    LET ended  == {l \in Loop : l \in thrown /\ loops[l] \in {"initial", "syncing"}}
        going  == {l \in Loop \ ended : loops[l] = "initial" /\ mode.polling}
        timers == {l \in Loop \ ended : loops[l] = "syncing"}
        stored == numbers \ thrown
    IN  /\ loops' = [l \in Loop |-> CASE l \in ended -> "threw"
                                      [] l \in going -> "syncing"
                                      [] l \in timers -> "armed"
                                      [] OTHER -> IF loops[l] = "initial" THEN "off" ELSE loops[l]]
        /\ IF timers = {} THEN UNCHANGED intervalId ELSE intervalId' \in timers
        /\ IF going = {} THEN syncPromise' = NoSync /\ syncCaller' = None
           ELSE syncPromise' = [NoSync EXCEPT !.at = "asked"] /\ syncCaller' \in going
        /\ IF stored = {} THEN UNCHANGED lastNumberOfSubAccounts
           ELSE lastNumberOfSubAccounts' \in stored
        /\ numbers' = {}
        /\ UNCHANGED <<buffers, listeners>>

(* An answer to getProgramAccounts: entries of listed users are updated and *)
(* the others are deleted, whatever their slot.                             *)
defaultSync(slot) ==
    /\ syncPromise.at = "asked" /\ ~mode.paginated
    /\ userMap' = [u \in User |-> IF u \in Listed(slot) THEN Updated(u, slot) ELSE None]
    /\ updateLatestSlot(slot)
    /\ SyncSettles({})
    /\ UNCHANGED <<chain, mode, orphans, gets, failures>>

(* paginatedSync asks for the keys, then for each chunk (of one key here).  *)
DropOthers(map, keys) == [u \in User |-> IF u \in keys THEN map[u] ELSE None]
paginatedSync(slot) ==
    /\ syncPromise.at = "asked" /\ mode.paginated
    /\ IF Listed(slot) = {}
       THEN userMap' = DropOthers(userMap, {}) /\ SyncSettles({})
       ELSE /\ syncPromise' = [NoSync EXCEPT !.at = "chunks", !.keys = Listed(slot)]
            /\ UNCHANGED <<userMap, subscription>>
    /\ UNCHANGED <<chain, mode, mostRecentSlot, orphans, gets, failures>>

(* The account of a chunk replaces an entry even if that is newer; then     *)
(* updateLatestSlot is not called.                                          *)
ChunkEntry(u, slot) ==
    IF chain[slot][u] = None THEN userMap[u] ELSE Entry(u, slot)
ChunkIsUpdate(u, slot) ==
    chain[slot][u] # None /\ userMap[u] # None /\ IsNewer(slot, userMap[u])
ChunkAnswered(u, slot) ==
    LET updated == [userMap EXCEPT ![u] = ChunkEntry(u, slot)]
        got     == syncPromise.got \cup {w \in {u} : chain[slot][w] # None}
    IN  /\ syncPromise.at = "chunks" /\ u \in syncPromise.keys
        /\ IF syncPromise.keys = {u}
           THEN userMap' = DropOthers(updated, got) /\ SyncSettles({})
           ELSE /\ userMap' = updated
                /\ syncPromise' = [syncPromise EXCEPT !.keys = @ \ {u}, !.got = got]
                /\ UNCHANGED subscription
        /\ IF ChunkIsUpdate(u, slot) THEN updateLatestSlot(slot) ELSE UNCHANGED mostRecentSlot
        /\ UNCHANGED <<chain, mode, orphans, gets, failures>>
OrphanAnswered(u, slot) ==
    /\ u \in orphans
    /\ orphans' = orphans \ {u}
    /\ userMap' = [userMap EXCEPT ![u] = ChunkEntry(u, slot)]
    /\ IF ChunkIsUpdate(u, slot) THEN updateLatestSlot(slot) ELSE UNCHANGED mostRecentSlot
    /\ UNCHANGED <<chain, mode, syncPromise, gets, subscription, failures>>

(* An error is logged, and thrown if so configured; other chunks go on.     *)
SyncFails ==
    /\ syncPromise.at # "none" /\ failures < MaxFailures
    /\ failures' = failures + 1
    /\ IF syncPromise.keys = {} THEN UNCHANGED orphans
       ELSE \E u \in syncPromise.keys : orphans' = orphans \cup (syncPromise.keys \ {u})
    /\ SyncSettles(IF mode.throwOnFailedSync THEN {syncCaller} ELSE {})
    /\ UNCHANGED <<chain, mode, userMap, mostRecentSlot, gets>>

-----------------------------------------------------------------------------
(* Subscriptions.                                                           *)

CallersMayAct ==
    CarefulCallers => \A l \in Loop : loops[l] \notin {"initial", "syncing"}

subscribe(l) ==
    /\ CallersMayAct /\ loops[l] \in {"off", "threw"} /\ (mode.polling => \A k \in Loop : loops[k] # "initial")
    /\ \A u \in User : userMap[u] = None
    /\ lastNumberOfSubAccounts' = numberOfSubAccounts(Now)
    /\ listeners < Cardinality(Loop)
    /\ listeners' = listeners + 1
    /\ IF mode.polling
       THEN IF intervalId # None THEN UNCHANGED <<loops, syncPromise, syncCaller, buffers>>
            ELSE /\ loops' = [loops EXCEPT ![l] = IF mode.skipInitialLoad THEN "syncing" ELSE "initial"]
                 /\ syncPromise' = Started /\ syncCaller' = Caller(l)
                 /\ UNCHANGED buffers
       ELSE /\ buffers' = IF buffers = None THEN [u \in User |-> None] ELSE buffers
            /\ IF mode.skipInitialLoad THEN UNCHANGED <<loops, syncPromise, syncCaller>>
               ELSE /\ loops' = [loops EXCEPT ![l] = "initial"]
                    /\ syncPromise' = Started /\ syncCaller' = Caller(l)
    /\ UNCHANGED <<chain, mode, userMap, mostRecentSlot, orphans, gets, intervalId, numbers, failures>>

(* executeSync, when its timer fires.                                       *)
executeSync(l) ==
    /\ loops[l] = "armed"
    /\ loops' = [loops EXCEPT ![l] = "syncing"]
    /\ syncPromise' = Started /\ syncCaller' = Caller(l)
    /\ UNCHANGED <<chain, mode, userMap, mostRecentSlot, orphans, gets, intervalId, buffers,
                   listeners, lastNumberOfSubAccounts, numbers, failures>>

(* The program subscription: handleRpcResponse drops what is older than the *)
(* account it has or the same; closed and idle accounts are not notified.   *)
Notified(u, slot) ==
    /\ buffers # None
    /\ chain[slot][u] # None /\ ~chain[slot][u].idle
    /\ buffers[u] # None => buffers[u].slot <= slot /\ buffers[u].data # chain[slot][u]
    /\ buffers' = [buffers EXCEPT ![u] = Entry(u, slot)]
    /\ userMap' = [userMap EXCEPT ![u] = Updated(u, slot)]
    /\ updateLatestSlot(slot)
    /\ UNCHANGED <<chain, mode, syncPromise, syncCaller, orphans, gets, loops, intervalId, listeners,
                   lastNumberOfSubAccounts, numbers, failures>>

(* stateAccountUpdateCallback, with the state of any block.                 *)
stateAccountUpdateCallback(slot) ==
    /\ listeners > 0 /\ lastNumberOfSubAccounts # None
    /\ numberOfSubAccounts(slot) # lastNumberOfSubAccounts
    /\ numberOfSubAccounts(slot) \notin numbers
    /\ numbers' = numbers \cup {numberOfSubAccounts(slot)}
    /\ syncPromise' = Started /\ syncCaller' = Caller(numberOfSubAccounts(slot))
    /\ UNCHANGED <<chain, mode, userMap, mostRecentSlot, orphans, gets, loops, intervalId, buffers,
                   listeners, lastNumberOfSubAccounts, failures>>

(* unsubscribe() clears the timer that was armed last and every entry.      *)
unsubscribe ==
    /\ CallersMayAct
    /\ loops' = [l \in Loop |-> IF loops[l] = "threw" \/ (l = intervalId /\ loops[l] = "armed")
                               THEN "off" ELSE loops[l]]
    /\ intervalId' = None
    /\ buffers' = None
    /\ userMap' = [u \in User |-> None]
    /\ IF lastNumberOfSubAccounts = None THEN UNCHANGED listeners ELSE listeners' = listeners - 1
    /\ lastNumberOfSubAccounts' = None
    /\ UNCHANGED <<chain, mode, mostRecentSlot, syncPromise, syncCaller, orphans, gets, numbers, failures>>

Next ==
    \/ NewBlock
    \/ \E u \in User : mustGet(u) \/ mustGetReturns(u)
    \/ \E slot \in Slots : defaultSync(slot) \/ paginatedSync(slot) \/ stateAccountUpdateCallback(slot)
    \/ \E u \in User, slot \in Slots :
           ChunkAnswered(u, slot) \/ OrphanAnswered(u, slot) \/ Notified(u, slot)
    \/ SyncFails
    \/ \E l \in Loop : subscribe(l) \/ executeSync(l)
    \/ unsubscribe

(* Timers fire, and nodes answer at last from the newest block.             *)
Fairness ==
    /\ \A l \in Loop : WF_vars(executeSync(l))
    /\ SF_vars(defaultSync(Now)) /\ SF_vars(paginatedSync(Now))
    /\ \A u \in User : SF_vars(ChunkAnswered(u, Now)) /\ WF_vars(OrphanAnswered(u, Now))
                       /\ WF_vars(mustGetReturns(u))

Spec == Init /\ [][Next]_vars /\ Fairness

-----------------------------------------------------------------------------
(* Whatever the order of answers and notifications, what the map holds of a *)
(* user is what the chain held at the slot that the entry claims.           *)
EntriesAreTheChains == TypeOK /\
    \A u \in User : userMap[u] # None /\ userMap[u].slot # None =>
        userMap[u].data = chain[userMap[u].slot][u]

(* A full sync and a notification never replace an entry by an older one.   *)
(* (mustGet and the chunks of a paginated sync may.)                        *)
OlderEntry(u) ==
    /\ userMap[u] # None /\ userMap'[u] # None
    /\ userMap[u].slot # None
    /\ userMap'[u].slot = None \/ (userMap'[u].slot # None /\ userMap'[u].slot < userMap[u].slot)
EntriesMoveForward ==
    [][~mode.paginated /\ UNCHANGED gets => ~\E u \in User : OlderEntry(u)]_vars

(* While a map that polls stays subscribed, it comes to hold the users that *)
(* the chain has in the end, and their latest content: failed syncs, slow   *)
(* answers and mustGet do not stop the loop.  Only one thing does: with     *)
(* throwOnFailedSync, a failed sync that the loop itself started (one that  *)
(* stateAccountUpdateCallback started does not).  (A user that mustGet      *)
(* fetched before it had an account may keep its entry without content.)    *)
Follows ==
    \A u \in User :
        IF u \in Listed(Now)
        THEN /\ userMap[u] # None
             /\ userMap[u].slot # None => userMap[u].data = chain[Now][u]
        ELSE userMap[u] = None
PolledMapFollowsTheChain ==
    mode.polling =>
        \/ []<>(lastNumberOfSubAccounts = None \/ \A l \in Loop : loops[l] \in {"off", "threw"})
        \/ []<>Follows
=============================================================================
