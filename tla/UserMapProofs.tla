----------------------------- MODULE UserMapProofs -----------------------------
(***************************************************************************)
(* What UserMap keeps for any number of users, polling loops, blocks, calls *)
(* of mustGet and failures, in every configuration, careful callers or not. *)
(***************************************************************************)
EXTENDS UserMap, SequenceTheorems, TLAPS

Account  == [idle : BOOLEAN, since : 1 .. MaxSlot]
MapEntry == [data : {None} \cup [idle : BOOLEAN, since : Slots], slot : {None} \cup Slots]

(* The chain has a block, and an account changed in the block it names or   *)
(* before.                                                                  *)
ChainOK ==
    /\ Now >= 1
    /\ \A slot \in Slots, u \in User : chain[slot][u] # None => chain[slot][u].since \in 1 .. slot

(* Only a sync that is paginated asks for chunks, or leaves some behind.    *)
ChunksArePaginated ==
    /\ syncPromise.at # "chunks" => syncPromise.keys = {}
    /\ ~mode.paginated => syncPromise.at # "chunks" /\ orphans = {}

IInv == EntriesAreTheChains /\ ChainOK /\ ChunksArePaginated

Forward == ~mode.paginated /\ UNCHANGED gets => ~\E u \in User : OlderEntry(u)

USE DEF Now

-----------------------------------------------------------------------------
LEMMA ChainType ==
    ASSUME TypeOK, ChainOK
    PROVE  /\ Len(chain) \in Nat \ {0} /\ Slots = 1 .. Len(chain) /\ Len(chain) \in Slots
           /\ \A slot \in Slots : chain[slot] \in [User -> {None} \cup Account]
BY DEF TypeOK, ChainOK, Slots, Account

(* What a block says of a user makes an entry.                              *)
LEMMA EntryType ==
    ASSUME TypeOK, ChainOK, NEW u \in User, NEW slot \in Slots
    PROVE  /\ Entry(u, slot) \in MapEntry
           /\ Entry(u, slot).slot = slot /\ Entry(u, slot).data = chain[slot][u]
<1>1. slot \in 1 .. Len(chain) /\ Len(chain) \in Nat
  BY ChainType DEF Slots
<1>2. chain[slot][u] \in {None} \cup Account
  BY ChainType
<1>3. chain[slot][u] # None => chain[slot][u].since \in Slots
  BY <1>1 DEF ChainOK, Slots
<1>4. chain[slot][u] \in {None} \cup [idle : BOOLEAN, since : Slots]
  BY <1>2, <1>3 DEF Account
<1> QED
  BY <1>4 DEF Entry, MapEntry

(* A step that leaves the chain alone, and each entry alone or replaces it  *)
(* by what some block says of the user.                                     *)
Replaced(u) ==
    \/ userMap'[u] \in {None, userMap[u], [data |-> None, slot |-> None]}
    \/ \E slot \in Slots : userMap'[u] = Entry(u, slot)

LEMMA MapStep ==
    ASSUME IInv, chain' = chain, userMap' = [u \in User |-> userMap'[u]],
           \A u \in User : Replaced(u)
    PROVE  /\ userMap' \in [User -> {None} \cup MapEntry']
           /\ \A u \in User : userMap'[u] # None /\ userMap'[u].slot # None =>
                 userMap'[u].data = chain'[userMap'[u].slot][u]
           /\ ChainOK'
<1> USE DEF IInv, EntriesAreTheChains
<1>1. MapEntry' = MapEntry /\ Slots' = Slots
  BY DEF MapEntry, Slots
<1>2. \A u \in User : userMap'[u] \in {None} \cup MapEntry
  <2> TAKE u \in User
  <2>1. userMap[u] \in {None} \cup MapEntry
    BY DEF TypeOK, MapEntry
  <2>2. [data |-> None, slot |-> None] \in MapEntry
    BY DEF MapEntry
  <2> QED
    BY <2>1, <2>2, EntryType DEF Replaced
<1>3. \A u \in User : userMap'[u] # None /\ userMap'[u].slot # None =>
         userMap'[u].data = chain[userMap'[u].slot][u]
  BY EntryType DEF Replaced
<1>4. userMap' \in [User -> {None} \cup MapEntry]
  BY <1>2
<1>5. ChainOK'
  BY DEF ChainOK, Slots
<1> QED
  BY <1>1, <1>3, <1>4, <1>5

LEMMA SlotOfMap ==
    ASSUME TypeOK, ChainOK, NEW u \in User
    PROVE  userMap[u] # None => userMap[u].slot = None \/ userMap[u].slot \in Slots
BY DEF TypeOK

(* Updated keeps an entry or brings one that is not older.                  *)
LEMMA UpdatedForward ==
    ASSUME TypeOK, ChainOK, NEW u \in User, NEW slot \in Slots
    PROVE  /\ Updated(u, slot) \in {userMap[u], Entry(u, slot)}
           /\ userMap'[u] \in {None, Updated(u, slot)} => Replaced(u) /\ ~OlderEntry(u)
<1>1. Updated(u, slot) \in {userMap[u], Entry(u, slot)}
  BY DEF Updated
<1>2. userMap'[u] \in {None, Updated(u, slot)} => Replaced(u)
  BY <1>1 DEF Replaced
<1>3. slot \in Int /\ slot # None /\ (userMap[u] # None => userMap[u].slot = None \/ userMap[u].slot \in Int)
  BY SlotOfMap, ChainType, UserMapAssumption DEF Slots
<1>4. userMap'[u] \in {None, Updated(u, slot)} => ~OlderEntry(u)
  <2> SUFFICES ASSUME userMap'[u] = Updated(u, slot), OlderEntry(u) PROVE FALSE
    BY DEF OlderEntry
  <2>1. CASE userMap[u] = None \/ IsNewer(slot, userMap[u])
    BY <2>1, <1>3, EntryType DEF Updated, IsNewer, OlderEntry
  <2>2. CASE ~(userMap[u] = None \/ IsNewer(slot, userMap[u]))
    BY <2>2, <1>3 DEF Updated, OlderEntry
  <2> QED
    BY <2>1, <2>2
<1> QED
  BY <1>1, <1>2, <1>4

LEMMA LatestSlot ==
    ASSUME TypeOK, ChainOK, NEW slot \in Slots,
           updateLatestSlot(slot) \/ UNCHANGED mostRecentSlot
    PROVE  mostRecentSlot' \in 0 .. Now
BY ChainType DEF TypeOK, updateLatestSlot

(* A sync ends.                                                             *)
LEMMA SettledType ==
    ASSUME TypeOK, NEW thrown, SyncSettles(thrown)
    PROVE  /\ loops' \in [Loop -> {"off", "initial", "syncing", "armed", "threw"}]
           /\ intervalId' \in {None} \cup Loop
           /\ syncPromise' \in [at : {"none", "asked", "chunks"}, keys : SUBSET User, got : SUBSET User]
           /\ syncPromise'.at # "chunks" /\ syncPromise'.keys = {}
<1>1. intervalId' \in {None} \cup Loop
  BY DEF TypeOK, SyncSettles
<1>2. loops' \in [Loop -> {"off", "initial", "syncing", "armed", "threw"}]
  BY DEF TypeOK, SyncSettles
<1>3. syncPromise' \in {NoSync, [NoSync EXCEPT !.at = "asked"]}
  BY DEF SyncSettles
<1> QED
  BY <1>1, <1>2, <1>3 DEF NoSync

LEMMA StartedType ==
    ASSUME TypeOK, ChunksArePaginated
    PROVE  /\ Started \in [at : {"none", "asked", "chunks"}, keys : SUBSET User, got : SUBSET User]
           /\ Started.at # "chunks" => Started.keys = {}
           /\ Started.at = "chunks" => syncPromise.at = "chunks"
BY DEF TypeOK, ChunksArePaginated, Started, NoSync

-----------------------------------------------------------------------------
(* A block adds itself to the chain and changes nothing before.             *)
LEMMA BlockStep ==
    ASSUME IInv, NewBlock
    PROVE  IInv'
<1> USE DEF IInv, EntriesAreTheChains
<1>1. PICK u \in User, idle \in BOOLEAN, closes \in BOOLEAN :
         chain' = Append(chain, [chain[Now] EXCEPT ![u] =
                     IF closes THEN None ELSE [idle |-> idle, since |-> Now + 1]])
  BY DEF NewBlock
<1> DEFINE block == [chain[Now] EXCEPT ![u] = IF closes THEN None ELSE [idle |-> idle, since |-> Now + 1]]
<1>2. Now \in Nat \ {0} /\ Now < MaxSlot /\ Now \in Slots /\ MaxSlot \in Nat
  BY ChainType, UserMapAssumption DEF NewBlock
<1>3. chain[Now] \in [User -> {None} \cup Account]
  BY <1>2, ChainType
<1>4. block \in [User -> {None} \cup Account]
  <2>1. [idle |-> idle, since |-> Now + 1] \in Account
    BY <1>2 DEF Account
  <2> QED
    BY <1>3, <2>1
<1>5. \A w \in User : block[w] # None => block[w].since \in 1 .. Now + 1
  <2> TAKE w \in User
  <2>1. chain[Now][w] # None => chain[Now][w].since \in 1 .. Now
    BY <1>2 DEF ChainOK
  <2> QED
    BY <2>1, <1>2, <1>3
<1> HIDE DEF block
<1>6. chain \in Seq([User -> {None} \cup Account])
  BY DEF TypeOK, Account
<1>7. /\ chain' \in Seq([User -> {None} \cup Account])
      /\ Len(chain') = Now + 1
      /\ \A slot \in 1 .. Now : chain'[slot] = chain[slot]
      /\ chain'[Now + 1] = block
  BY <1>1, <1>4, <1>6, AppendProperties DEF block
<1>8. Slots \subseteq Slots' /\ Slots = 1 .. Len(chain) /\ Slots' = 1 .. Len(chain) + 1
  BY <1>2, <1>7 DEF Slots
<1>9. ChainOK'
  <2>1. ASSUME NEW slot \in Slots', NEW w \in User, chain'[slot][w] # None
        PROVE  chain'[slot][w].since \in 1 .. slot
    <3>1. CASE slot \in 1 .. Now
      BY <2>1, <3>1, <1>7, <1>8 DEF ChainOK
    <3>2. CASE slot = Now + 1
      BY <2>1, <3>2, <1>5, <1>7
    <3> QED
      BY <3>1, <3>2, <1>2, <1>8
  <2> QED
    BY <2>1, <1>2, <1>7 DEF ChainOK
<1>10. UNCHANGED <<mode, userMap, mostRecentSlot, syncPromise, orphans, gets, subscription, failures>>
  BY DEF NewBlock
<1>11. \A w \in User : userMap[w] # None /\ userMap[w].slot # None =>
          userMap[w].slot \in Slots /\ userMap[w].data = chain'[userMap[w].slot][w]
  BY <1>7, <1>8, SlotOfMap
<1>12. userMap' \in [User -> {None} \cup MapEntry']
  <2>1. MapEntry \subseteq MapEntry'
    BY <1>8 DEF MapEntry
  <2>2. userMap \in [User -> {None} \cup MapEntry]
    BY DEF TypeOK, MapEntry
  <2> QED
    BY <2>1, <2>2, <1>10
<1>13. TypeOK'
  BY <1>2, <1>7, <1>10, <1>12 DEF TypeOK, MapEntry, Account, subscription
<1>14. ChunksArePaginated'
  BY <1>10 DEF ChunksArePaginated
<1> QED
  BY <1>9, <1>10, <1>11, <1>13, <1>14

(* What is left to show of a step that leaves chain and mode alone.         *)
LEMMA StepDone ==
    ASSUME IInv, UNCHANGED <<chain, mode>>, userMap' = [u \in User |-> userMap'[u]],
           \A u \in User : Replaced(u),
           mostRecentSlot' \in 0 .. Now,
           syncPromise' \in [at : {"none", "asked", "chunks"}, keys : SUBSET User, got : SUBSET User],
           orphans' \subseteq User,
           gets' \in [waiting : SUBSET User, calls : 0 .. MaxGets],
           loops' \in [Loop -> {"off", "initial", "syncing", "armed", "threw"}],
           intervalId' \in {None} \cup Loop,
           ChunksArePaginated'
    PROVE  IInv'
<1>1. TypeOK /\ ChainOK
  BY DEF IInv, EntriesAreTheChains
<1>2. chain' \in Seq([User -> {None} \cup [idle : BOOLEAN, since : 1 .. MaxSlot]]) /\ mode' \in Modes
  BY <1>1 DEF TypeOK
<1>3. TypeOK'
  BY <1>2, MapStep DEF TypeOK, MapEntry
<1> QED
  BY <1>3, MapStep DEF IInv, EntriesAreTheChains

LEMMA IInvStep == IInv /\ [Next]_vars => IInv' /\ [Forward]_vars
<1> SUFFICES ASSUME IInv, [Next]_vars PROVE IInv' /\ [Forward]_vars
  OBVIOUS
<1>0. TypeOK /\ ChainOK /\ ChunksArePaginated
  BY DEF IInv, EntriesAreTheChains
<1> USE DEF subscription
<1>m. /\ userMap \in [User -> {None} \cup MapEntry]
      /\ mostRecentSlot \in 0 .. Now
      /\ syncPromise \in [at : {"none", "asked", "chunks"}, keys : SUBSET User, got : SUBSET User]
      /\ orphans \subseteq User
      /\ gets \in [waiting : SUBSET User, calls : 0 .. MaxGets]
      /\ loops \in [Loop -> {"off", "initial", "syncing", "armed", "threw"}]
      /\ intervalId \in {None} \cup Loop
  BY <1>0 DEF TypeOK, MapEntry
<1>f. ASSUME NEW u \in User PROVE userMap'[u] = userMap[u] => Replaced(u) /\ ~OlderEntry(u)
  <2>1. userMap[u] # None /\ userMap[u].slot # None => userMap[u].slot \in Int
    BY <1>0, SlotOfMap, ChainType DEF Slots
  <2> QED
    BY <2>1 DEF Replaced, OlderEntry
<1>u. ASSUME UNCHANGED userMap
      PROVE  /\ userMap' = [u \in User |-> userMap'[u]] /\ \A u \in User : Replaced(u)
             /\ Forward
  BY <1>u, <1>m, <1>f DEF Forward
<1>1. CASE NewBlock
  BY <1>1, <1>u, BlockStep DEF NewBlock
<1>2. ASSUME NEW u \in User, mustGet(u) PROVE IInv' /\ Forward
  <2>1. gets' \in [waiting : SUBSET User, calls : 0 .. MaxGets]
    BY <1>m, <1>2, UserMapAssumption DEF mustGet
  <2>2. UNCHANGED <<chain, mode, userMap, mostRecentSlot, syncPromise, orphans, subscription>>
    BY <1>2 DEF mustGet
  <2>3. ChunksArePaginated'
    BY <1>0, <2>2 DEF ChunksArePaginated
  <2> QED
    BY <1>m, <2>1, <2>2, <2>3, <1>u, StepDone
<1>3. ASSUME NEW u \in User, mustGetReturns(u) PROVE IInv' /\ Forward
  <2>1. PICK slot \in Slots : userMap' = [userMap EXCEPT ![u] = addPubkey(u, slot)]
    BY <1>3 DEF mustGetReturns
  <2>2. /\ userMap' = [w \in User |-> userMap'[w]]
        /\ \A w \in User : Replaced(w)
    <3>1. \A w \in User : userMap'[w] = IF w = u THEN addPubkey(u, slot) ELSE userMap[w]
      BY <1>m, <2>1
    <3>2. DOMAIN userMap' = User /\ userMap' = [w \in DOMAIN userMap' |-> userMap'[w]]
      BY <1>m, <2>1
    <3> QED
      BY <3>1, <3>2 DEF Replaced, addPubkey
  <2>3. /\ gets' \in [waiting : SUBSET User, calls : 0 .. MaxGets]
        /\ gets' # gets
    <3>1. gets' = [gets EXCEPT !.waiting = gets.waiting \ {u}] /\ u \in gets.waiting
      BY <1>3 DEF mustGetReturns
    <3> QED
      BY <3>1, <1>m
  <2>4. UNCHANGED <<chain, mode, mostRecentSlot, syncPromise, orphans, subscription>>
    BY <1>3 DEF mustGetReturns
  <2>5. ChunksArePaginated'
    BY <1>0, <2>4 DEF ChunksArePaginated
  <2>6. Forward
    BY <2>3 DEF Forward
  <2> QED
    BY <1>m, <2>2, <2>3, <2>4, <2>5, <2>6, StepDone
<1>4. ASSUME NEW slot \in Slots, defaultSync(slot) PROVE IInv' /\ Forward
  <2>1. userMap' = [u \in User |-> IF u \in Listed(slot) THEN Updated(u, slot) ELSE None]
    BY <1>4 DEF defaultSync
  <2>2. \A u \in User : Replaced(u) /\ ~OlderEntry(u)
    <3> TAKE u \in User
    <3>1. userMap'[u] \in {None, Updated(u, slot)}
      BY <2>1
    <3> QED
      BY <3>1, <1>0, UpdatedForward
  <2>3. mostRecentSlot' \in 0 .. Now
    BY <1>0, <1>4, LatestSlot DEF defaultSync
  <2>4. SyncSettles({}) /\ UNCHANGED <<chain, mode, orphans, gets>>
    BY <1>4 DEF defaultSync
  <2>5. ChunksArePaginated'
    BY <1>0, <2>4, SettledType DEF ChunksArePaginated
  <2>6. userMap' = [u \in User |-> userMap'[u]]
    BY <2>1
  <2> QED
    BY <1>0, <1>m, <2>2, <2>3, <2>4, <2>5, <2>6, SettledType, StepDone DEF Forward
<1>5. ASSUME NEW slot \in Slots, paginatedSync(slot) PROVE IInv' /\ Forward
  <2>1. Listed(slot) \subseteq User
    BY DEF Listed
  <2>2. mode.paginated /\ UNCHANGED <<chain, mode, mostRecentSlot, orphans, gets>>
    BY <1>5 DEF paginatedSync
  <2>3. CASE Listed(slot) = {}
    <3>1. userMap' = DropOthers(userMap, {}) /\ SyncSettles({})
      BY <1>5, <2>3 DEF paginatedSync
    <3>2. userMap' = [u \in User |-> userMap'[u]] /\ \A u \in User : Replaced(u)
      BY <3>1 DEF DropOthers, Replaced
    <3>3. ChunksArePaginated'
      BY <2>2, <3>1, <1>0, SettledType DEF ChunksArePaginated
    <3> QED
      BY <1>0, <1>m, <2>2, <3>1, <3>2, <3>3, SettledType, StepDone DEF Forward
  <2>4. CASE Listed(slot) # {}
    <3>1. /\ syncPromise' = [NoSync EXCEPT !.at = "chunks", !.keys = Listed(slot)]
          /\ UNCHANGED <<userMap, subscription>>
      BY <1>5, <2>4 DEF paginatedSync
    <3>2. /\ syncPromise' \in [at : {"none", "asked", "chunks"}, keys : SUBSET User, got : SUBSET User]
          /\ syncPromise'.at = "chunks"
      BY <2>1, <3>1 DEF NoSync
    <3>3. ChunksArePaginated'
      BY <2>2, <3>2 DEF ChunksArePaginated
    <3> QED
      BY <1>0, <1>m, <2>2, <3>1, <3>2, <3>3, <1>u, StepDone
  <2> QED
    BY <2>3, <2>4
<1>6. ASSUME NEW u \in User, NEW slot \in Slots, ChunkAnswered(u, slot) PROVE IInv' /\ Forward
  <2> DEFINE updated == [userMap EXCEPT ![u] = ChunkEntry(u, slot)]
             got     == syncPromise.got \cup {w \in {u} : chain[slot][w] # None}
  <2>1. /\ syncPromise.at = "chunks" /\ u \in syncPromise.keys
        /\ UNCHANGED <<chain, mode, orphans, gets>>
    BY <1>6 DEF ChunkAnswered
  <2>2. mode.paginated
    BY <1>0, <2>1 DEF ChunksArePaginated
  <2>3. mostRecentSlot' \in 0 .. Now
    BY <1>0, <1>6, LatestSlot DEF ChunkAnswered
  <2>4. \A w \in User : updated[w] = userMap[w] \/ updated[w] = Entry(w, slot)
    BY <1>m DEF ChunkEntry
  <2>5. CASE syncPromise.keys = {u}
    <3>1. userMap' = DropOthers(updated, got) /\ SyncSettles({})
      BY <1>6, <2>5 DEF ChunkAnswered
    <3> HIDE DEF updated, got
    <3>2. userMap' = [w \in User |-> userMap'[w]] /\ \A w \in User : Replaced(w)
      BY <2>4, <3>1 DEF DropOthers, Replaced
    <3>3. ChunksArePaginated'
      BY <1>0, <2>1, <2>2, <3>1, SettledType DEF ChunksArePaginated
    <3> QED
      BY <1>0, <1>m, <2>1, <2>2, <2>3, <3>1, <3>2, <3>3, SettledType, StepDone DEF Forward
  <2>6. CASE syncPromise.keys # {u}
    <3>1. /\ userMap' = updated
          /\ syncPromise' = [syncPromise EXCEPT !.keys = @ \ {u}, !.got = got]
          /\ UNCHANGED subscription
      BY <1>6, <2>6 DEF ChunkAnswered
    <3>2. /\ syncPromise' \in [at : {"none", "asked", "chunks"}, keys : SUBSET User, got : SUBSET User]
          /\ syncPromise'.at = "chunks"
      BY <1>m, <2>1, <3>1
    <3>3. userMap' = [w \in User |-> userMap'[w]]
      BY <1>m, <3>1
    <3>4. \A w \in User : Replaced(w)
      BY <2>4, <3>1 DEF Replaced
    <3>5. ChunksArePaginated'
      BY <2>1, <2>2, <3>2 DEF ChunksArePaginated
    <3> QED
      BY <1>m, <2>1, <2>2, <2>3, <3>1, <3>2, <3>3, <3>4, <3>5, StepDone DEF Forward
  <2> QED
    BY <2>5, <2>6
<1>7. ASSUME NEW u \in User, NEW slot \in Slots, OrphanAnswered(u, slot) PROVE IInv' /\ Forward
  <2>1. /\ u \in orphans /\ orphans' = orphans \ {u}
        /\ userMap' = [userMap EXCEPT ![u] = ChunkEntry(u, slot)]
        /\ UNCHANGED <<chain, mode, syncPromise, gets, subscription>>
    BY <1>7 DEF OrphanAnswered
  <2>2. mode.paginated
    BY <1>0, <2>1 DEF ChunksArePaginated
  <2>3. mostRecentSlot' \in 0 .. Now
    BY <1>0, <1>7, LatestSlot DEF OrphanAnswered
  <2>4. userMap' = [w \in User |-> userMap'[w]]
    BY <1>m, <2>1
  <2>5. \A w \in User : Replaced(w)
    BY <1>m, <2>1 DEF ChunkEntry, Replaced
  <2>6. ChunksArePaginated'
    BY <1>0, <2>1, <2>2 DEF ChunksArePaginated
  <2> QED
    BY <1>m, <2>1, <2>2, <2>3, <2>4, <2>5, <2>6, StepDone DEF Forward
<1>8. ASSUME NEW u \in User, NEW slot \in Slots, Notified(u, slot) PROVE IInv' /\ Forward
  <2>1. /\ userMap' = [userMap EXCEPT ![u] = Updated(u, slot)]
        /\ UNCHANGED <<chain, mode, syncPromise, orphans, gets, loops, intervalId>>
    BY <1>8 DEF Notified
  <2>2. mostRecentSlot' \in 0 .. Now
    BY <1>0, <1>8, LatestSlot DEF Notified
  <2>3. userMap' = [w \in User |-> userMap'[w]]
    BY <1>m, <2>1
  <2>4. \A w \in User : Replaced(w) /\ ~OlderEntry(w)
    <3> TAKE w \in User
    <3>1. CASE w = u
      <4>1. userMap'[u] = Updated(u, slot)
        BY <1>m, <2>1
      <4> QED
        BY <3>1, <4>1, <1>0, UpdatedForward
    <3>2. CASE w # u
      <4>1. userMap'[w] = userMap[w]
        BY <3>2, <1>m, <2>1
      <4> QED
        BY <4>1, <1>f
    <3> QED
      BY <3>1, <3>2
  <2>5. ChunksArePaginated'
    BY <1>0, <2>1 DEF ChunksArePaginated
  <2> QED
    BY <1>m, <2>1, <2>2, <2>3, <2>4, <2>5, StepDone DEF Forward
<1>9. CASE SyncFails
  <2>1. UNCHANGED <<chain, mode, userMap, mostRecentSlot, gets>>
        /\ SyncSettles(IF mode.throwOnFailedSync THEN {syncCaller} ELSE {})
    BY <1>9 DEF SyncFails
  <2>2. /\ orphans' \subseteq User
        /\ ~mode.paginated => orphans' = {}
    BY <1>0, <1>m, <1>9 DEF SyncFails, ChunksArePaginated
  <2>3. ChunksArePaginated'
    BY <1>0, <2>1, <2>2, SettledType DEF ChunksArePaginated
  <2> QED
    BY <1>0, <1>m, <2>1, <2>2, <2>3, <1>u, SettledType, StepDone
<1>10. ASSUME NEW l \in Loop, subscribe(l) \/ executeSync(l) PROVE IInv' /\ Forward
  <2>1. UNCHANGED <<chain, mode, userMap, mostRecentSlot, orphans, gets, intervalId>>
    BY <1>10 DEF subscribe, executeSync
  <2>2. syncPromise' \in {syncPromise, Started}
    BY <1>10 DEF subscribe, executeSync
  <2>3. loops' \in [Loop -> {"off", "initial", "syncing", "armed", "threw"}]
    BY <1>m, <1>10 DEF subscribe, executeSync
  <2>4. ChunksArePaginated'
    BY <1>0, <2>1, <2>2, StartedType DEF ChunksArePaginated
  <2> QED
    BY <1>0, <1>m, <2>1, <2>2, <2>3, <2>4, <1>u, StartedType, StepDone
<1>11. ASSUME NEW slot \in Slots, stateAccountUpdateCallback(slot) PROVE IInv' /\ Forward
  <2>1. /\ UNCHANGED <<chain, mode, userMap, mostRecentSlot, orphans, gets, loops, intervalId>>
        /\ syncPromise' = Started
    BY <1>11 DEF stateAccountUpdateCallback
  <2>2. ChunksArePaginated'
    BY <1>0, <2>1, StartedType DEF ChunksArePaginated
  <2> QED
    BY <1>0, <1>m, <2>1, <2>2, <1>u, StartedType, StepDone
<1>12. CASE unsubscribe
  <2>1. /\ UNCHANGED <<chain, mode, mostRecentSlot, syncPromise, orphans, gets>>
        /\ userMap' = [u \in User |-> None] /\ intervalId' = None
        /\ loops' = [l \in Loop |-> IF loops[l] = "threw" \/ (l = intervalId /\ loops[l] = "armed")
                                   THEN "off" ELSE loops[l]]
    BY <1>12 DEF unsubscribe
  <2>2. loops' \in [Loop -> {"off", "initial", "syncing", "armed", "threw"}]
    BY <1>m, <2>1
  <2>3. userMap' = [u \in User |-> userMap'[u]] /\ \A u \in User : Replaced(u) /\ ~OlderEntry(u)
    BY <2>1 DEF Replaced, OlderEntry
  <2>4. ChunksArePaginated'
    BY <1>0, <2>1 DEF ChunksArePaginated
  <2> QED
    BY <1>m, <2>1, <2>2, <2>3, <2>4, StepDone DEF Forward
<1>13. CASE UNCHANGED vars
  <2>1. ChunksArePaginated'
    BY <1>0, <1>13 DEF ChunksArePaginated, vars
  <2> QED
    BY <1>m, <1>13, <2>1, <1>u, StepDone DEF vars
<1> QED
  BY <1>1, <1>2, <1>3, <1>4, <1>5, <1>6, <1>7, <1>8, <1>9, <1>10, <1>11, <1>12, <1>13 DEF Next

LEMMA InitIInv == Init => IInv
<1> SUFFICES ASSUME Init PROVE IInv
  OBVIOUS
<1>1. PICK live \in SUBSET User :
         chain = <<[u \in User |-> IF u \in live THEN [idle |-> FALSE, since |-> 1] ELSE None]>>
  BY DEF Init
<1> DEFINE block == [u \in User |-> IF u \in live THEN [idle |-> FALSE, since |-> 1] ELSE None]
<1>2. \A u \in User : block[u] # None => block[u].since = 1
  BY UserMapAssumption
<1>3. chain = <<block>> /\ Len(chain) = 1 /\ chain[1] = block /\ Slots = {1}
  BY <1>1 DEF Slots
<1>4. block \in [User -> {None} \cup Account]
  BY UserMapAssumption DEF Account
<1> HIDE DEF block
<1>5. chain \in Seq([User -> {None} \cup Account])
  BY <1>3, <1>4
<1>6. /\ userMap = [u \in User |-> None] /\ mostRecentSlot = 0 /\ mode \in Modes /\ syncPromise = NoSync
      /\ orphans = {} /\ gets = [waiting |-> {}, calls |-> 0] /\ loops = [l \in Loop |-> "off"]
      /\ intervalId = None
  BY DEF Init
<1>7. TypeOK
  <2>1. syncPromise \in [at : {"none", "asked", "chunks"}, keys : SUBSET User, got : SUBSET User]
    BY <1>6 DEF NoSync
  <2>2. gets \in [waiting : SUBSET User, calls : 0 .. MaxGets]
    BY <1>6, UserMapAssumption
  <2>3. userMap \in [User -> {None} \cup MapEntry]
    BY <1>6
  <2> QED
    BY <1>3, <1>5, <1>6, <2>1, <2>2, <2>3 DEF TypeOK, Account, MapEntry
<1>8. ChainOK
  BY <1>2, <1>3 DEF ChainOK
<1>9. ChunksArePaginated
  BY <1>6 DEF ChunksArePaginated, NoSync
<1> QED
  BY <1>6, <1>7, <1>8, <1>9 DEF IInv, EntriesAreTheChains

(* Syncs, chunks, notifications and mustGet may overlap and be answered     *)
(* late, by nodes that lag: what the map holds of a user is what the chain  *)
(* held at the slot of the entry.                                           *)
THEOREM EntriesComeFromTheChain == Spec => []EntriesAreTheChains
<1>1. IInv => EntriesAreTheChains
  BY DEF IInv
<1> QED
  BY <1>1, InitIInv, IInvStep, PTL DEF Spec

(* Unless syncs are paginated, nothing but mustGet replaces an entry by one *)
(* of an older slot.                                                        *)
THEOREM EntriesNeverGoBack == Spec => EntriesMoveForward
<1>1. IInv /\ [Next]_vars =>
        [~mode.paginated /\ UNCHANGED gets => ~\E u \in User : OlderEntry(u)]_vars
  BY IInvStep DEF Forward
<1> QED
  BY <1>1, InitIInv, IInvStep, PTL DEF Spec, EntriesMoveForward
=============================================================================
