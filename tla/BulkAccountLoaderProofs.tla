----------------------- MODULE BulkAccountLoaderProofs -----------------------
(***************************************************************************)
(* Invariants of BulkAccountLoader for every value of its constants.        *)
(* BufferIsChainState needs two facts about loads in flight (JobsOK): each  *)
(* request names every account of its snapshot, once, and an account whose  *)
(* AccountToLoad object is still live is still in the registry.             *)
(* CallbacksSawStoredEntry needs that an id sits in one callback map only   *)
(* (IdsOK), and gives that no callback is handed an older slot.             *)
(***************************************************************************)
EXTENDS BulkAccountLoader, FiniteSetTheorems, TLAPS

JobsOK ==
    \A l \in Load :
        /\ job[l].live \subseteq accountsToLoad
        /\ job[l].asked = DOMAIN job[l].keys
        /\ \A p, q \in DOMAIN job[l].keys : job[l].keys[p] = job[l].keys[q] => p = q

(* While a load runs there is a promise to settle at its end.               *)
ResolverKept == \A l \in Load : job[l].phase # "ended" => loadPromiseResolver # None

USE DEF Slot, Entry, Phase, Positions, Job

(* The quotients that number requests and batches are natural numbers.      *)
LEMMA QuotientNat ==
    ASSUME NEW a \in Nat, NEW d \in Nat \ {0}
    PROVE  a \div d \in Nat
OBVIOUS

LEMMA BatchOfNat ==
    ASSUME NEW p \in Nat \ {0}
    PROVE  BatchOf(p) \in Nat
<1>1. RequestOf(p) \in Nat
  BY QuotientNat, ChunkAssumption DEF RequestOf
<1> QED
  BY <1>1, QuotientNat, ChunkAssumption DEF BatchOf

(* A snapshot of the registry has the type of a load's keys.                *)
LEMMA EnumerationsType ==
    ASSUME NEW S \in SUBSET Key, NEW keys \in Enumerations(S)
    PROVE  /\ keys \in UNION {[1 .. n -> Key] : n \in 0 .. Cardinality(Key)}
           /\ DOMAIN keys \subseteq Positions
           /\ \A p \in DOMAIN keys : keys[p] \in S /\ p \in Nat \ {0}
<1>1. /\ Cardinality(S) \in Nat /\ Cardinality(Key) \in Nat
      /\ Cardinality(S) <= Cardinality(Key)
  BY SetsAssumption, FS_Subset, FS_CardinalityType
<1>2. keys \in [1 .. Cardinality(S) -> S]
  BY DEF Enumerations
<1>3. keys \in [1 .. Cardinality(S) -> Key]
  BY <1>2
<1>4. Cardinality(S) \in 0 .. Cardinality(Key)
  BY <1>1
<1> QED
  BY <1>1, <1>2, <1>3, <1>4

(* What is stored for an answer is a slot of the chain and a buffer.        *)
LEMMA EntryAtType ==
    ASSUME TypeOK, JobsOK, NEW l \in Load, NEW b, NEW at \in Slots(l, b),
           NEW done \in SUBSET BatchPositions(l, b),
           NEW p \in UpdatedPositions(l, at, done)
    PROVE  /\ at[RequestOf(p)] \in Slot
           /\ EntryAt(l, at, p) \in Entry
           /\ p \in DOMAIN job[l].keys /\ job[l].keys[p] \in Key
<1>1. p \in BatchPositions(l, b) /\ at[RequestOf(p)] # 0
  BY DEF UpdatedPositions
<1>2. RequestOf(p) \in BatchRequests(l, b)
  BY <1>1 DEF BatchRequests
<1>3. at[RequestOf(p)] \in Slot
  BY <1>1, <1>2, SlotAssumption DEF Slots, TypeOK
<1>4. job[l] \in Job
  BY DEF TypeOK
<1>5. \A q \in DOMAIN job[l].keys : job[l].keys[q] \in Key
  BY <1>4
<1>6. AnswerAt(l, p, at[RequestOf(p)]) \in Value \cup {None}
  <2>1. CASE AnsweredFor(l, p) = {}
    BY <2>1 DEF AnswerAt
  <2>2. CASE AnsweredFor(l, p) # {}
    <3> DEFINE q == CHOOSE q \in AnsweredFor(l, p) : TRUE
    <3>1. q \in job[l].asked
      BY <2>2 DEF AnsweredFor
    <3>2. job[l].keys[q] \in Key
      BY <3>1, <1>5 DEF JobsOK
    <3>3. Ledger[job[l].keys[q]][at[RequestOf(p)]] \in Value \cup {None}
      BY <3>2, <1>3, LedgerAssumption
    <3> QED
      BY <3>3, <2>2 DEF AnswerAt
  <2> QED
    BY <2>1, <2>2
<1> QED
  BY <1>1, <1>3, <1>5, <1>6 DEF EntryAt, BatchPositions

(* A position reads its own account: every position of a request was asked  *)
(* for, so that a position's rank in the response is its rank in the        *)
(* request.                                                                 *)
LEMMA AnsweredForItself ==
    ASSUME TypeOK, JobsOK, NEW l \in Load, NEW p \in DOMAIN job[l].keys
    PROVE  AnsweredFor(l, p) = {p}
<1> DEFINE D == DOMAIN job[l].keys
<1>1. job[l].asked = D
  BY DEF JobsOK
<1>2. PICK n \in 0 .. Cardinality(Key) : D = 1 .. n /\ n \in Int
  <2>1. Cardinality(Key) \in Nat
    BY SetsAssumption, FS_CardinalityType
  <2> QED
    BY <2>1 DEF TypeOK
<1>3. IsFiniteSet(D)
  BY <1>2, FS_Interval
<1>4. \A q \in D : IsFiniteSet(Below(D, q)) /\ Cardinality(Below(D, q)) \in Nat
  BY <1>3, FS_Subset, FS_CardinalityType DEF Below
<1>5. ASSUME NEW q \in D, NEW r \in D, q < r, RequestOf(q) = RequestOf(r)
      PROVE  Cardinality(Below(D, q)) # Cardinality(Below(D, r))
  <2>1. Below(D, q) \subseteq Below(D, r)
    BY <1>2, <1>5 DEF Below
  <2>2. q \in Below(D, r) /\ q \notin Below(D, q)
    BY <1>2, <1>5 DEF Below
  <2> QED
    BY <2>1, <2>2, <1>4, FS_Subset
<1>6. ASSUME NEW q \in AnsweredFor(l, p) PROVE q = p
  <2>1. /\ q \in D /\ RequestOf(q) = RequestOf(p)
        /\ Cardinality(Below(D, q)) = Cardinality(Below(D, p))
    BY <1>1 DEF AnsweredFor
  <2>2. q \in Int /\ p \in Int
    BY <2>1, <1>2
  <2> QED
    BY <2>1, <2>2, <1>5
<1>7. p \in AnsweredFor(l, p)
  BY <1>1 DEF AnsweredFor
<1> QED
  BY <1>6, <1>7

-----------------------------------------------------------------------------
IInv ==
    /\ TypeOK
    /\ RegistryConsistent
    /\ JobsOK
    /\ ResolverKept
    /\ BufferIsChainState
    /\ MostRecentSlotCoversBuffers
    /\ PollingIffAccounts

StoredSlotsForward ==
    \A k \in Key : bufferAndSlotMap[k] # None /\ bufferAndSlotMap'[k] # None
        => bufferAndSlotMap[k].slot <= bufferAndSlotMap'[k].slot

(* What storing a batch's answers, all or some, does to the stored entries. *)
LEMMA StoreAnswersEffect ==
    ASSUME IInv, NEW l \in Load, NEW b, NEW at \in Slots(l, b),
           NEW done \in SUBSET BatchPositions(l, b), NEW told,
           StoreAnswers(l, at, done, told)
    PROVE  /\ bufferAndSlotMap' \in [Key -> Entry \cup {None}]
           /\ delivered' \in [Callback -> Entry \cup {None}]
           /\ mostRecentSlot' \in 0 .. MaxSlot
           /\ \A k \in Key : bufferAndSlotMap'[k] # None =>
                 /\ k \in accountsToLoad
                 /\ bufferAndSlotMap'[k].buffer = Ledger[k][bufferAndSlotMap'[k].slot]
                 /\ bufferAndSlotMap'[k].slot <= mostRecentSlot'
           /\ StoredSlotsForward
<1> USE DEF IInv
<1> DEFINE updated == UpdatedPositions(l, at, done)
           At(k) == CHOOSE p \in updated : job[l].keys[p] = k
           For(c) == CHOOSE p \in updated : c \in ObjectCallbacks(l, job[l].keys[p])
<1>1. \A p \in updated :
        /\ at[RequestOf(p)] \in Slot
        /\ EntryAt(l, at, p) \in Entry
        /\ EntryAt(l, at, p).slot = at[RequestOf(p)]
        /\ p \in DOMAIN job[l].keys /\ job[l].keys[p] \in Key
        /\ p \in done
        /\ Accepted(l, p, at[RequestOf(p)])
  BY EntryAtType DEF UpdatedPositions, EntryAt
<1>2. \A p \in updated : EntryAt(l, at, p).buffer = Ledger[job[l].keys[p]][at[RequestOf(p)]]
  <2> SUFFICES ASSUME NEW p \in updated
               PROVE  AnswerAt(l, p, at[RequestOf(p)]) = Ledger[job[l].keys[p]][at[RequestOf(p)]]
    BY DEF EntryAt
  <2>1. AnsweredFor(l, p) = {p}
    BY <1>1, AnsweredForItself
  <2> QED
    BY <2>1 DEF AnswerAt
<1>3. \A p \in updated :
        LET k == job[l].keys[p] IN
        /\ k \in accountsToLoad
        /\ bufferAndSlotMap[k] # None => bufferAndSlotMap[k].slot <= at[RequestOf(p)]
  <2> TAKE p \in updated
  <2>1. Accepted(l, p, at[RequestOf(p)]) /\ job[l].keys[p] \in Key
    BY <1>1
  <2>2. ObjectCallbacks(l, job[l].keys[p]) # {}
    BY <2>1 DEF Accepted
  <2>3. job[l].keys[p] \in job[l].live
    BY <2>2 DEF ObjectCallbacks
  <2>4. bufferAndSlotMap[job[l].keys[p]] # None =>
           at[RequestOf(p)] >= bufferAndSlotMap[job[l].keys[p]].slot
    BY <2>1 DEF Accepted
  <2>5. bufferAndSlotMap[job[l].keys[p]] # None =>
           bufferAndSlotMap[job[l].keys[p]].slot \in Slot
    BY <2>1 DEF TypeOK
  <2>6. at[RequestOf(p)] \in Slot
    BY <1>1
  <2> QED
    BY <2>3, <2>4, <2>5, <2>6, SlotAssumption DEF JobsOK
<1>4. \A k \in Key :
        \/ /\ At(k) \in updated /\ job[l].keys[At(k)] = k
           /\ bufferAndSlotMap'[k] = EntryAt(l, at, At(k))
        \/ bufferAndSlotMap'[k] = bufferAndSlotMap[k]
  <2> SUFFICES ASSUME NEW k \in Key, \E p \in updated : job[l].keys[p] = k
               PROVE  At(k) \in updated /\ job[l].keys[At(k)] = k
    BY DEF StoreAnswers
  <2> QED
    OBVIOUS
<1>5. bufferAndSlotMap' \in [Key -> Entry \cup {None}]
  <2>1. ASSUME NEW k \in Key PROVE bufferAndSlotMap'[k] \in Entry \cup {None}
    <3>1. At(k) \in updated => EntryAt(l, at, At(k)) \in Entry
      BY <1>1
    <3>2. bufferAndSlotMap[k] \in Entry \cup {None}
      BY DEF TypeOK
    <3> QED
      BY <3>1, <3>2, <1>4
  <2>2. DOMAIN bufferAndSlotMap' = Key /\ bufferAndSlotMap' = [k \in Key |-> bufferAndSlotMap'[k]]
    BY DEF StoreAnswers
  <2> QED
    BY <2>1, <2>2
<1>6. delivered' \in [Callback -> Entry \cup {None}]
  <2>1. ASSUME NEW c \in Callback PROVE delivered'[c] \in Entry \cup {None}
    <3>1. CASE c \in told /\ \E p \in updated : c \in ObjectCallbacks(l, job[l].keys[p])
      <4>1. For(c) \in updated
        BY <3>1
      <4>2. delivered'[c] = EntryAt(l, at, For(c))
        BY <3>1 DEF StoreAnswers
      <4> QED
        BY <4>1, <4>2, <1>1
    <3>2. CASE ~(c \in told /\ \E p \in updated : c \in ObjectCallbacks(l, job[l].keys[p]))
      <4>1. delivered'[c] = delivered[c]
        BY <3>2 DEF StoreAnswers
      <4> QED
        BY <4>1 DEF TypeOK
    <3> QED
      BY <3>1, <3>2
  <2>2. delivered' = [c \in Callback |-> delivered'[c]]
    BY DEF StoreAnswers
  <2> QED
    BY <2>1, <2>2
<1>7. /\ mostRecentSlot' \in 0 .. MaxSlot
      /\ mostRecentSlot <= mostRecentSlot'
      /\ \A p \in done : at[RequestOf(p)] <= mostRecentSlot'
  BY DEF StoreAnswers, IsNewMostRecentSlot, IsLargest
<1>8. ASSUME NEW k \in Key, bufferAndSlotMap'[k] # None
      PROVE  /\ k \in accountsToLoad
             /\ bufferAndSlotMap'[k].buffer = Ledger[k][bufferAndSlotMap'[k].slot]
             /\ bufferAndSlotMap'[k].slot <= mostRecentSlot'
             /\ bufferAndSlotMap[k] # None =>
                   bufferAndSlotMap[k].slot <= bufferAndSlotMap'[k].slot
  <2>1. CASE /\ At(k) \in updated /\ job[l].keys[At(k)] = k
             /\ bufferAndSlotMap'[k] = EntryAt(l, at, At(k))
    BY <2>1, <1>1, <1>2, <1>3, <1>7
  <2>2. CASE bufferAndSlotMap'[k] = bufferAndSlotMap[k]
    <3>1. bufferAndSlotMap[k] \in Entry
      BY <2>2, <1>8 DEF TypeOK
    <3>2. /\ bufferAndSlotMap[k].slot \in Int /\ mostRecentSlot \in Int /\ mostRecentSlot' \in Int
          /\ bufferAndSlotMap[k].slot <= mostRecentSlot
      BY <3>1, <2>2, <1>8, <1>7, SlotAssumption DEF TypeOK, MostRecentSlotCoversBuffers
    <3> QED
      BY <2>2, <1>8, <3>1, <3>2, <1>7 DEF RegistryConsistent, BufferIsChainState
  <2> QED
    BY <2>1, <2>2, <1>4
<1> QED
  BY <1>5, <1>6, <1>7, <1>8 DEF StoredSlotsForward

LEMMA InitIInv == Init => IInv
<1> SUFFICES ASSUME Init PROVE IInv
  OBVIOUS
<1>1. NoJob \in Job
  <2>1. Cardinality(Key) \in Nat
    BY SetsAssumption, FS_CardinalityType
  <2>2. [i \in 1 .. 0 |-> CHOOSE k \in Key : TRUE] \in [1 .. 0 -> Key]
    OBVIOUS
  <2>3. 0 \in 0 .. Cardinality(Key)
    BY <2>1
  <2>4. [i \in 1 .. 0 |-> CHOOSE k \in Key : TRUE]
           \in UNION {[1 .. n -> Key] : n \in 0 .. Cardinality(Key)}
    BY <2>2, <2>3
  <2> QED
    BY <2>4 DEF NoJob
<1>2. TypeOK
  <2>1. job \in [Load -> Job]
    BY <1>1 DEF Init
  <2>2. /\ bufferAndSlotMap \in [Key -> Entry \cup {None}]
        /\ delivered \in [Callback -> Entry \cup {None}]
        /\ awaiting \in [Callback -> Load \cup {None}]
        /\ callbacks \in [Key -> SUBSET Callback]
        /\ pc \in [Callback -> {"idle", "adding", "added", "removed"}]
    BY DEF Init
  <2>3. head \in Slot /\ mostRecentSlot \in 0 .. MaxSlot
    BY SlotAssumption DEF Init
  <2> QED
    BY <2>1, <2>2, <2>3 DEF Init, TypeOK
<1>3. JobsOK /\ ResolverKept
  <2>1. \A l \in Load : job[l] = NoJob
    BY DEF Init
  <2>2. /\ NoJob.live = {} /\ NoJob.asked = {} /\ DOMAIN NoJob.keys = {}
        /\ NoJob.phase = "ended"
    BY DEF NoJob
  <2> QED
    BY <2>1, <2>2 DEF JobsOK, ResolverKept
<1> QED
  BY <1>2, <1>3 DEF Init, IInv, RegistryConsistent, BufferIsChainState,
     MostRecentSlotCoversBuffers, PollingIffAccounts

(* A step that touches neither the stored entries nor the registry, nor the *)
(* snapshot of any load.                                                    *)
LEMMA StoredUnchanged ==
    ASSUME IInv, UNCHANGED <<accountsToLoad, callbacks, bufferAndSlotMap, mostRecentSlot>>
    PROVE  /\ RegistryConsistent' /\ BufferIsChainState' /\ MostRecentSlotCoversBuffers'
           /\ StoredSlotsForward
<1>1. \A k \in Key : bufferAndSlotMap[k] # None => bufferAndSlotMap[k].slot \in Int
  BY SlotAssumption DEF IInv, TypeOK
<1> QED
  BY <1>1 DEF IInv, RegistryConsistent, BufferIsChainState,
     MostRecentSlotCoversBuffers, StoredSlotsForward

(* A batch of a load is over, and the load may fail with it.                *)
LEMMA BatchGone ==
    ASSUME IInv, NEW l \in Load, NEW b, NEW phase \in Phase,
           job[l].phase = "ended" => phase = "ended",
           UNCHANGED <<accountsToLoad, loadPromiseResolver>>, BatchOver(l, b, phase)
    PROVE  job' \in [Load -> Job] /\ JobsOK' /\ ResolverKept'
<1>1. job[l] \in Job
  BY DEF IInv, TypeOK
<1> DEFINE new == [job[l] EXCEPT !.pending = job[l].pending \ {b}, !.phase = phase]
<1>2. job' = [job EXCEPT ![l] = new]
  BY DEF BatchOver
<1>3. /\ new \in Job
      /\ new.live = job[l].live /\ new.asked = job[l].asked /\ new.keys = job[l].keys
      /\ job[l].phase = "ended" => new.phase = "ended"
  BY <1>1
<1> HIDE DEF new
<1>4. job' \in [Load -> Job]
  BY <1>2, <1>3 DEF IInv, TypeOK
<1>5. \A m \in Load : /\ job'[m].live = job[m].live
                      /\ job'[m].asked = job[m].asked
                      /\ job'[m].keys = job[m].keys
                      /\ job[m].phase = "ended" => job'[m].phase = "ended"
  BY <1>3, <1>2 DEF IInv, TypeOK
<1> QED
  BY <1>4, <1>5 DEF IInv, JobsOK, ResolverKept

(* A step that touches neither the registry nor the loads keeps JobsOK.     *)
LEMMA JobsUnchanged ==
    ASSUME IInv, UNCHANGED <<accountsToLoad, job>>
    PROVE  JobsOK' /\ (loadPromiseResolver' = loadPromiseResolver => ResolverKept')
BY DEF IInv, JobsOK, ResolverKept

LEMMA IInvStep == IInv /\ [Next]_vars => IInv' /\ StoredSlotsForward
<1> SUFFICES ASSUME IInv, [Next]_vars PROVE IInv' /\ StoredSlotsForward
  OBVIOUS
<1> USE DEF registry, timer, promise, waiters
<1>0. TypeOK
  BY DEF IInv
<1>s. \A k \in Key : bufferAndSlotMap[k] # None => bufferAndSlotMap[k].slot \in Int
  BY <1>0, SlotAssumption DEF TypeOK
<1>1. CASE AdvanceChain
  <2>1. TypeOK'
    BY <1>0, <1>1, SlotAssumption DEF TypeOK, AdvanceChain
  <2> QED
    BY <1>1, <2>1, StoredUnchanged, JobsUnchanged DEF AdvanceChain, IInv, PollingIffAccounts
<1>2. CASE MinutePasses
  <2>1. TypeOK'
    BY <1>0, <1>2 DEF TypeOK, MinutePasses
  <2> QED
    BY <1>2, <2>1, StoredUnchanged, JobsUnchanged DEF MinutePasses, IInv, PollingIffAccounts
<1>3. ASSUME NEW k \in Key, NEW c \in Callback, AddAccount(k, c)
      PROVE  IInv' /\ StoredSlotsForward
  <2>1. TypeOK'
    BY <1>0, <1>3 DEF TypeOK, AddAccount, PollingAfterStart
  <2>2. RegistryConsistent'
    BY <1>0, <1>3 DEF TypeOK, AddAccount, IInv, RegistryConsistent
  <2>3. JobsOK' /\ ResolverKept'
    BY <1>3 DEF AddAccount, IInv, JobsOK, ResolverKept
  <2>4. BufferIsChainState' /\ MostRecentSlotCoversBuffers' /\ StoredSlotsForward
    BY <1>3, <1>s DEF AddAccount, IInv, BufferIsChainState, MostRecentSlotCoversBuffers, StoredSlotsForward
  <2>5. PollingIffAccounts'
    BY <1>0, <1>3 DEF TypeOK, AddAccount, IInv, PollingIffAccounts, PollingAfterStart
  <2> QED
    BY <2>1, <2>2, <2>3, <2>4, <2>5 DEF IInv
<1>4. ASSUME NEW k \in Key, NEW c \in Callback, RemoveAccount(k, c)
      PROVE  IInv' /\ StoredSlotsForward
  <2>1. CASE Emptied(k, c)
    <3>1. /\ accountsToLoad' = accountsToLoad \ {k}
          /\ bufferAndSlotMap' = [bufferAndSlotMap EXCEPT ![k] = None]
          /\ job' = [l \in Load |-> [job[l] EXCEPT !.live = @ \ {k}]]
          /\ callbacks' = [callbacks EXCEPT ![k] = {}]
      BY <1>0, <1>4, <2>1 DEF RemoveAccount, Emptied, TypeOK
    <3>2. \A l \in Load : /\ job'[l] \in Job
                          /\ job'[l].live = job[l].live \ {k}
                          /\ job'[l].asked = job[l].asked
                          /\ job'[l].keys = job[l].keys
                          /\ job'[l].phase = job[l].phase
      <4> TAKE l \in Load
      <4>1. job[l] \in Job
        BY <1>0 DEF TypeOK
      <4>2. job'[l] = [job[l] EXCEPT !.live = @ \ {k}]
        BY <3>1
      <4> QED
        BY <4>1, <4>2
    <3>3. job' \in [Load -> Job]
      BY <3>1, <3>2
    <3>4. TypeOK'
      <4>1. /\ bufferAndSlotMap' \in [Key -> Entry \cup {None}]
            /\ callbacks' \in [Key -> SUBSET Callback]
            /\ accountsToLoad' \in SUBSET Key
        BY <1>0, <3>1 DEF TypeOK
      <4>2. /\ pc' \in [Callback -> {"idle", "adding", "added", "removed"}]
            /\ intervalId' \in BOOLEAN
        BY <1>0, <1>4 DEF TypeOK, RemoveAccount
      <4>3. UNCHANGED <<head, errorCallbacks, mostRecentSlot, pollingFrequency, promise,
                        awaiting, delivered>>
        BY <1>4 DEF RemoveAccount
      <4> QED
        BY <1>0, <3>3, <4>1, <4>2, <4>3 DEF TypeOK
    <3>5. JobsOK' /\ ResolverKept'
      BY <1>4, <3>1, <3>2 DEF IInv, JobsOK, ResolverKept, RemoveAccount
    <3>6. RegistryConsistent'
      BY <1>0, <3>1 DEF IInv, RegistryConsistent, TypeOK
    <3>7. BufferIsChainState' /\ MostRecentSlotCoversBuffers' /\ StoredSlotsForward
      BY <1>0, <1>s, <1>4, <3>1 DEF RemoveAccount, IInv, BufferIsChainState,
         MostRecentSlotCoversBuffers, StoredSlotsForward, TypeOK
    <3>8. PollingIffAccounts'
      BY <1>4 DEF RemoveAccount, IInv, PollingIffAccounts
    <3> QED
      BY <3>4, <3>5, <3>6, <3>7, <3>8 DEF IInv
  <2>2. CASE ~Emptied(k, c)
    <3>1. UNCHANGED <<accountsToLoad, bufferAndSlotMap, job>>
      BY <1>4, <2>2 DEF RemoveAccount
    <3>2. TypeOK'
      BY <1>0, <1>4, <3>1 DEF TypeOK, RemoveAccount
    <3>3. RegistryConsistent'
      BY <1>0, <1>4, <2>2, <3>1 DEF RemoveAccount, IInv, RegistryConsistent, TypeOK, Emptied
    <3>4. BufferIsChainState' /\ MostRecentSlotCoversBuffers' /\ StoredSlotsForward
      BY <1>s, <1>4, <3>1 DEF RemoveAccount, IInv, BufferIsChainState,
         MostRecentSlotCoversBuffers, StoredSlotsForward
    <3>5. PollingIffAccounts'
      BY <1>4 DEF RemoveAccount, IInv, PollingIffAccounts
    <3>6. ResolverKept'
      BY <1>4, <3>1 DEF RemoveAccount, IInv, ResolverKept
    <3> QED
      BY <3>1, <3>2, <3>3, <3>4, <3>5, <3>6, JobsUnchanged DEF IInv
  <2> QED
    BY <2>1, <2>2
<1>5. ASSUME NEW c \in Callback, AddAccountReturns(c)
      PROVE  IInv' /\ StoredSlotsForward
  <2>1. TypeOK'
    BY <1>0, <1>5 DEF TypeOK, AddAccountReturns
  <2> QED
    BY <1>5, <2>1, StoredUnchanged, JobsUnchanged DEF AddAccountReturns, IInv, PollingIffAccounts
<1>6. ASSUME NEW e \in ErrorCallback, AddErrorCallbacks(e) \/ RemoveErrorCallbacks(e)
      PROVE  IInv' /\ StoredSlotsForward
  <2>1. TypeOK'
    BY <1>0, <1>6 DEF TypeOK, AddErrorCallbacks, RemoveErrorCallbacks
  <2> QED
    BY <1>6, <2>1, StoredUnchanged, JobsUnchanged
    DEF AddErrorCallbacks, RemoveErrorCallbacks, IInv, PollingIffAccounts
<1>7. ASSUME NEW frequency \in {0, 1}, UpdatePollingFrequency(frequency)
      PROVE  IInv' /\ StoredSlotsForward
  <2>1. TypeOK'
    BY <1>0, <1>7 DEF TypeOK, UpdatePollingFrequency
  <2>2. PollingIffAccounts'
    BY <1>7 DEF UpdatePollingFrequency, PollingIffAccounts, PollingAfterStart
  <2> QED
    BY <1>7, <2>1, <2>2, StoredUnchanged, JobsUnchanged DEF UpdatePollingFrequency, IInv
<1>8. ASSUME NEW l \in Load, StartLoad(l)
      PROVE  IInv' /\ StoredSlotsForward
  <2>1. PICK keys \in Enumerations(accountsToLoad) :
          job' = [job EXCEPT ![l] =
                    [phase   |-> "running",
                     keys    |-> keys,
                     asked   |-> {p \in DOMAIN keys : callbacks[keys[p]] # {}},
                     live    |-> accountsToLoad,
                     pending |-> {BatchOf(p) : p \in DOMAIN keys}]]
    BY <1>8 DEF StartLoad
  <2>2. /\ keys \in UNION {[1 .. n -> Key] : n \in 0 .. Cardinality(Key)}
        /\ DOMAIN keys \subseteq Positions
        /\ \A p \in DOMAIN keys : keys[p] \in accountsToLoad /\ p \in Nat \ {0}
    BY <1>0, EnumerationsType DEF TypeOK
  <2>3. {p \in DOMAIN keys : callbacks[keys[p]] # {}} = DOMAIN keys
    BY <1>0, <2>2 DEF IInv, RegistryConsistent, TypeOK
  <2>4. {BatchOf(p) : p \in DOMAIN keys} \in SUBSET Nat
    BY <2>2, BatchOfNat
  <2> DEFINE new == [phase |-> "running", keys |-> keys, asked |-> DOMAIN keys,
                     live |-> accountsToLoad, pending |-> {BatchOf(p) : p \in DOMAIN keys}]
  <2>5. job' = [job EXCEPT ![l] = new]
    BY <2>1, <2>3
  <2>6. new \in Job
    BY <1>0, <2>2, <2>4 DEF TypeOK
  <2>7. /\ new.live = accountsToLoad /\ new.asked = DOMAIN new.keys
        /\ \A p, q \in DOMAIN new.keys : new.keys[p] = new.keys[q] => p = q
    BY DEF Enumerations
  <2> HIDE DEF new
  <2>8. TypeOK'
    <3>1. job' \in [Load -> Job]
      BY <1>0, <2>5, <2>6 DEF TypeOK
    <3> QED
      BY <1>0, <1>8, <3>1 DEF TypeOK, StartLoad, ResolverOf
  <2>9. JobsOK'
    <3>1. accountsToLoad' = accountsToLoad
      BY <1>8 DEF StartLoad
    <3>2. job'[l] = new /\ \A m \in Load : m # l => job'[m] = job[m]
      BY <1>0, <2>5 DEF TypeOK
    <3> QED
      BY <3>1, <3>2, <2>7 DEF IInv, JobsOK
  <2>10. ResolverKept'
    BY <1>8, NoneAssumption DEF StartLoad, ResolverOf, ResolverKept
  <2> QED
    BY <1>8, <2>8, <2>9, <2>10, StoredUnchanged DEF StartLoad, IInv, PollingIffAccounts
<1>9. ASSUME NEW l \in Load, FinishLoad(l)
      PROVE  IInv' /\ StoredSlotsForward
  <2> DEFINE new == [job[l] EXCEPT !.phase = "ended"]
  <2>1. job[l] \in Job
    BY <1>0 DEF TypeOK
  <2>2. /\ new \in Job
        /\ new.live = job[l].live /\ new.asked = job[l].asked /\ new.keys = job[l].keys
        /\ new.phase = "ended"
    BY <2>1
  <2>3. job' = [job EXCEPT ![l] = new]
    BY <1>9 DEF FinishLoad
  <2>4. loadPromiseResolver \in Load
    BY <1>0, <1>9 DEF FinishLoad, Finished, IInv, ResolverKept, TypeOK
  <2> HIDE DEF new
  <2>5. job' \in [Load -> Job]
    BY <1>0, <2>2, <2>3 DEF TypeOK
  <2>6. TypeOK'
    BY <1>0, <1>9, <2>4, <2>5 DEF TypeOK, FinishLoad
  <2>7. \A m \in Load : /\ job'[m].live = job[m].live
                        /\ job'[m].asked = job[m].asked
                        /\ job'[m].keys = job[m].keys
                        /\ job[m].phase = "ended" => job'[m].phase = "ended"
    BY <1>0, <2>2, <2>3 DEF TypeOK
  <2>8. JobsOK' /\ ResolverKept'
    BY <1>9, <2>7 DEF FinishLoad, IInv, JobsOK, ResolverKept
  <2> QED
    BY <1>9, <2>6, <2>8, StoredUnchanged DEF FinishLoad, IInv, PollingIffAccounts
<1>10. ASSUME NEW l \in Load, NEW b, BatchTimesOut(l, b) \/ BatchRejects(l, b)
      PROVE  IInv' /\ StoredSlotsForward
  <2>1. job[l].phase \in Phase
    BY <1>0 DEF TypeOK
  <2>2. PICK phase \in Phase : BatchOver(l, b, phase) /\ (job[l].phase = "ended" => phase = "ended")
    BY <1>10, <2>1 DEF BatchTimesOut, BatchRejects, FailedPhase
  <2>3. job' \in [Load -> Job] /\ JobsOK' /\ ResolverKept'
    BY <1>10, <2>2, BatchGone DEF BatchTimesOut, BatchRejects
  <2>4. TypeOK'
    BY <1>0, <1>10, <2>3 DEF TypeOK, BatchTimesOut, BatchRejects
  <2> QED
    BY <1>10, <2>3, <2>4, StoredUnchanged DEF BatchTimesOut, BatchRejects, IInv, PollingIffAccounts
<1>11. ASSUME NEW l \in Load, NEW b, NEW at \in Slots(l, b),
              HandleBatch(l, b, at) \/ HandleBatchThrows(l, b, at)
       PROVE  IInv' /\ StoredSlotsForward
  <2>1. job[l].phase \in Phase
    BY <1>0 DEF TypeOK
  <2>2. PICK phase \in Phase : BatchOver(l, b, phase) /\ (job[l].phase = "ended" => phase = "ended")
    BY <1>11, <2>1 DEF HandleBatch, HandleBatchThrows, FailedPhase
  <2>3. job' \in [Load -> Job] /\ JobsOK' /\ ResolverKept'
    BY <1>11, <2>2, BatchGone DEF HandleBatch, HandleBatchThrows
  <2>4. PICK done \in SUBSET BatchPositions(l, b) : \E told : StoreAnswers(l, at, done, told)
    <3>1. CASE HandleBatch(l, b, at)
      BY <3>1 DEF HandleBatch
    <3>2. CASE HandleBatchThrows(l, b, at)
      BY <3>2 DEF HandleBatchThrows
    <3> QED
      BY <1>11, <3>1, <3>2
  <2>5. PICK told : StoreAnswers(l, at, done, told)
    BY <2>4
  <2>6. /\ bufferAndSlotMap' \in [Key -> Entry \cup {None}]
        /\ delivered' \in [Callback -> Entry \cup {None}]
        /\ mostRecentSlot' \in 0 .. MaxSlot
        /\ \A k \in Key : bufferAndSlotMap'[k] # None =>
              /\ k \in accountsToLoad
              /\ bufferAndSlotMap'[k].buffer = Ledger[k][bufferAndSlotMap'[k].slot]
              /\ bufferAndSlotMap'[k].slot <= mostRecentSlot'
        /\ StoredSlotsForward
    BY <2>5, StoreAnswersEffect
  <2>7. UNCHANGED <<head, accountsToLoad, callbacks, errorCallbacks, timer, promise, waiters>>
    BY <1>11 DEF HandleBatch, HandleBatchThrows
  <2>8. TypeOK'
    BY <1>0, <2>3, <2>6, <2>7 DEF TypeOK
  <2>9. RegistryConsistent' /\ BufferIsChainState' /\ MostRecentSlotCoversBuffers'
    BY <2>6, <2>7 DEF IInv, RegistryConsistent, BufferIsChainState, MostRecentSlotCoversBuffers
  <2>10. PollingIffAccounts'
    BY <2>7 DEF IInv, PollingIffAccounts
  <2> QED
    BY <2>3, <2>6, <2>8, <2>9, <2>10 DEF IInv
<1>12. CASE UNCHANGED vars
  <2>1. TypeOK'
    BY <1>0, <1>12 DEF TypeOK, vars
  <2> QED
    BY <1>12, <2>1, StoredUnchanged, JobsUnchanged DEF vars, IInv, PollingIffAccounts
<1> QED
  <2>1. CASE Next
    BY <2>1, <1>1, <1>2, <1>3, <1>4, <1>5, <1>6, <1>7, <1>8, <1>9, <1>10, <1>11
    DEF Next, PollTick, ClientLoad
  <2> QED
    BY <2>1, <1>12

(* Type correctness of the loader.                                          *)
THEOREM TypeCorrect == Spec => []TypeOK
<1>1. IInv => TypeOK
  BY DEF IInv
<1> QED
  BY <1>1, InitIInv, IInvStep, PTL DEF Spec

(* Whatever is added, removed, answered late or lost, the registry has no   *)
(* account without callbacks and no buffer of an account that left it.      *)
THEOREM RegistryStaysConsistent == Spec => []RegistryConsistent
<1>1. IInv => RegistryConsistent
  BY DEF IInv
<1> QED
  BY <1>1, InitIInv, IInvStep, PTL DEF Spec

(* The response values are attributed to the right accounts: a stored       *)
(* buffer is the account's buffer on chain at the stored slot, for every    *)
(* chunk size and number of accounts.                                       *)
THEOREM StoredBuffersAreChainStates == Spec => []BufferIsChainState
<1>1. IInv => BufferIsChainState
  BY DEF IInv
<1> QED
  BY <1>1, InitIInv, IInvStep, PTL DEF Spec

(* getSlot() never lags behind a stored buffer.                             *)
THEOREM MostRecentSlotIsCurrent == Spec => []MostRecentSlotCoversBuffers
<1>1. IInv => MostRecentSlotCoversBuffers
  BY DEF IInv
<1> QED
  BY <1>1, InitIInv, IInvStep, PTL DEF Spec

(* The polling timer runs exactly while it has something to poll.           *)
THEOREM PollingTimerCorrect == Spec => []PollingIffAccounts
<1>1. IInv => PollingIffAccounts
  BY DEF IInv
<1> QED
  BY <1>1, InitIInv, IInvStep, PTL DEF Spec

(* The registry, the polling timer and the most recent slot of the loader   *)
(* agree at every moment, whatever calls, answers and time-outs interleave. *)
THEOREM LoaderStaysConsistent == Spec => []LoaderConsistent
<1>1. IInv => LoaderConsistent
  BY DEF IInv, LoaderConsistent
<1> QED
  BY <1>1, InitIInv, IInvStep, PTL DEF Spec

-----------------------------------------------------------------------------
(* What the callbacks were handed.  A callback id is registered under one   *)
(* account at most, and none is before its addAccount call.                 *)
IdsOK ==
    /\ \A c \in Callback : pc[c] = "idle" =>
          delivered[c] = None /\ \A k \in Key : c \notin callbacks[k]
    /\ \A j, k \in Key : \A c \in callbacks[j] : c \in callbacks[k] => j = k

CInv == IInv /\ IdsOK /\ CallbacksSawStoredEntry

DeliveredForward ==
    \A c \in Callback : delivered[c] # None
        => delivered'[c] # None /\ delivered[c].slot <= delivered'[c].slot

(* Storing answers tells the callbacks of the updated accounts, all of them *)
(* unless one throws, and nobody else.                                      *)
LEMMA StoreAnswersDelivers ==
    ASSUME CInv, NEW l \in Load, NEW b, NEW at \in Slots(l, b),
           NEW done \in SUBSET BatchPositions(l, b), NEW told,
           StoreAnswers(l, at, done, told),
           CallbacksMayThrow \/ told = Callback,
           callbacks' = callbacks
    PROVE  /\ CallbacksSawStoredEntry'
           /\ DeliveredForward
           /\ \A c \in Callback :
                 delivered'[c] = delivered[c] \/ \E k \in Key : c \in callbacks[k]
<1> USE DEF CInv
<1> DEFINE updated == UpdatedPositions(l, at, done)
           At(k) == CHOOSE p \in updated : job[l].keys[p] = k
           For(c) == CHOOSE p \in updated : c \in ObjectCallbacks(l, job[l].keys[p])
<1>0. TypeOK /\ JobsOK
  BY DEF IInv
<1>1. \A p \in updated :
        /\ EntryAt(l, at, p) \in Entry
        /\ EntryAt(l, at, p) # None
        /\ p \in DOMAIN job[l].keys /\ job[l].keys[p] \in Key
        /\ ObjectCallbacks(l, job[l].keys[p]) = callbacks[job[l].keys[p]]
        /\ bufferAndSlotMap[job[l].keys[p]] # None =>
              bufferAndSlotMap[job[l].keys[p]].slot <= EntryAt(l, at, p).slot
  <2> TAKE p \in updated
  <2>1. /\ at[RequestOf(p)] \in Slot
        /\ EntryAt(l, at, p) \in Entry
        /\ p \in DOMAIN job[l].keys /\ job[l].keys[p] \in Key
    BY <1>0, EntryAtType
  <2>2. Accepted(l, p, at[RequestOf(p)])
    BY DEF UpdatedPositions
  <2>3. ObjectCallbacks(l, job[l].keys[p]) = callbacks[job[l].keys[p]]
    BY <2>2 DEF Accepted, ObjectCallbacks
  <2>4. bufferAndSlotMap[job[l].keys[p]] # None =>
           at[RequestOf(p)] >= bufferAndSlotMap[job[l].keys[p]].slot
    BY <2>2 DEF Accepted
  <2>5. bufferAndSlotMap[job[l].keys[p]] # None =>
           bufferAndSlotMap[job[l].keys[p]].slot \in Slot
    BY <1>0, <2>1 DEF TypeOK
  <2>6. EntryAt(l, at, p).slot = at[RequestOf(p)]
    BY DEF EntryAt
  <2>7. bufferAndSlotMap[job[l].keys[p]] # None =>
           bufferAndSlotMap[job[l].keys[p]].slot <= EntryAt(l, at, p).slot
    BY <2>1, <2>4, <2>5, <2>6, SlotAssumption
  <2> HIDE DEF updated
  <2> QED
    BY <2>1, <2>3, <2>7, NoneAssumption
<1>2. \A p, q \in updated : job[l].keys[p] = job[l].keys[q] => p = q
  BY <1>0, <1>1 DEF JobsOK
<1>3. \A c \in Callback : \A p \in updated :
        c \in callbacks[job[l].keys[p]] => For(c) = p
  <2> SUFFICES ASSUME NEW c \in Callback, NEW p \in updated, c \in callbacks[job[l].keys[p]]
               PROVE  For(c) = p
    OBVIOUS
  <2>1. For(c) \in updated /\ c \in ObjectCallbacks(l, job[l].keys[For(c)])
    BY <1>1
  <2>2. c \in callbacks[job[l].keys[For(c)]]
    BY <2>1, <1>1
  <2>3. job[l].keys[For(c)] = job[l].keys[p]
    BY <2>1, <2>2, <1>1 DEF IdsOK
  <2> QED
    BY <2>1, <2>3, <1>2
<1>4. \A c \in Callback :
        \/ delivered'[c] = delivered[c]
        \/ \E p \in updated : /\ c \in callbacks[job[l].keys[p]]
                              /\ delivered'[c] = EntryAt(l, at, p)
  <2> TAKE c \in Callback
  <2>1. CASE c \in told /\ \E p \in updated : c \in ObjectCallbacks(l, job[l].keys[p])
    <3>1. For(c) \in updated /\ c \in ObjectCallbacks(l, job[l].keys[For(c)])
      BY <2>1
    <3>2. delivered'[c] = EntryAt(l, at, For(c))
      BY <2>1 DEF StoreAnswers
    <3> QED
      BY <3>1, <3>2, <1>1
  <2>2. CASE ~(c \in told /\ \E p \in updated : c \in ObjectCallbacks(l, job[l].keys[p]))
    BY <2>2 DEF StoreAnswers
  <2> QED
    BY <2>1, <2>2
<1>5. \A k \in Key :
        \/ bufferAndSlotMap'[k] = bufferAndSlotMap[k] /\ \A p \in updated : job[l].keys[p] # k
        \/ \E p \in updated : job[l].keys[p] = k /\ bufferAndSlotMap'[k] = EntryAt(l, at, p)
  <2> TAKE k \in Key
  <2>1. CASE \E p \in updated : job[l].keys[p] = k
    <3>1. At(k) \in updated /\ job[l].keys[At(k)] = k
      BY <2>1
    <3>2. bufferAndSlotMap'[k] = EntryAt(l, at, At(k))
      BY <2>1 DEF StoreAnswers
    <3> QED
      BY <3>1, <3>2
  <2>2. CASE ~\E p \in updated : job[l].keys[p] = k
    BY <2>2 DEF StoreAnswers
  <2> QED
    BY <2>1, <2>2
<1>6. told = Callback => \A c \in Callback : \A p \in updated :
        c \in callbacks[job[l].keys[p]] => delivered'[c] = EntryAt(l, at, p)
  <2> SUFFICES ASSUME told = Callback, NEW c \in Callback, NEW p \in updated,
                      c \in callbacks[job[l].keys[p]]
               PROVE  delivered'[c] = EntryAt(l, at, p)
    OBVIOUS
  <2>1. \E q \in updated : c \in ObjectCallbacks(l, job[l].keys[q])
    BY <1>1
  <2>2. delivered'[c] = EntryAt(l, at, For(c))
    BY <2>1 DEF StoreAnswers
  <2> QED
    BY <2>2, <1>3
<1> HIDE DEF updated
<1>7. \A k \in Key : /\ callbacks[k] \subseteq Callback
                     /\ bufferAndSlotMap[k] # None => bufferAndSlotMap[k] \in Entry
  BY <1>0 DEF TypeOK
<1>8. \A c \in Callback : delivered[c] # None => delivered[c].slot \in Int
  BY <1>0, SlotAssumption DEF TypeOK
<1>9. CallbacksSawStoredEntry'
  <2> SUFFICES ASSUME NEW k \in Key, NEW c \in callbacks[k], delivered'[c] # None
               PROVE  /\ bufferAndSlotMap'[k] # None
                      /\ delivered'[c].slot <= bufferAndSlotMap'[k].slot
                      /\ CallbacksMayThrow \/ delivered'[c] = bufferAndSlotMap'[k]
    BY DEF CallbacksSawStoredEntry
  <2>0. c \in Callback
    BY <1>7
  <2>1. CASE bufferAndSlotMap'[k] = bufferAndSlotMap[k] /\ \A p \in updated : job[l].keys[p] # k
    <3>1. delivered'[c] = delivered[c]
      BY <2>0, <2>1, <1>1, <1>4 DEF IdsOK
    <3> QED
      BY <2>1, <3>1 DEF CallbacksSawStoredEntry
  <2>2. ASSUME NEW p \in updated, job[l].keys[p] = k, bufferAndSlotMap'[k] = EntryAt(l, at, p)
        PROVE  /\ bufferAndSlotMap'[k] # None
               /\ delivered'[c].slot <= bufferAndSlotMap'[k].slot
               /\ CallbacksMayThrow \/ delivered'[c] = bufferAndSlotMap'[k]
    <3>1. bufferAndSlotMap'[k] # None
      BY <2>2, <1>1
    <3>2. EntryAt(l, at, p).slot \in Int
      BY <1>1, SlotAssumption
    <3>3. CASE delivered'[c] = delivered[c]
      <4>1. delivered[c].slot \in Int
        BY <2>0, <1>8, <3>3
      <4>2. /\ bufferAndSlotMap[k] # None
            /\ delivered[c].slot <= bufferAndSlotMap[k].slot
        BY <3>3 DEF CallbacksSawStoredEntry
      <4>3. bufferAndSlotMap[k].slot \in Int
        BY <4>2, <1>7, SlotAssumption
      <4>4. bufferAndSlotMap[k].slot <= EntryAt(l, at, p).slot
        BY <4>2, <2>2, <1>1
      <4>5. delivered'[c].slot <= bufferAndSlotMap'[k].slot
        BY <3>2, <3>3, <4>1, <4>2, <4>3, <4>4, <2>2
      <4> QED
        BY <3>1, <4>5, <2>0, <2>2, <1>6
    <3>4. ASSUME NEW q \in updated, c \in callbacks[job[l].keys[q]],
                 delivered'[c] = EntryAt(l, at, q)
          PROVE  delivered'[c] = EntryAt(l, at, p)
      <4>1. job[l].keys[q] = k
        BY <3>4, <1>1 DEF IdsOK
      <4> QED
        BY <4>1, <3>4, <2>2, <1>2
    <3>5. CASE delivered'[c] = EntryAt(l, at, p)
      BY <3>1, <3>2, <3>5, <2>2
    <3> QED
      BY <2>0, <1>4, <3>3, <3>4, <3>5
  <2> QED
    BY <2>1, <2>2, <1>5
<1>10. DeliveredForward
  <2> SUFFICES ASSUME NEW c \in Callback, delivered[c] # None
               PROVE  delivered'[c] # None /\ delivered[c].slot <= delivered'[c].slot
    BY DEF DeliveredForward
  <2>1. CASE delivered'[c] = delivered[c]
    BY <2>1, <1>8
  <2>2. ASSUME NEW p \in updated, c \in callbacks[job[l].keys[p]],
               delivered'[c] = EntryAt(l, at, p)
        PROVE  delivered'[c] # None /\ delivered[c].slot <= delivered'[c].slot
    <3> DEFINE k == job[l].keys[p]
    <3>1. k \in Key
      BY <1>1
    <3>2. bufferAndSlotMap[k] # None /\ delivered[c].slot <= bufferAndSlotMap[k].slot
      BY <2>2, <3>1 DEF CallbacksSawStoredEntry
    <3>3. bufferAndSlotMap[k].slot \in Int /\ EntryAt(l, at, p).slot \in Int
      BY <3>1, <3>2, <1>7, <1>1, SlotAssumption
    <3>4. bufferAndSlotMap[k].slot <= EntryAt(l, at, p).slot
      BY <3>2, <1>1
    <3> HIDE DEF k
    <3> QED
      BY <1>1, <2>2, <3>2, <3>3, <3>4, <1>8
  <2> QED
    BY <2>1, <2>2, <1>4
<1> QED
  BY <1>4, <1>1, <1>9, <1>10

(* Nothing is stored, delivered or removed from a callback map.             *)
LEMMA NothingDelivered ==
    ASSUME CInv, UNCHANGED <<callbacks, bufferAndSlotMap, delivered>>,
           \A c \in Callback : pc'[c] = "idle" => pc[c] = "idle"
    PROVE  IdsOK' /\ CallbacksSawStoredEntry' /\ DeliveredForward
<1>1. \A c \in Callback : delivered[c] # None => delivered[c].slot \in Int
  BY SlotAssumption DEF CInv, IInv, TypeOK
<1> QED
  BY <1>1 DEF CInv, IdsOK, CallbacksSawStoredEntry, DeliveredForward

LEMMA CInvStep == CInv /\ [Next]_vars => CInv' /\ DeliveredForward
<1> SUFFICES ASSUME CInv, [Next]_vars PROVE CInv' /\ DeliveredForward
  OBVIOUS
<1>0. TypeOK /\ IInv'
  BY IInvStep DEF CInv, IInv
<1>s. \A c \in Callback : delivered[c] # None => delivered[c].slot \in Int
  BY <1>0, SlotAssumption DEF TypeOK
<1> SUFFICES IdsOK' /\ CallbacksSawStoredEntry' /\ DeliveredForward
  BY <1>0 DEF CInv
<1> USE DEF registry, timer, promise, waiters
<1>1. CASE \/ AdvanceChain \/ MinutePasses
           \/ \E e \in ErrorCallback : AddErrorCallbacks(e) \/ RemoveErrorCallbacks(e)
           \/ \E frequency \in {0, 1} : UpdatePollingFrequency(frequency)
           \/ \E l \in Load : StartLoad(l) \/ FinishLoad(l)
           \/ UNCHANGED vars
  BY <1>1, NothingDelivered DEF AdvanceChain, MinutePasses, AddErrorCallbacks,
     RemoveErrorCallbacks, UpdatePollingFrequency, StartLoad, FinishLoad, vars
<1>2. ASSUME NEW k \in Key, NEW c \in Callback, AddAccount(k, c)
      PROVE  IdsOK' /\ CallbacksSawStoredEntry' /\ DeliveredForward
  <2>1. /\ pc[c] = "idle" /\ pc' = [pc EXCEPT ![c] = "adding"]
        /\ callbacks' = [callbacks EXCEPT ![k] = @ \cup {c}]
        /\ bufferAndSlotMap' = bufferAndSlotMap /\ delivered' = delivered
    BY <1>2 DEF AddAccount
  <2>2. delivered[c] = None /\ \A j \in Key : c \notin callbacks[j]
    BY <2>1 DEF CInv, IdsOK
  <2>3. \A j \in Key : callbacks'[j] = IF j = k THEN callbacks[k] \cup {c} ELSE callbacks[j]
    BY <1>0, <2>1 DEF TypeOK
  <2>4. IdsOK'
    BY <1>0, <2>1, <2>2, <2>3 DEF CInv, IdsOK, TypeOK
  <2>5. CallbacksSawStoredEntry'
    BY <2>1, <2>2, <2>3 DEF CInv, CallbacksSawStoredEntry
  <2> QED
    BY <2>1, <2>4, <2>5, <1>s DEF DeliveredForward
<1>3. ASSUME NEW k \in Key, NEW c \in Callback, RemoveAccount(k, c)
      PROVE  IdsOK' /\ CallbacksSawStoredEntry' /\ DeliveredForward
  <2>1. /\ pc' = [pc EXCEPT ![c] = "removed"]
        /\ callbacks' = [callbacks EXCEPT ![k] = @ \ {c}]
        /\ delivered' = delivered
        /\ bufferAndSlotMap' = IF Emptied(k, c) THEN [bufferAndSlotMap EXCEPT ![k] = None]
                               ELSE bufferAndSlotMap
    BY <1>3 DEF RemoveAccount
  <2>2. /\ \A j \in Key : callbacks'[j] = IF j = k THEN callbacks[k] \ {c} ELSE callbacks[j]
        /\ \A d \in Callback : pc'[d] = IF d = c THEN "removed" ELSE pc[d]
    BY <1>0, <2>1 DEF TypeOK
  <2>3. IdsOK'
    BY <2>1, <2>2 DEF CInv, IdsOK
  <2>4. \A j \in Key : callbacks'[j] = {} \/ bufferAndSlotMap'[j] = bufferAndSlotMap[j]
    BY <1>0, <2>1, <2>2 DEF Emptied, TypeOK
  <2>5. CallbacksSawStoredEntry'
    BY <2>1, <2>2, <2>4 DEF CInv, CallbacksSawStoredEntry
  <2> QED
    BY <2>1, <2>3, <2>5, <1>s DEF DeliveredForward
<1>4. ASSUME NEW c \in Callback, AddAccountReturns(c)
      PROVE  IdsOK' /\ CallbacksSawStoredEntry' /\ DeliveredForward
  <2>1. /\ pc[c] = "adding" /\ pc' = [pc EXCEPT ![c] = "added"]
        /\ UNCHANGED <<callbacks, bufferAndSlotMap, delivered>>
    BY <1>4 DEF AddAccountReturns
  <2> QED
    BY <1>0, <2>1, NothingDelivered DEF TypeOK
<1>5. ASSUME NEW l \in Load, NEW b, BatchTimesOut(l, b) \/ BatchRejects(l, b)
      PROVE  IdsOK' /\ CallbacksSawStoredEntry' /\ DeliveredForward
  BY <1>5, NothingDelivered DEF BatchTimesOut, BatchRejects
<1>6. ASSUME NEW l \in Load, NEW b, NEW at \in Slots(l, b),
             HandleBatch(l, b, at) \/ HandleBatchThrows(l, b, at)
      PROVE  IdsOK' /\ CallbacksSawStoredEntry' /\ DeliveredForward
  <2>1. callbacks' = callbacks /\ pc' = pc
    BY <1>6 DEF HandleBatch, HandleBatchThrows
  <2>2. PICK done \in SUBSET BatchPositions(l, b) : \E told :
           StoreAnswers(l, at, done, told) /\ (CallbacksMayThrow \/ told = Callback)
    <3>1. CASE HandleBatch(l, b, at)
      BY <3>1 DEF HandleBatch
    <3>2. CASE HandleBatchThrows(l, b, at)
      BY <3>2 DEF HandleBatchThrows
    <3> QED
      BY <1>6, <3>1, <3>2
  <2>3. PICK told : StoreAnswers(l, at, done, told) /\ (CallbacksMayThrow \/ told = Callback)
    BY <2>2
  <2>4. /\ CallbacksSawStoredEntry'
        /\ DeliveredForward
        /\ \A c \in Callback :
              delivered'[c] = delivered[c] \/ \E k \in Key : c \in callbacks[k]
    BY <2>1, <2>3, StoreAnswersDelivers
  <2>5. IdsOK'
    BY <2>1, <2>4 DEF CInv, IdsOK
  <2> QED
    BY <2>4, <2>5
<1> QED
  <2>1. CASE Next
    BY <2>1, <1>1, <1>2, <1>3, <1>4, <1>5, <1>6 DEF Next, PollTick, ClientLoad
  <2> QED
    BY <2>1, <1>1

LEMMA InitCInv == Init => CInv
BY InitIInv DEF Init, CInv, IdsOK, CallbacksSawStoredEntry

(* Whatever is added, removed or answered late, a registered callback was   *)
(* handed last what is stored, and nothing newer than that if a callback    *)
(* may throw.                                                               *)
THEOREM CallbacksSawWhatIsStored == Spec => []CallbacksSawStoredEntry
<1>1. CInv => CallbacksSawStoredEntry
  BY DEF CInv
<1> QED
  BY <1>1, InitCInv, CInvStep, PTL DEF Spec

(* While an account stays registered its stored slot never goes back, and   *)
(* no callback is ever handed an older slot: late answers, of this load or  *)
(* of an older one, are ignored.                                            *)
THEOREM SlotsNeverGoBack == Spec => SlotsOnlyMoveForward
<1>1. CInv /\ [Next]_vars => [StoredSlotsForward /\ DeliveredForward]_vars
  BY IInvStep, CInvStep DEF CInv
<1>2. CInv /\ [Next]_vars =>
        [/\ \A k \in Key : bufferAndSlotMap[k] # None /\ bufferAndSlotMap'[k] # None
                => bufferAndSlotMap[k].slot <= bufferAndSlotMap'[k].slot
         /\ \A c \in Callback : delivered[c] # None
                => delivered'[c] # None /\ delivered[c].slot <= delivered'[c].slot]_vars
  BY <1>1 DEF StoredSlotsForward, DeliveredForward
<1> QED
  BY <1>2, InitCInv, CInvStep, PTL DEF Spec, SlotsOnlyMoveForward
=============================================================================
