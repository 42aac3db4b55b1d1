-------------------------- MODULE OrderSubscriberProofs --------------------------
(***************************************************************************)
(* What OrderSubscriber keeps for any number of users, orders,              *)
(* transactions, failures and calls of unsubscribe(), in every              *)
(* configuration.  The argument is about versions: an account that was      *)
(* applied at a slot is the last version of that slot (Current), and an     *)
(* order that is open in a version was open in every version since it was   *)
(* placed (OpenSince).                                                      *)
(***************************************************************************)
EXTENDS OrderSubscriber, SequenceTheorems, TLAPS

Version == [slot : Nat, open : SUBSET Order, active : Nat]
Held    == [slot : Nat, version : Nat]

(* The slots of a user's versions grow, strictly unless processed.          *)
SlotsGrow ==
    \A u \in User : \A i, j \in 1 .. Len(versions[u]) : i < j =>
        /\ versions[u][i].slot <= versions[u][j].slot
        /\ ~config.processed => versions[u][i].slot < versions[u][j].slot

OpenSince ==
    \A u \in User : \A v \in 1 .. Len(versions[u]) : \A o \in versions[u][v].open :
        \E i \in 1 .. v : /\ versions[u][i].slot = placed[o]
                          /\ \A j \in i .. v : o \in versions[u][j].open

ChainOK ==
    /\ versions \in [User -> Seq(Version)]
    /\ \A u \in User : Len(versions[u]) >= 1
    /\ now <= transactions + 1
    /\ SlotsGrow /\ OpenSince

(* Version v is one that a node has at this slot; the last, unless          *)
(* processed.                                                               *)
Current(u, v, slot) ==
    /\ v \in 1 .. Len(versions[u]) /\ slot \in 1 .. now
    /\ versions[u][v].slot <= slot
    /\ ~config.processed /\ v < Len(versions[u]) => versions[u][v + 1].slot > slot

HeldOK ==
    /\ usersAccounts \in [User -> {None} \cup Held]
    /\ \A u \in User : usersAccounts[u] # None => Current(u, usersAccounts[u].version, usersAccounts[u].slot)
FetchOK ==
    /\ DOMAIN fetchPromise = {"at", "slot", "left"}
    /\ fetchPromise.at = "applying" =>
           \A u \in DOMAIN fetchPromise.left : u \in User /\ Current(u, fetchPromise.left[u], fetchPromise.slot)

(* Only orders that were placed are announced, and the account of their     *)
(* user is at the slot at which they were placed or a later one.            *)
AnnouncedOK ==
    /\ announced \in [Order -> Nat]
    /\ \A o \in Order : announced[o] >= 1 => placed[o] # 0
    /\ unsubscribes = 0 => \A o \in Order : announced[o] >= 1 =>
           usersAccounts[Owner[o]] # None /\ placed[o] <= usersAccounts[Owner[o]].slot

IInv ==
    /\ OrdersAnnounced /\ ChainOK /\ HeldOK /\ FetchOK /\ AnnouncedOK
    /\ unsubscribes \in Nat

Forward ==
    \A u \in User : usersAccounts[u] # None /\ usersAccounts'[u] # None =>
        /\ usersAccounts'[u].slot >= usersAccounts[u].slot
        /\ ~config.processed => usersAccounts'[u].version >= usersAccounts[u].version

-----------------------------------------------------------------------------
LEMMA VersionType ==
    ASSUME TypeOK, ChainOK, NEW u \in User, NEW v \in 1 .. Len(versions[u])
    PROVE  /\ Len(versions[u]) \in Nat /\ now \in Nat
           /\ versions[u][v] \in Version
           /\ versions[u][v].slot \in 1 .. now /\ versions[u][v].open \subseteq OrdersOf(u)
<1>1. versions[u] \in Seq(Version) /\ versions[u] \in Seq([slot : 1 .. now, open : SUBSET OrdersOf(u), active : 0 .. now])
  BY DEF TypeOK, ChainOK
<1>2. now \in Nat
  BY OrderSubscriberAssumption DEF TypeOK
<1>3. Len(versions[u]) \in Nat /\ versions[u][v] \in Version
  BY <1>1, ElementOfSeq, LenProperties
<1>4. versions[u][v] \in [slot : 1 .. now, open : SUBSET OrdersOf(u), active : 0 .. now]
  BY <1>1, ElementOfSeq
<1> QED
  BY <1>2, <1>3, <1>4

(* An answer is current at its slot, and so is a notified version.          *)
LEMMA AnswerCurrent ==
    ASSUME NEW u \in User, NEW slot \in 1 .. now, NEW v \in Answers(u, slot)
    PROVE  Current(u, v, slot)
BY DEF Answers, Current

LEMMA NotifiedCurrent ==
    ASSUME TypeOK, ChainOK, NEW u \in User, NEW v \in 1 .. Len(versions[u])
    PROVE  Current(u, v, versions[u][v].slot)
<1>1. Len(versions[u]) \in Nat /\ versions[u][v].slot \in 1 .. now /\ now \in Nat
  BY VersionType
<1>2. ASSUME ~config.processed, v < Len(versions[u])
      PROVE  versions[u][v + 1].slot > versions[u][v].slot
  <2>1. v + 1 \in 1 .. Len(versions[u]) /\ v < v + 1
    BY <1>1, <1>2
  <2>2. versions[u][v + 1].slot \in Int
    BY <2>1, VersionType
  <2> QED
    BY <1>1, <1>2, <2>1, <2>2 DEF ChainOK, SlotsGrow
<1> QED
  BY <1>1, <1>2 DEF Current

(* Later slots bring later versions, and no open order that was placed      *)
(* before the earlier slot is missing in the earlier version.               *)
LEMMA LaterVersion ==
    ASSUME TypeOK, ChainOK, ~config.processed, NEW u \in User, NEW v, NEW w, NEW s, NEW t,
           Current(u, w, s), Current(u, v, t), s <= t
    PROVE  /\ w <= v
           /\ \A o \in versions[u][v].open : placed[o] <= s => o \in versions[u][w].open
<1>1. /\ v \in 1 .. Len(versions[u]) /\ w \in 1 .. Len(versions[u]) /\ Len(versions[u]) \in Nat
      /\ s \in Int /\ t \in Int
      /\ versions[u][w].slot <= s /\ versions[u][v].slot <= t
      /\ w < Len(versions[u]) => versions[u][w + 1].slot > s
      /\ v < Len(versions[u]) => versions[u][v + 1].slot > t
  BY DEF Current, ChainOK
<1>2. \A i \in 1 .. Len(versions[u]) : versions[u][i].slot \in Int
  BY VersionType
<1>3. \A i, j \in 1 .. Len(versions[u]) : i <= j => versions[u][i].slot <= versions[u][j].slot
  BY <1>2 DEF ChainOK, SlotsGrow
<1>4. w <= v
  <2> SUFFICES ASSUME v < w PROVE FALSE
    BY <1>1
  <2>1. v + 1 \in 1 .. Len(versions[u]) /\ v + 1 <= w
    BY <1>1
  <2>2. versions[u][v + 1].slot <= versions[u][w].slot
    BY <1>1, <1>3, <2>1
  <2> QED
    BY <1>1, <1>2, <2>1, <2>2
<1>5. ASSUME NEW o \in versions[u][v].open, placed[o] <= s PROVE o \in versions[u][w].open
  <2>1. PICK i \in 1 .. v : /\ versions[u][i].slot = placed[o]
                            /\ \A j \in i .. v : o \in versions[u][j].open
    BY <1>1 DEF ChainOK, OpenSince
  <2>2. i <= w
    <3> SUFFICES ASSUME w < i PROVE FALSE
      BY <1>1
    <3>1. w + 1 \in 1 .. Len(versions[u]) /\ w + 1 <= i /\ i \in 1 .. Len(versions[u])
      BY <1>1
    <3>2. versions[u][w + 1].slot <= versions[u][i].slot
      BY <1>3, <3>1
    <3>3. versions[u][w + 1].slot > s /\ versions[u][i].slot <= s
      BY <1>1, <1>5, <2>1, <3>1
    <3> QED
      BY <1>1, <1>2, <3>1, <3>2, <3>3
  <2> QED
    BY <1>1, <1>4, <2>1, <2>2
<1> QED
  BY <1>4, <1>5

(* An order that is open was placed, and not after the version's slot.      *)
LEMMA OpenIsPlaced ==
    ASSUME TypeOK, ChainOK, NEW u \in User, NEW v \in 1 .. Len(versions[u]), NEW o \in versions[u][v].open
    PROVE  /\ o \in Order /\ Owner[o] = u
           /\ placed[o] \in Nat \ {0} /\ placed[o] <= versions[u][v].slot
<1>1. PICK i \in 1 .. v : versions[u][i].slot = placed[o]
  BY DEF ChainOK, OpenSince
<1>2. v \in Nat /\ i \in 1 .. Len(versions[u])
  BY VersionType
<1>3. versions[u][i].slot \in Nat \ {0} /\ versions[u][v].slot \in Nat
  BY <1>2, VersionType
<1>4. versions[u][i].slot <= versions[u][v].slot
  BY <1>2, <1>3 DEF ChainOK, SlotsGrow
<1>5. o \in OrdersOf(u)
  BY VersionType
<1> QED
  BY <1>1, <1>3, <1>4, <1>5 DEF OrdersOf

-----------------------------------------------------------------------------
(* Parts of IInv that speak of the accounts and of what was announced.      *)
Announcements == HeldOK /\ AnnouncedOK /\ AnnouncedOnce /\ HeldOrdersAnnounced

LEMMA AnnouncementsUnchanged ==
    ASSUME IInv, UNCHANGED <<chain, config, usersAccounts, announced>>,
           unsubscribes' = 0 => unsubscribes = 0
    PROVE  Announcements' /\ Forward
<1>1. Announcements
  BY DEF IInv, OrdersAnnounced, Announcements
<1>2. UNCHANGED <<now, versions, placed>>
  BY DEF chain
<1>3. HeldOK' /\ AnnouncedOK'
  BY <1>1, <1>2 DEF Announcements, HeldOK, AnnouncedOK, Current
<1>4. AnnouncedOnce' /\ HeldOrdersAnnounced'
  BY <1>1, <1>2 DEF Announcements, AnnouncedOnce, HeldOrdersAnnounced
<1>5. Forward
  BY <1>1 DEF Announcements, HeldOK, Held, Forward
<1> QED
  BY <1>3, <1>4, <1>5 DEF Announcements

(* An account of an answer or a notification is ignored or stored, and the  *)
(* orders that are new are announced.                                       *)
LEMMA UpdateKeeps ==
    ASSUME IInv, NEW u \in User, NEW v, NEW slot, NEW dataType, Current(u, v, slot),
           tryUpdateUserAccount(u, v, slot, dataType), UNCHANGED <<chain, config, unsubscribes>>
    PROVE  Announcements' /\ Forward /\ mostRecentSlot' \in 0 .. now
<1>0. TypeOK /\ ChainOK /\ Announcements /\ unsubscribes \in Nat
  BY DEF IInv, OrdersAnnounced, Announcements
<1>c. UNCHANGED <<now, versions, placed, config>>
  BY DEF chain
<1>t. /\ now \in Nat /\ slot \in 1 .. now /\ v \in 1 .. Len(versions[u]) /\ Len(versions[u]) \in Nat
      /\ versions[u][v].slot \in Int /\ versions[u][v].slot <= slot /\ slot \in Nat /\ v \in Nat
  BY <1>0, VersionType DEF Current
<1>1. mostRecentSlot' \in 0 .. now
  BY <1>0, <1>t DEF tryUpdateUserAccount, TypeOK
<1>2. CASE Ignored(u, v, slot, dataType)
  <2>1. UNCHANGED <<usersAccounts, announced>>
    BY <1>2 DEF tryUpdateUserAccount
  <2> QED
    BY <1>1, <2>1, AnnouncementsUnchanged
<1>3. CASE ~Ignored(u, v, slot, dataType)
  <2> DEFINE entry == [slot |-> slot, version |-> v]
             new   == newOrders(u, v, slot)
  <2>1. /\ usersAccounts' = [usersAccounts EXCEPT ![u] = entry]
        /\ announced' = [o \in Order |-> IF o \in new THEN announced[o] + 1 ELSE announced[o]]
    BY <1>3 DEF tryUpdateUserAccount
  <2>2. entry \in Held /\ entry # None /\ entry.slot = slot /\ entry.version = v
    BY <1>t, OrderSubscriberAssumption DEF Held
  <2>3. usersAccounts \in [User -> {None} \cup Held]
    BY <1>0 DEF Announcements, HeldOK
  <2> HIDE DEF entry, new
  <2>4. \A w \in User : usersAccounts'[w] = IF w = u THEN entry ELSE usersAccounts[w]
    BY <2>1, <2>3
  <2>5. usersAccounts[u] # None => /\ usersAccounts[u].slot \in Nat /\ usersAccounts[u].version \in Nat
                                   /\ usersAccounts[u].slot <= slot
                                   /\ Current(u, usersAccounts[u].version, usersAccounts[u].slot)
    BY <1>0, <1>3, <1>t, <2>3 DEF Ignored, Held, Announcements, HeldOK
  <2>6. \A o \in new : /\ o \in versions[u][v].open /\ o \in Order /\ Owner[o] = u
                       /\ placed[o] \in Nat \ {0} /\ placed[o] <= slot
                       /\ usersAccounts[u] # None => placed[o] > usersAccounts[u].slot
    <3> SUFFICES ASSUME NEW o \in new
                 PROVE  /\ o \in versions[u][v].open /\ o \in Order /\ Owner[o] = u
                        /\ placed[o] \in Nat \ {0} /\ placed[o] <= slot
                        /\ usersAccounts[u] # None => placed[o] > usersAccounts[u].slot
      OBVIOUS
    <3>1. /\ o \in versions[u][v].open /\ placed[o] <= slot
          /\ usersAccounts[u] # None => placed[o] > usersAccounts[u].slot
      BY DEF new, newOrders
    <3> QED
      BY <3>1, <1>0, <1>t, OpenIsPlaced
  <2>7. HeldOK'
    <3>1. usersAccounts' \in [User -> {None} \cup Held]
      BY <2>1, <2>2, <2>3
    <3>2. \A w \in User : usersAccounts'[w] # None =>
             Current(w, usersAccounts'[w].version, usersAccounts'[w].slot)
      BY <1>0, <2>2, <2>4 DEF Announcements, HeldOK
    <3> QED
      BY <1>c, <3>1, <3>2 DEF HeldOK, Current
  <2>8. announced \in [Order -> Nat]
    BY <1>0 DEF Announcements, AnnouncedOK
  <2>9. \A o \in Order : announced'[o] = IF o \in new THEN announced[o] + 1 ELSE announced[o]
    BY <2>1
  <2>10. ASSUME unsubscribes = 0, NEW o \in Order
         PROVE  /\ announced'[o] <= 1
                /\ announced'[o] >= 1 => /\ usersAccounts'[Owner[o]] # None
                                         /\ placed[o] <= usersAccounts'[Owner[o]].slot
    <3>1. announced[o] <= 1 /\ announced[o] \in Nat
      BY <1>0, <2>8, <2>10 DEF Announcements, AnnouncedOnce
    <3>2. announced[o] >= 1 => /\ usersAccounts[Owner[o]] # None
                               /\ placed[o] <= usersAccounts[Owner[o]].slot
      BY <1>0, <2>10 DEF Announcements, AnnouncedOK
    <3>3. Owner[o] \in User /\ placed[o] \in Nat
      BY <1>0, <1>t, OrderSubscriberAssumption DEF TypeOK
    <3>4. CASE o \in new
      <4>1. announced[o] = 0
        BY <2>5, <2>6, <3>1, <3>2, <3>4
      <4> QED
        BY <2>2, <2>4, <2>6, <2>9, <3>4, <4>1
    <3>5. CASE o \notin new
      <4>1. CASE Owner[o] = u
        BY <1>t, <2>2, <2>4, <2>5, <2>9, <3>1, <3>2, <3>3, <3>5, <4>1
      <4>2. CASE Owner[o] # u
        BY <2>4, <2>9, <3>1, <3>2, <3>3, <3>5, <4>2
      <4> QED
        BY <4>1, <4>2
    <3> QED
      BY <3>4, <3>5
  <2>11. AnnouncedOnce'
    BY <2>10 DEF AnnouncedOnce
  <2>12. AnnouncedOK'
    <3>1. announced' \in [Order -> Nat]
      BY <2>1, <2>8
    <3>2. \A o \in Order : announced'[o] >= 1 => placed[o] # 0
      BY <1>0, <2>6, <2>9 DEF Announcements, AnnouncedOK
    <3> QED
      BY <1>c, <2>10, <3>1, <3>2 DEF AnnouncedOK
  <2>13. ASSUME ~config.processed, NEW w \in User, usersAccounts'[w] # None,
                NEW o \in versions[w][usersAccounts'[w].version].open
         PROVE  announced'[o] >= 1
    <3>1. CASE w # u
      <4>1. usersAccounts'[w] = usersAccounts[w] /\ usersAccounts[w] # None
        BY <2>4, <2>13, <3>1
      <4>2. announced[o] >= 1
        BY <1>0, <2>13, <4>1 DEF Announcements, HeldOrdersAnnounced
      <4>3. o \in Order
        <5>1. Current(w, usersAccounts[w].version, usersAccounts[w].slot)
          BY <1>0, <4>1 DEF Announcements, HeldOK
        <5> QED
          BY <1>0, <2>13, <4>1, <5>1, OpenIsPlaced DEF Current
      <4> QED
        BY <2>8, <2>9, <4>2, <4>3
    <3>2. CASE w = u
      <4>1. o \in versions[u][v].open
        BY <2>2, <2>4, <2>13, <3>2
      <4>2. o \in Order /\ placed[o] \in Nat /\ placed[o] <= slot
        BY <1>0, <1>t, <4>1, OpenIsPlaced
      <4>3. CASE o \in new
        BY <2>8, <2>9, <4>2, <4>3
      <4>4. CASE o \notin new
        <5>1. usersAccounts[u] # None /\ placed[o] <= usersAccounts[u].slot
          BY <2>5, <4>1, <4>2, <4>4 DEF new, newOrders
        <5>2. o \in versions[u][usersAccounts[u].version].open
          BY <1>0, <2>5, <2>13, <4>1, <5>1, LaterVersion
        <5>3. announced[o] >= 1
          BY <1>0, <2>13, <5>1, <5>2 DEF Announcements, HeldOrdersAnnounced
        <5> QED
          BY <2>8, <2>9, <4>2, <5>3
      <4> QED
        BY <4>3, <4>4
    <3> QED
      BY <3>1, <3>2
  <2>14. HeldOrdersAnnounced'
    BY <1>c, <2>13 DEF HeldOrdersAnnounced
  <2>15. Forward
    <3> SUFFICES ASSUME NEW w \in User, usersAccounts[w] # None
                 PROVE  /\ usersAccounts'[w].slot >= usersAccounts[w].slot
                        /\ ~config.processed => usersAccounts'[w].version >= usersAccounts[w].version
      BY DEF Forward
    <3>1. CASE w # u
      BY <2>3, <2>4, <3>1 DEF Held
    <3>2. CASE w = u
      <4>1. ~config.processed => usersAccounts[u].version <= v
        BY <1>0, <2>5, <3>2, LaterVersion
      <4> QED
        BY <1>t, <2>2, <2>4, <2>5, <3>2, <4>1
    <3> QED
      BY <3>1, <3>2
  <2> QED
    BY <1>1, <2>7, <2>11, <2>12, <2>14, <2>15 DEF Announcements
<1> QED
  BY <1>2, <1>3

-----------------------------------------------------------------------------
(* A transaction adds a version to one user; the versions before it, and    *)
(* what is current at a slot that has passed, stay as they are.             *)
LEMMA TransactionStep ==
    ASSUME IInv, NEW o \in Order, Transaction(o)
    PROVE  IInv' /\ Forward
<1>0. TypeOK /\ ChainOK /\ Announcements /\ FetchOK /\ unsubscribes \in Nat
  BY DEF IInv, OrdersAnnounced, Announcements
<1> DEFINE u     == Owner[o]
           n     == Len(versions[u])
           opens == placed[o] = 0
<1>1. PICK slot \in {now + 1} \cup (IF config.processed THEN {now} ELSE {}), filled \in BOOLEAN :
        /\ opens \/ o \in Last(u).open
        /\ transactions < MaxTransactions
        /\ transactions' = transactions + 1
        /\ now' = slot
        /\ placed' = [placed EXCEPT ![o] = IF opens THEN slot ELSE @]
        /\ versions' = [versions EXCEPT ![u] = Append(@,
               [slot |-> slot,
                open |-> IF opens THEN Last(u).open \cup {o} ELSE Last(u).open \ {o},
                active |-> IF filled THEN Last(u).active ELSE slot])]
        /\ UNCHANGED client
  BY DEF Transaction
<1> DEFINE block == [slot |-> slot,
                     open |-> IF opens THEN Last(u).open \cup {o} ELSE Last(u).open \ {o},
                     active |-> IF filled THEN Last(u).active ELSE slot]
<1>2. /\ u \in User /\ n \in Nat \ {0} /\ now \in Nat \ {0} /\ MaxTransactions \in Nat
      /\ placed \in [Order -> Nat] /\ transactions \in Nat
  <2>1. u \in User
    BY OrderSubscriberAssumption
  <2>2. versions[u] \in Seq(Version) /\ Len(versions[u]) >= 1
    BY <1>0, <2>1 DEF ChainOK
  <2>3. n \in Nat \ {0}
    BY <2>2, LenProperties
  <2> QED
    BY <1>0, <2>1, <2>3, OrderSubscriberAssumption DEF TypeOK
<1>3. /\ slot \in Nat \ {0} /\ now <= slot /\ slot <= now + 1
      /\ ~config.processed => slot = now + 1
      /\ slot <= transactions + 2
  BY <1>0, <1>1, <1>2 DEF ChainOK
<1>4. UNCHANGED <<config, usersAccounts, mostRecentSlot, fetchPromise, announced, unsubscribes,
                  subscriber, resync, dlob>>
  BY <1>1 DEF client, subscription, book
<1>5. Last(u) \in Version /\ Last(u).open \subseteq OrdersOf(u) /\ Last(u).active \in 0 .. now
  <2>1. versions[u] \in Seq([slot : 1 .. now, open : SUBSET OrdersOf(u), active : 0 .. now])
    BY <1>0, <1>2 DEF TypeOK
  <2>2. versions[u] \in Seq(Version)
    BY <1>0, <1>2 DEF ChainOK
  <2>a. n \in 1 .. Len(versions[u])
    BY <1>2
  <2>3. versions[u][n] \in Version
    BY <2>a, <2>2, ElementOfSeq
  <2>4. versions[u][n] \in [slot : 1 .. now, open : SUBSET OrdersOf(u), active : 0 .. now]
    BY <2>a, <2>1, ElementOfSeq
  <2> QED
    BY <2>3, <2>4 DEF Last
<1>6. /\ block \in Version /\ block.slot = slot /\ block.open \subseteq OrdersOf(u) /\ block.active \in 0 .. slot
      /\ block.open \subseteq Last(u).open \cup {o}
      /\ block \in [slot : 1 .. slot, open : SUBSET OrdersOf(u), active : 0 .. slot]
  <2>1. o \in OrdersOf(u)
    BY DEF OrdersOf
  <2>2. OrdersOf(u) \subseteq Order
    BY DEF OrdersOf
  <2>3. (IF filled THEN Last(u).active ELSE slot) \in 0 .. slot
    BY <1>2, <1>3, <1>5
  <2>4. (IF opens THEN Last(u).open \cup {o} ELSE Last(u).open \ {o}) \in SUBSET OrdersOf(u)
    BY <1>5, <2>1
  <2> QED
    BY <1>3, <2>2, <2>3, <2>4 DEF Version
<1>o. o \in block.open => opens
  OBVIOUS
<1> HIDE DEF block
<1>7. /\ \A w \in User : w # u => versions'[w] = versions[w]
      /\ versions'[u] = Append(versions[u], block)
      /\ Len(versions'[u]) = n + 1
      /\ \A i \in 1 .. n : versions'[u][i] = versions[u][i]
      /\ versions'[u][n + 1] = block
  <2>1. \A w \in User : versions'[w] = IF w = u THEN Append(versions[u], block) ELSE versions[w]
    BY <1>0, <1>1 DEF block, ChainOK
  <2>2. versions[u] \in Seq(Version)
    BY <1>0, <1>2 DEF ChainOK
  <2>3. block \in Version
    BY <1>6
  <2> DEFINE seq == versions[u]
  <2>4. /\ Len(Append(seq, block)) = Len(seq) + 1
        /\ \A i \in 1 .. Len(seq) : Append(seq, block)[i] = seq[i]
        /\ Append(seq, block)[Len(seq) + 1] = block
    <3> HIDE DEF seq
    <3> QED
      BY <2>2, <2>3, AppendProperties DEF seq
  <2>5. versions'[u] = Append(seq, block)
    BY <1>2, <2>1
  <2> QED
    BY <2>1, <2>4, <2>5
<1>8. \A w \in User : \A v \in 1 .. Len(versions[w]) :
        v \in 1 .. Len(versions'[w]) /\ versions'[w][v] = versions[w][v]
  BY <1>2, <1>7
<1>9. \A w \in User : \A v \in 1 .. Len(versions'[w]) :
        v \in 1 .. Len(versions[w]) \/ (w = u /\ v = n + 1 /\ versions'[w][v] = block)
  BY <1>2, <1>7
<1>10. opens => \A w \in User : \A v \in 1 .. Len(versions[w]) : o \notin versions[w][v].open
  BY <1>0, OpenIsPlaced
<1>11. \A p \in Order : placed'[p] = IF p = o /\ opens THEN slot ELSE placed[p]
  BY <1>1, <1>2
<1>12. SlotsGrow'
  <2> SUFFICES ASSUME NEW w \in User, NEW i \in 1 .. Len(versions'[w]), NEW j \in 1 .. Len(versions'[w]), i < j
               PROVE  /\ versions'[w][i].slot <= versions'[w][j].slot
                      /\ ~config'.processed => versions'[w][i].slot < versions'[w][j].slot
    BY DEF SlotsGrow
  <2>1. CASE j \in 1 .. Len(versions[w])
    <3>1. i \in 1 .. Len(versions[w])
      BY <1>0, <2>1, VersionType
    <3> QED
      BY <1>0, <1>4, <1>8, <2>1, <3>1 DEF ChainOK, SlotsGrow
  <2>2. CASE w = u /\ j = n + 1
    <3>1. i \in 1 .. Len(versions[w])
      BY <1>2, <2>2
    <3>2. versions[w][i].slot \in 1 .. now
      BY <1>0, <3>1, VersionType
    <3>3. versions'[w][i] = versions[w][i] /\ versions'[w][j].slot = slot
      BY <1>6, <1>7, <1>8, <2>2, <3>1
    <3>4. \A x \in 1 .. now : x <= slot /\ (~config.processed => x < slot)
      BY <1>2, <1>3
    <3> QED
      BY <1>4, <3>2, <3>3, <3>4
  <2> QED
    BY <1>9, <2>1, <2>2
<1>13. OpenSince'
  <2> SUFFICES ASSUME NEW w \in User, NEW v \in 1 .. Len(versions'[w]), NEW p \in versions'[w][v].open
               PROVE  \E i \in 1 .. v : /\ versions'[w][i].slot = placed'[p]
                                        /\ \A j \in i .. v : p \in versions'[w][j].open
    BY DEF OpenSince
  <2>1. CASE v \in 1 .. Len(versions[w])
    <3>1. p \in versions[w][v].open
      BY <1>8, <2>1
    <3>2. p \in Order /\ placed'[p] = placed[p]
      BY <1>0, <1>10, <1>11, <2>1, <3>1, OpenIsPlaced
    <3>3. PICK i \in 1 .. v : versions[w][i].slot = placed[p] /\ \A j \in i .. v : p \in versions[w][j].open
      BY <1>0, <2>1, <3>1 DEF ChainOK, OpenSince
    <3>4. \A j \in 1 .. v : j \in 1 .. Len(versions[w])
      BY <1>0, <2>1, VersionType
    <3> QED
      BY <1>8, <3>2, <3>3, <3>4
  <2>2. CASE w = u /\ v = n + 1 /\ versions'[w][v] = block
    <3>1. CASE p = o
      <4>1. opens
        BY <1>o, <2>2, <3>1
      <4>2. v \in 1 .. v /\ versions'[w][v].slot = placed'[p]
        BY <1>2, <1>6, <1>11, <2>2, <3>1, <4>1
      <4> QED
        BY <1>2, <2>2, <4>2
    <3>2. CASE p # o
      <4>1. n \in 1 .. n /\ p \in versions[u][n].open
        BY <1>2, <1>6, <2>2, <3>2 DEF Last
      <4>2. p \in Order /\ placed'[p] = placed[p]
        BY <1>0, <1>2, <1>11, <3>2, <4>1, OpenIsPlaced
      <4>3. PICK i \in 1 .. n : versions[u][i].slot = placed[p] /\ \A j \in i .. n : p \in versions[u][j].open
        BY <1>0, <1>2, <4>1 DEF ChainOK, OpenSince
      <4>4. \A j \in i .. v : p \in versions'[u][j].open
        BY <1>2, <1>7, <2>2, <4>3
      <4>a. i \in 1 .. v
        BY <1>2, <2>2
      <4>b. versions'[w][i] = versions[u][i]
        BY <1>7, <2>2
      <4>5. i \in 1 .. v /\ versions'[w][i].slot = placed'[p]
        BY <4>2, <4>3, <4>a, <4>b
      <4>6. \A j \in i .. v : p \in versions'[w][j].open
        BY <2>2, <4>4
      <4> QED
        BY <4>5, <4>6
    <3> QED
      BY <3>1, <3>2
  <2> QED
    BY <1>9, <2>1, <2>2
<1>14. versions' \in [User -> Seq(Version)] /\ \A w \in User : Len(versions'[w]) >= 1
  <2>1. versions \in [User -> Seq(Version)] /\ \A w \in User : Len(versions[w]) >= 1
    BY <1>0 DEF ChainOK
  <2>2. Append(versions[u], block) \in Seq(Version)
    BY <1>2, <1>6, <2>1, AppendProperties
  <2>3. versions' = [versions EXCEPT ![u] = Append(versions[u], block)]
    BY <1>1 DEF block
  <2> QED
    BY <1>2, <1>7, <2>1, <2>2, <2>3
<1>15. ChainOK'
  BY <1>1, <1>2, <1>3, <1>12, <1>13, <1>14 DEF ChainOK
<1>16. \A w \in User : \A v, s : Current(w, v, s) => Current(w, v, s)'
  <2> SUFFICES ASSUME NEW w \in User, NEW v, NEW s, Current(w, v, s) PROVE Current(w, v, s)'
    OBVIOUS
  <2>1. /\ v \in 1 .. Len(versions[w]) /\ s \in 1 .. now /\ versions[w][v].slot <= s
        /\ ~config.processed /\ v < Len(versions[w]) => versions[w][v + 1].slot > s
    BY DEF Current
  <2>2. v \in 1 .. Len(versions'[w]) /\ s \in 1 .. now' /\ versions'[w][v].slot <= s
    BY <1>1, <1>2, <1>3, <1>8, <2>1
  <2>3. ASSUME ~config.processed, v < Len(versions'[w]) PROVE versions'[w][v + 1].slot > s
    <3>1. CASE v < Len(versions[w])
      <4>1. v + 1 \in 1 .. Len(versions[w])
        BY <1>0, <2>1, <3>1, VersionType
      <4> QED
        BY <1>8, <2>1, <2>3, <3>1, <4>1
    <3>2. CASE ~(v < Len(versions[w]))
      <4>1. w = u /\ v = n
        BY <1>0, <1>2, <1>7, <2>1, <2>3, <3>2, VersionType
      <4> QED
        BY <1>2, <1>3, <1>6, <1>7, <2>1, <2>3, <4>1
    <3> QED
      BY <3>1, <3>2
  <2> QED
    BY <1>4, <2>2, <2>3 DEF Current
<1>17. HeldOK' /\ FetchOK'
  <2>1. HeldOK'
    BY <1>0, <1>4, <1>16 DEF Announcements, HeldOK
  <2>2. FetchOK'
    BY <1>0, <1>4, <1>16 DEF FetchOK
  <2> QED
    BY <2>1, <2>2
<1>18. AnnouncedOK' /\ AnnouncedOnce'
  <2>1. announced \in [Order -> Nat] /\ \A p \in Order : announced[p] >= 1 => placed[p] # 0
    BY <1>0 DEF Announcements, AnnouncedOK
  <2>2. \A p \in Order : announced[p] >= 1 => placed'[p] = placed[p] /\ placed[p] # 0
    BY <1>11, <2>1
  <2>3. AnnouncedOK'
    BY <1>0, <1>4, <2>1, <2>2 DEF Announcements, AnnouncedOK
  <2>4. AnnouncedOnce'
    BY <1>0, <1>4 DEF Announcements, AnnouncedOnce
  <2> QED
    BY <2>3, <2>4
<1>19. \A w \in User : usersAccounts[w] # None =>
         /\ usersAccounts[w].version \in 1 .. Len(versions[w])
         /\ usersAccounts[w].slot \in 1 .. now
  BY <1>0 DEF Announcements, HeldOK, Current
<1>20. HeldOrdersAnnounced'
  BY <1>0, <1>4, <1>8, <1>19 DEF Announcements, HeldOrdersAnnounced
<1>21. \A w \in User : versions'[w] \in Seq([slot : 1 .. now', open : SUBSET OrdersOf(w), active : 0 .. now'])
  <2> SUFFICES ASSUME NEW w \in User
               PROVE  versions'[w] \in Seq([slot : 1 .. slot, open : SUBSET OrdersOf(w), active : 0 .. slot])
    BY <1>1
  <2> DEFINE S == [slot : 1 .. now, open : SUBSET OrdersOf(w), active : 0 .. now]
             T == [slot : 1 .. slot, open : SUBSET OrdersOf(w), active : 0 .. slot]
  <2>1. versions[w] \in Seq(S)
    BY <1>0 DEF TypeOK
  <2>2. S \subseteq T
    BY <1>2, <1>3
  <2>3. w = u => block \in T
    BY <1>6
  <2> HIDE DEF S, T
  <2>4. versions[w] \in Seq(T)
    BY <2>1, <2>2
  <2>5. w = u => versions'[w] \in Seq(T)
    <3> SUFFICES ASSUME w = u PROVE versions'[w] \in Seq(T)
      OBVIOUS
    <3>1. versions'[w] = Append(versions[w], block)
      BY <1>7
    <3> QED
      BY <2>3, <2>4, <3>1, AppendProperties
  <2>6. w # u => versions'[w] \in Seq(T)
    BY <1>7, <2>4
  <2>7. versions'[w] \in Seq(T)
    BY <2>5, <2>6
  <2> QED
    BY <2>7 DEF T
<1>22. placed' \in [Order -> 0 .. now'] /\ now' \in 1 .. MaxTransactions + 1 /\ transactions' \in 0 .. MaxTransactions
  <2>1. placed \in [Order -> 0 .. now] /\ transactions \in 0 .. MaxTransactions
    BY <1>0 DEF TypeOK
  <2>2. placed \in [Order -> 0 .. slot]
    BY <1>2, <1>3, <2>1
  <2>3. placed' \in [Order -> 0 .. slot]
    BY <1>1, <1>3, <2>2
  <2> QED
    BY <1>1, <1>2, <1>3, <2>1, <2>3
<1>23. \A w \in User : usersAccounts'[w] # None =>
         usersAccounts'[w].slot \in 1 .. now' /\ usersAccounts'[w].version \in 1 .. Len(versions'[w])
  BY <1>1, <1>2, <1>3, <1>4, <1>8, <1>19
<1>24. mostRecentSlot' \in 0 .. now'
  BY <1>0, <1>1, <1>2, <1>3, <1>4 DEF TypeOK
<1>25. TypeOK'
  BY <1>0, <1>4, <1>21, <1>22, <1>23, <1>24 DEF TypeOK
<1>26. Forward
  BY <1>0, <1>4 DEF Announcements, HeldOK, Held, Forward
<1> QED
  BY <1>0, <1>4, <1>15, <1>17, <1>18, <1>20, <1>25, <1>26 DEF IInv, OrdersAnnounced, Announcements

(* What remains of TypeOK and FetchOK when the chain stays as it is.        *)
Rest ==
    /\ mostRecentSlot \in 0 .. now
    /\ fetchPromise.at \in {"none", "asked", "applying"}
    /\ subscriber \in {"none", "on", "leaving"} /\ resync \in {"off", "armed", "fetching"}
    /\ dlob \subseteq Order /\ unsubscribes \in Nat
    /\ FetchOK

LEMMA ClientStep ==
    ASSUME IInv, UNCHANGED <<chain, config>>, Announcements', Rest'
    PROVE  IInv'
<1>1. TypeOK /\ ChainOK
  BY DEF IInv, OrdersAnnounced
<1>2. UNCHANGED <<now, versions, placed, transactions, config>>
  BY DEF chain
<1>3. ChainOK'
  BY <1>1, <1>2 DEF ChainOK, SlotsGrow, OpenSince
<1>4. \A u \in User : usersAccounts'[u] # None =>
        usersAccounts'[u].slot \in 1 .. now' /\ usersAccounts'[u].version \in 1 .. Len(versions'[u])
  BY DEF Announcements, HeldOK, Current
<1>5. TypeOK'
  BY <1>1, <1>2, <1>4 DEF TypeOK, Rest
<1> QED
  BY <1>3, <1>5 DEF IInv, OrdersAnnounced, Announcements, Rest

LEMMA SettlesRest ==
    ASSUME IInv, FetchSettles
    PROVE  /\ fetchPromise'.at = "none" /\ UNCHANGED subscriber
           /\ resync' \in {"off", "armed", "fetching"}
           /\ FetchOK'
BY DEF IInv, OrdersAnnounced, TypeOK, FetchSettles, Idle, FetchOK

LEMMA StartedRest ==
    ASSUME IInv, UNCHANGED chain, UNCHANGED config, fetchPromise' = Started
    PROVE  fetchPromise'.at \in {"none", "asked", "applying"} /\ FetchOK'
<1>1. fetchPromise.at \in {"none", "asked", "applying"} /\ FetchOK
  BY DEF IInv, OrdersAnnounced, TypeOK
<1>2. UNCHANGED <<now, versions, config>>
  BY DEF chain
<1>3. CASE fetchPromise.at = "none"
  BY <1>3 DEF Started, Idle, FetchOK
<1>4. CASE fetchPromise.at # "none"
  BY <1>1, <1>2, <1>4 DEF Started, FetchOK, Current
<1> QED
  BY <1>3, <1>4

(* A fetch that runs while the chain stays as it is keeps FetchOK.          *)
LEMMA SameFetchRest ==
    ASSUME IInv, UNCHANGED <<chain, config, fetchPromise>>
    PROVE  fetchPromise'.at \in {"none", "asked", "applying"} /\ FetchOK'
BY DEF IInv, OrdersAnnounced, TypeOK, chain, FetchOK, Current

LEMMA BookOK ==
    ASSUME TypeOK, ChainOK, HeldOK
    PROVE  getDLOB \subseteq Order
<1>1. \A u \in User : usersAccounts[u] # None => versions[u][usersAccounts[u].version].open \subseteq Order
  BY VersionType DEF HeldOK, Current, OrdersOf
<1> QED
  BY <1>1 DEF getDLOB

LEMMA IInvStep ==
    ASSUME IInv, [Next]_vars
    PROVE  IInv' /\ Forward
<1>0. TypeOK /\ ChainOK /\ HeldOK /\ FetchOK /\ Announcements /\ Rest /\ unsubscribes \in Nat
  BY DEF IInv, OrdersAnnounced, Announcements, Rest, TypeOK
<1>1. CASE \E o \in Order : Transaction(o)
  BY <1>1, TransactionStep
<1>2. ASSUME NEW slot \in 1 .. now, FetchAnswered(slot) PROVE IInv' /\ Forward
  <2>1. /\ UNCHANGED <<chain, config, usersAccounts, mostRecentSlot, announced, dlob, unsubscribes>>
        /\ UNCHANGED now
    BY <1>2 DEF FetchAnswered, book, chain
  <2>2. Announcements' /\ Forward
    BY <2>1, AnnouncementsUnchanged
  <2>3. PICK answer \in [User -> 1 .. MaxTransactions + 1] :
          /\ \A u \in User : answer[u] \in Answers(u, slot)
          /\ LET listed == {u \in User : versions[u][answer[u]].open # {}}
             IN  IF listed = {} THEN FetchSettles
                 ELSE /\ fetchPromise' = [at |-> "applying", slot |-> slot,
                                          left |-> [u \in listed |-> answer[u]]]
                      /\ UNCHANGED subscription
    BY <1>2 DEF FetchAnswered
  <2> DEFINE listed == {u \in User : versions[u][answer[u]].open # {}}
  <2>4. CASE listed = {}
    <3>1. FetchSettles
      BY <2>3, <2>4
    <3>2. Rest'
      BY <1>0, <2>1, <3>1, SettlesRest DEF Rest
    <3> QED
      BY <2>1, <2>2, <3>2, ClientStep
  <2>5. CASE listed # {}
    <3>1. /\ fetchPromise' = [at |-> "applying", slot |-> slot, left |-> [u \in listed |-> answer[u]]]
          /\ UNCHANGED <<subscriber, resync>>
      BY <2>3, <2>5 DEF subscription
    <3>2. \A u \in listed : u \in User /\ Current(u, answer[u], slot)
      BY <2>3, AnswerCurrent
    <3>3. FetchOK'
      BY <2>1, <3>1, <3>2 DEF FetchOK, Current, chain
    <3>4. Rest'
      BY <1>0, <2>1, <3>1, <3>3 DEF Rest
    <3> QED
      BY <2>1, <2>2, <3>4, ClientStep
  <2> QED
    BY <2>4, <2>5
<1>3. ASSUME NEW u \in User, FetchApplies(u) PROVE IInv' /\ Forward
  <2> DEFINE rest == DOMAIN fetchPromise.left \ {u}
  <2>1. /\ fetchPromise.at = "applying" /\ u \in DOMAIN fetchPromise.left
        /\ tryUpdateUserAccount(u, fetchPromise.left[u], fetchPromise.slot, "raw")
        /\ IF rest = {} THEN FetchSettles
           ELSE /\ fetchPromise' = [fetchPromise EXCEPT !.left = [w \in rest |-> fetchPromise.left[w]]]
                /\ UNCHANGED subscription
        /\ UNCHANGED <<chain, config, dlob, unsubscribes, now, versions>>
    BY <1>3 DEF FetchApplies, book, chain
  <2>2. \A w \in DOMAIN fetchPromise.left : w \in User /\ Current(w, fetchPromise.left[w], fetchPromise.slot)
    BY <1>0, <2>1 DEF FetchOK
  <2>3. Announcements' /\ Forward /\ mostRecentSlot' \in 0 .. now
    BY <2>1, <2>2, UpdateKeeps
  <2>4. /\ fetchPromise'.at \in {"none", "asked", "applying"} /\ UNCHANGED subscriber
        /\ resync' \in {"off", "armed", "fetching"} /\ FetchOK'
    <3>1. CASE rest = {}
      BY <2>1, <3>1, SettlesRest
    <3>2. CASE rest # {}
      <4>1. /\ fetchPromise' = [fetchPromise EXCEPT !.left = [w \in rest |-> fetchPromise.left[w]]]
            /\ UNCHANGED <<subscriber, resync>>
        BY <2>1, <3>2 DEF subscription
      <4>2. fetchPromise'.at = "applying" \/ UNCHANGED fetchPromise.at
        BY <2>1, <4>1
      <4>3. FetchOK'
        <5>1. DOMAIN fetchPromise = {"at", "slot", "left"}
          BY <1>0 DEF FetchOK
        <5>2. /\ DOMAIN fetchPromise' = {"at", "slot", "left"}
              /\ fetchPromise'.slot = fetchPromise.slot
              /\ fetchPromise'.left = [w \in rest |-> fetchPromise.left[w]]
          BY <4>1, <5>1
        <5>3. UNCHANGED <<now, config, versions>>
          BY <2>1
        <5> QED
          BY <2>2, <5>2, <5>3 DEF FetchOK, Current
      <4> QED
        BY <1>0, <4>1, <4>2, <4>3 DEF Rest
    <3> QED
      BY <3>1, <3>2
  <2>5. Rest'
    BY <1>0, <2>1, <2>3, <2>4 DEF Rest
  <2> QED
    BY <2>1, <2>3, <2>5, ClientStep
<1>4. CASE FetchFails
  <2>1. FetchSettles /\ UNCHANGED <<chain, config, usersAccounts, mostRecentSlot, announced, dlob, unsubscribes, now>>
    BY <1>4 DEF FetchFails, book, chain
  <2>2. Rest'
    BY <1>0, <2>1, SettlesRest DEF Rest
  <2> QED
    BY <2>1, <2>2, AnnouncementsUnchanged, ClientStep
<1>5. CASE subscribe
  <2>1. UNCHANGED <<chain, config, usersAccounts, mostRecentSlot, announced, dlob, unsubscribes, now>>
    BY <1>5 DEF subscribe, book, chain
  <2>2. fetchPromise' = Started \/ UNCHANGED fetchPromise
    BY <1>5 DEF subscribe
  <2>3. fetchPromise'.at \in {"none", "asked", "applying"} /\ FetchOK'
    BY <2>1, <2>2, StartedRest, SameFetchRest
  <2>4. subscriber' \in {"none", "on", "leaving"} /\ resync' \in {"off", "armed", "fetching"}
    BY <1>0, <1>5 DEF subscribe, Rest
  <2>5. Rest'
    BY <1>0, <2>1, <2>3, <2>4 DEF Rest
  <2> QED
    BY <2>1, <2>5, AnnouncementsUnchanged, ClientStep
<1>6. CASE IntervalFires \/ recursiveResync \/ ListensFrom
  <2>1. /\ UNCHANGED <<chain, config, usersAccounts, mostRecentSlot, announced, dlob, unsubscribes, now>>
        /\ fetchPromise' \in {fetchPromise, Started} /\ UNCHANGED subscriber
        /\ resync' \in {resync, "fetching"}
    BY <1>6 DEF IntervalFires, recursiveResync, ListensFrom, subscription, book, chain
  <2>2. Rest'
    BY <1>0, <2>1, StartedRest, SameFetchRest DEF Rest
  <2> QED
    BY <2>1, <2>2, AnnouncementsUnchanged, ClientStep
<1>7. ASSUME NEW u \in User, NEW v \in 1 .. Len(versions[u]), Notified(u, v) PROVE IInv' /\ Forward
  <2>1. /\ UNCHANGED <<chain, config, fetchPromise, subscriber, resync, dlob, unsubscribes, now>>
        /\ tryUpdateUserAccount(u, v, versions[u][v].slot, IF config.decoded THEN "decoded" ELSE "buffer")
    BY <1>7 DEF Notified, book, chain
  <2>2. Announcements' /\ Forward /\ mostRecentSlot' \in 0 .. now
    BY <1>0, <2>1, NotifiedCurrent, UpdateKeeps
  <2>3. Rest'
    BY <1>0, <2>1, <2>2, SameFetchRest DEF Rest
  <2> QED
    BY <2>1, <2>2, <2>3, ClientStep
<1>8. CASE unsubscribe
  <2>1. /\ UNCHANGED <<chain, config, mostRecentSlot, fetchPromise, announced, resync, dlob>>
        /\ usersAccounts' = [u \in User |-> None] /\ unsubscribes' = unsubscribes + 1
        /\ subscriber' \in {subscriber, "leaving"}
    BY <1>8 DEF unsubscribe, book
  <2>2. UNCHANGED <<now, placed, versions>>
    BY <2>1 DEF chain
  <2>3. unsubscribes' \in Nat /\ unsubscribes' # 0
    BY <1>0, <2>1
  <2>4. HeldOK' /\ HeldOrdersAnnounced' /\ Forward
    BY <2>1 DEF HeldOK, HeldOrdersAnnounced, Forward
  <2>5. AnnouncedOK' /\ AnnouncedOnce'
    BY <1>0, <2>1, <2>2, <2>3 DEF Announcements, AnnouncedOK, AnnouncedOnce
  <2>6. Rest'
    BY <1>0, <2>1, <2>2, <2>3, SameFetchRest DEF Rest
  <2> QED
    BY <2>1, <2>4, <2>5, <2>6, ClientStep DEF Announcements
<1>9. CASE unsubscribeReturns
  <2>1. UNCHANGED <<chain, config, usersAccounts, mostRecentSlot, fetchPromise, announced, dlob, unsubscribes, now>>
    BY <1>9 DEF unsubscribeReturns, book, chain
  <2>2. Rest'
    BY <1>0, <1>9, <2>1, SameFetchRest DEF unsubscribeReturns, Rest
  <2> QED
    BY <2>1, <2>2, AnnouncementsUnchanged, ClientStep
<1>10. CASE DLOBSubscribe \/ updateDLOB \/ DLOBUnsubscribe
  <2>1. /\ UNCHANGED <<chain, config, usersAccounts, mostRecentSlot, fetchPromise, announced, subscriber,
                       resync, now>>
        /\ dlob' \in {dlob, getDLOB} /\ unsubscribes' \in {unsubscribes, unsubscribes + 1}
    BY <1>10 DEF DLOBSubscribe, updateDLOB, DLOBUnsubscribe, subscription, chain
  <2>2. dlob' \subseteq Order /\ unsubscribes' \in Nat /\ (unsubscribes' = 0 => unsubscribes = 0)
    BY <1>0, <2>1, BookOK DEF Rest
  <2>3. Rest'
    BY <1>0, <2>1, <2>2, SameFetchRest DEF Rest
  <2> QED
    BY <2>1, <2>2, <2>3, AnnouncementsUnchanged, ClientStep
<1>11. CASE UNCHANGED vars
  <2>1. UNCHANGED <<chain, config, usersAccounts, mostRecentSlot, fetchPromise, announced, subscriber, resync,
                    dlob, unsubscribes, now>>
    BY <1>11 DEF vars, subscription, book, chain
  <2>2. Rest'
    BY <1>0, <2>1, SameFetchRest DEF Rest
  <2> QED
    BY <2>1, <2>2, AnnouncementsUnchanged, ClientStep
<1> QED
  BY <1>1, <1>2, <1>3, <1>4, <1>5, <1>6, <1>7, <1>8, <1>9, <1>10, <1>11 DEF Next

LEMMA InitIInv == Init => IInv
<1> SUFFICES ASSUME Init PROVE IInv
  OBVIOUS
<1> DEFINE first == [slot |-> 1, open |-> {}, active |-> 0]
<1>1. \A u \in User : versions[u] = <<first>>
  BY DEF Init
<1>2. first \in Version /\ \A u \in User : first \in [slot : 1 .. now, open : SUBSET OrdersOf(u), active : 0 .. now]
  BY DEF Init, Version
<1>a. first.open = {}
  OBVIOUS
<1> HIDE DEF first
<1>b. Len(<<first>>) = 1 /\ <<first>>[1] = first
  OBVIOUS
<1>3. \A u \in User : Len(versions[u]) = 1 /\ versions[u][1] = first /\ versions[u][1].open = {}
  BY <1>1, <1>a, <1>b
<1>4. TypeOK
  <2>1. \A u \in User : versions[u] \in Seq([slot : 1 .. now, open : SUBSET OrdersOf(u), active : 0 .. now])
    <3>1. ASSUME NEW u \in User
          PROVE  <<first>> \in Seq([slot : 1 .. now, open : SUBSET OrdersOf(u), active : 0 .. now])
      <4> DEFINE S == [slot : 1 .. now, open : SUBSET OrdersOf(u), active : 0 .. now]
      <4>1. first \in S
        BY <1>2
      <4> HIDE DEF S
      <4>2. <<first>> \in Seq(S)
        BY <4>1
      <4> QED
        BY <4>2 DEF S
    <3> QED
      BY <1>1, <3>1
  <2> QED
    BY <2>1, OrderSubscriberAssumption DEF Init, TypeOK, Idle
<1>5. ChainOK
  <2>1. versions \in [User -> Seq(Version)]
    BY <1>1, <1>2 DEF Init, first
  <2>2. SlotsGrow /\ OpenSince
    BY <1>3 DEF SlotsGrow, OpenSince
  <2> QED
    BY <1>3, <2>1, <2>2 DEF Init, ChainOK
<1>6. HeldOK /\ FetchOK /\ AnnouncedOK
  BY OrderSubscriberAssumption DEF Init, HeldOK, FetchOK, AnnouncedOK, Idle
<1>7. AnnouncedOnce /\ HeldOrdersAnnounced
  BY DEF Init, AnnouncedOnce, HeldOrdersAnnounced
<1> QED
  BY <1>4, <1>5, <1>6, <1>7 DEF Init, IInv, OrdersAnnounced

-----------------------------------------------------------------------------
(* OrderSubscriber.tryUpdateUserAccount: however fetches, notifications,    *)
(* resyncs and unsubscribe() interleave, no order is announced twice while  *)
(* the subscriber keeps its accounts, and every order that the map holds    *)
(* has been announced when a slot has one version of an account.            *)
THEOREM OrdersAreAnnounced == Spec => []OrdersAnnounced
<1>1. IInv /\ [Next]_vars => IInv'
  BY IInvStep
<1>2. IInv => OrdersAnnounced
  BY DEF IInv
<1> QED
  BY <1>1, <1>2, InitIInv, PTL DEF Spec

(* ... and it never replaces the account of a user with one of an earlier   *)
(* slot, nor, unless processed, with an earlier version of the account.     *)
THEOREM AccountsNeverGoBack == Spec => AccountsMoveForward
<1>1. IInv /\ [Next]_vars => IInv'
  BY IInvStep
<1>2. IInv /\ [Next]_vars =>
        [\A u \in User : usersAccounts[u] # None /\ usersAccounts'[u] # None =>
           /\ usersAccounts'[u].slot >= usersAccounts[u].slot
           /\ ~config.processed => usersAccounts'[u].version >= usersAccounts[u].version]_vars
  BY IInvStep DEF Forward
<1> QED
  BY <1>1, <1>2, InitIInv, PTL DEF Spec, AccountsMoveForward
=============================================================================
