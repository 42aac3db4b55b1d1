------------------------------ MODULE TransactionProofs ------------------------------
(***************************************************************************)
(* What the client keeps of its transactions.  First the manager that       *)
(* confirms signatures, for any number of requests, signatures and          *)
(* overlapping checks, with or without websocket requests.                  *)
(*                                                                         *)
(* Then the senders, for any number of transactions, connections, resends,  *)
(* failures and abandoned blocks, every sender and confirmation strategy.  A*)
(* send touches its own entries only, so the inductive invariant speaks of  *)
(* one transaction at a time (TxOK); only the count of time-outs is about   *)
(* all of them.                                                             *)
(***************************************************************************)
EXTENDS Transactions, FiniteSetTheorems, TLAPS

-----------------------------------------------------------------------------
(* The inductive invariant.                                                 *)

(* An answer that a check still holds is true of the chain, and stays so.   *)
Truthful(s, status) ==
    \/ status = "none"
    \/ status = "failed" /\ chain[s] = "failed"
    \/ status \in DOMAIN Level /\ Reached(s, status)

(* A check asks for requests that were made.  The one whose error it is     *)
(* fetching failed, and has left the map for good.                          *)
CheckOK(c) ==
    /\ \A r \in checks[c].todo : request[r] # "unused"
    /\ \A s \in Sig : Truthful(s, checks[c].status[s])
    /\ checks[c].phase = "reporting" <=> checks[c].error # None
    /\ checks[c].error # None =>
          /\ request[checks[c].error] # "unused"
          /\ chain[sigOf[checks[c].error]] = "failed"
          /\ \A s \in Sig : pendingConfirmations[s] # checks[c].error

ChecksOK == \A c \in Check : CheckOK(c)

IInv ==
    /\ TypeOK
    /\ LoopRunsWhilePending
    /\ VerdictsAreTheChains
    /\ ForgottenOnlyWhenSharedOrUnreported
    /\ ChecksOK

-----------------------------------------------------------------------------
(* Facts about the chain and its answers.                                   *)

LEMMA Levels ==
    /\ DOMAIN Level = {"processed", "confirmed", "finalized"}
    /\ \A l \in DOMAIN Level : Level[l] \in 0 .. 2
    /\ Level["processed"] = 0 /\ Level["confirmed"] = 1 /\ Level["finalized"] = 2
BY DEF Level

(* What a transaction has become it stays, or becomes more of.              *)
LEMMA ChainMovesForward ==
    ASSUME chain \in [Sig -> Outcome], NEW t \in Sig, AdvanceChain(t)
    PROVE  /\ chain' \in [Sig -> Outcome]
           /\ \A s \in Sig : chain[s] = "failed" => chain'[s] = "failed"
           /\ \A s \in Sig, l \in DOMAIN Level : Reached(s, l) => Reached(s, l)'
BY Levels DEF AdvanceChain, After, Outcome, Reached

(* Whatever a node answers is true of the chain.                            *)
LEMMA AnswersTruthful ==
    ASSUME chain \in [Sig -> Outcome], NEW s \in Sig, NEW a \in Answers(s)
    PROVE  Truthful(s, a) /\ a \in Outcome
BY Levels DEF Answers, Truthful, Reached, Outcome

(* A true answer that matches means that the desired status is reached.     *)
LEMMA MatchMeansReached ==
    ASSUME chain \in [Sig -> Outcome], NEW s \in Sig, NEW a, NEW d \in DOMAIN Level,
           Truthful(s, a), checkStatusMatchesDesiredConfirmationStatus(a, d)
    PROVE  Reached(s, d)
BY Levels DEF checkStatusMatchesDesiredConfirmationStatus, Truthful, Reached, Outcome

-----------------------------------------------------------------------------
LEMMA InitInv == Init => IInv
<1> SUFFICES ASSUME Init PROVE IInv
  OBVIOUS
<1> USE SigAssumption, SetsAssumption, TimeAssumption
<1>1. TypeOK
  <2>1. Idle \in [phase : {"idle", "asking", "reporting"}, todo : SUBSET Req,
                  error : Req \cup {None}, status : [Sig -> Outcome]]
    BY DEF Idle, NoStatus, Outcome
  <2>2. Unused \in [phase : {"unused", "waiting", "answered", "unknown"}, oneShot : BOOLEAN,
                    listener : BOOLEAN, timer : BOOLEAN, response : Outcome]
    BY DEF Unused, Outcome
  <2>3. "none" \in Outcome
    BY DEF Outcome
  <2>4. /\ checks \in [Check -> [phase : {"idle", "asking", "reporting"}, todo : SUBSET Req,
                               error : Req \cup {None}, status : [Sig -> Outcome]]]
        /\ ws \in [Ws -> [phase : {"unused", "waiting", "answered", "unknown"}, oneShot : BOOLEAN,
                         listener : BOOLEAN, timer : BOOLEAN, response : Outcome]]
    BY <2>1, <2>2 DEF Init
  <2>5. chain \in [Sig -> Outcome] /\ age \in [Req -> 0 .. Timeout]
    BY <2>3 DEF Init
  <2> QED BY <2>4, <2>5 DEF Init, TypeOK
<1>2. LoopRunsWhilePending
  BY DEF Init, LoopRunsWhilePending, Pending
<1>3. VerdictsAreTheChains
  BY DEF Init, VerdictsAreTheChains, Unused
<1>4. ForgottenOnlyWhenSharedOrUnreported
  BY DEF Init, ForgottenOnlyWhenSharedOrUnreported
<1>5. ChecksOK
  BY DEF Init, ChecksOK, CheckOK, Idle, NoStatus, Truthful
<1> QED BY <1>1, <1>2, <1>3, <1>4, <1>5 DEF IInv

(* Handling an answer, or going on with it after an error was fetched:      *)
(* requests is the request variable, with the failed one rejected.          *)
LEMMA HandleStatusesInv ==
    ASSUME IInv, NEW c \in Check, NEW todo \in SUBSET Req, NEW status \in [Sig -> Outcome],
           NEW requests \in [Req -> {"unused", "pending", "resolved", "failed", "timedOut"}],
           \A r \in Req : \/ requests[r] = request[r]
                          \/ /\ r = checks[c].error /\ request[r] = "pending"
                             /\ requests[r] = "failed",
           checks[c].error # None => requests[checks[c].error] # "pending",
           \A r \in todo : request[r] # "unused",
           \A s \in Sig : Truthful(s, status[s]),
           HandleStatuses(c, requests, todo, status),
           UNCHANGED <<chain, sigOf, age, due, unreported, ws>>
    PROVE  IInv'
<1> USE SigAssumption, SetsAssumption, TimeAssumption
<1> DEFINE failing == {r \in todo : status[sigOf[r]] = "failed"}
<1>1. PICK passed \in SUBSET (todo \ failing), error \in failing \cup {None} :
        LET confirmed == Confirmed(passed, status)
            pending == [s \in Sig |-> IF s \in Removed(confirmed, error) THEN None
                                      ELSE pendingConfirmations[s]]
        IN  /\ error = None <=> failing = {}
            /\ error = None => passed = todo
            /\ request' = [r \in Req |-> IF r \in confirmed /\ requests[r] = "pending"
                                         THEN "resolved" ELSE requests[r]]
            /\ pendingConfirmations' = pending
            /\ checks' = [checks EXCEPT ![c] =
                  IF error = None THEN Idle
                  ELSE [phase |-> "reporting", todo |-> todo \ (passed \cup {error}),
                        error |-> error, status |-> status]]
            /\ intervalId' = IF error = None THEN IntervalAfter(pending) ELSE intervalId
  BY DEF HandleStatuses
<1> DEFINE confirmed == Confirmed(passed, status)
           removed == Removed(confirmed, error)
           now == IF error = None THEN Idle
                  ELSE [phase |-> "reporting", todo |-> todo \ (passed \cup {error}),
                        error |-> error, status |-> status]
<1> HIDE DEF failing
<1>2. /\ confirmed \in SUBSET todo
      /\ \A r \in confirmed : checkStatusMatchesDesiredConfirmationStatus(status[sigOf[r]], DesiredOf[r])
      /\ error # None => error \in todo /\ status[sigOf[error]] = "failed" /\ error \in Req
      /\ \A r \in Req : r \in confirmed \/ r = error => sigOf[r] \in removed
      /\ \A s \in removed : \E r \in todo : sigOf[r] = s /\ (r \in confirmed \/ (r = error /\ error # None))
  BY <1>1 DEF Confirmed, Removed, failing
<1>3. /\ request' = [r \in Req |-> IF r \in confirmed /\ requests[r] = "pending"
                                   THEN "resolved" ELSE requests[r]]
      /\ pendingConfirmations' = [s \in Sig |-> IF s \in removed THEN None ELSE pendingConfirmations[s]]
      /\ checks' = [checks EXCEPT ![c] = now]
      /\ intervalId' = IF error = None THEN IntervalAfter(pendingConfirmations') ELSE intervalId
  BY <1>1
<1>4. now \in [phase : {"idle", "asking", "reporting"}, todo : SUBSET Req,
               error : Req \cup {None}, status : [Sig -> Outcome]]
  BY <1>2 DEF Idle, NoStatus, Outcome
<1>4a. /\ now.error = error /\ (now.phase = "reporting" <=> error # None)
       /\ now.todo \subseteq todo
       /\ \A s \in Sig : now.status[s] \in {status[s], "none"}
  BY <1>2 DEF Idle, NoStatus
<1> HIDE DEF confirmed, removed, now
<1>5. TypeOK /\ chain \in [Sig -> Outcome] /\ sigOf \in [Req -> Sig]
  BY DEF IInv, TypeOK
<1>6. \A r \in Req : request[r] # "unused" => request'[r] # "unused"
  BY <1>3, <1>5 DEF TypeOK
<1>7. \A r \in Req : r \in confirmed => Reached(sigOf[r], DesiredOf[r])
  BY <1>2, <1>5, MatchMeansReached
<1>8. TypeOK'
  <2>1. intervalId' \in BOOLEAN
    BY <1>3, <1>5 DEF TypeOK, IntervalAfter
  <2>2. checks' \in [Check -> [phase : {"idle", "asking", "reporting"},
                             todo : SUBSET Req, error : Req \cup {None},
                             status : [Sig -> Outcome]]]
    BY <1>3, <1>4, <1>5 DEF TypeOK
  <2>3. request' \in [Req -> {"unused", "pending", "resolved", "failed", "timedOut"}]
    BY <1>3
  <2>4. pendingConfirmations' \in [Sig -> Req \cup {None}]
    BY <1>3, <1>5 DEF TypeOK
  <2>5. ASSUME NEW s \in Sig, pendingConfirmations'[s] # None
        PROVE  sigOf[pendingConfirmations'[s]] = s /\ request'[pendingConfirmations'[s]] = "pending"
    <3> DEFINE r == pendingConfirmations[s]
    <3>1. s \notin removed /\ pendingConfirmations'[s] = r /\ r \in Req
      BY <1>3, <1>5, <2>5 DEF TypeOK
    <3>2. sigOf[r] = s /\ request[r] = "pending"
      BY <1>5, <3>1 DEF TypeOK
    <3>3. r \notin confirmed
      BY <1>2, <3>1, <3>2
    <3>4. r # checks[c].error
      BY <1>5, <3>1 DEF IInv, ChecksOK, CheckOK, TypeOK
    <3> QED BY <1>3, <3>1, <3>2, <3>3, <3>4
  <2> QED BY <1>5, <2>1, <2>2, <2>3, <2>4, <2>5 DEF TypeOK
<1>9. LoopRunsWhilePending'
  <2> SUFFICES ASSUME NEW s \in Sig, pendingConfirmations'[s] # None PROVE intervalId'
    BY DEF LoopRunsWhilePending, Pending
  <2>1. intervalId
    BY <1>3 DEF IInv, LoopRunsWhilePending, Pending
  <2> QED BY <1>3, <1>5, <2>1 DEF IntervalAfter, TypeOK
<1>10. VerdictsAreTheChains'
  <2>1. ASSUME NEW r \in Req, request'[r] = "resolved" PROVE Reached(sigOf[r], DesiredOf[r])
    BY <1>3, <1>7, <2>1 DEF IInv, VerdictsAreTheChains
  <2>2. ASSUME NEW r \in Req, request'[r] = "failed" PROVE chain[sigOf[r]] = "failed"
    BY <1>3, <1>5, <2>2 DEF IInv, VerdictsAreTheChains, ChecksOK, CheckOK, TypeOK
  <2> QED BY <2>1, <2>2 DEF IInv, VerdictsAreTheChains, Reached
<1>11. ForgottenOnlyWhenSharedOrUnreported'
  <2> SUFFICES ASSUME NEW r \in Req, request'[r] = "pending"
               PROVE  \/ pendingConfirmations'[sigOf[r]] = r
                      \/ \E d \in Check : checks'[d].error = r
                      \/ Shared(r)' \/ r \in unreported
    BY DEF ForgottenOnlyWhenSharedOrUnreported
  <2>1. request[r] = "pending" /\ requests[r] = "pending" /\ r \notin confirmed
    BY <1>3
  <2>2. CASE pendingConfirmations[sigOf[r]] = r
    <3>1. CASE sigOf[r] \notin removed
      BY <1>3, <1>5, <2>2, <3>1
    <3>2. CASE sigOf[r] \in removed
      <4>1. PICK q \in todo : sigOf[q] = sigOf[r] /\ (q \in confirmed \/ (q = error /\ error # None))
        BY <1>2, <3>2
      <4>2. CASE q = r
        <5>1. error = r /\ now.error = r
          BY <1>4a, <2>1, <4>1, <4>2
        <5> QED BY <1>3, <1>5, <5>1 DEF TypeOK
      <4>3. CASE q # r
        BY <1>6, <4>1, <4>3 DEF Shared
      <4> QED BY <4>2, <4>3
    <3> QED BY <3>1, <3>2
  <2>3. ASSUME NEW d \in Check, checks[d].error = r PROVE checks'[d].error = r
    BY <1>3, <1>5, <2>1, <2>3, SetsAssumption DEF TypeOK
  <2>4. CASE Shared(r)
    BY <1>6, <2>4 DEF Shared
  <2> QED BY <2>1, <2>2, <2>3, <2>4 DEF IInv, ForgottenOnlyWhenSharedOrUnreported
<1>12. ChecksOK'
  <2>1. ASSUME NEW d \in Check, d # c PROVE CheckOK(d)'
    <3>1. checks'[d] = checks[d] /\ checks[d].todo \subseteq Req /\ checks[d].error \in Req \cup {None}
      BY <1>3, <1>5, <2>1 DEF TypeOK
    <3>2. CheckOK(d)
      BY DEF IInv, ChecksOK
    <3>3. \A s \in Sig : pendingConfirmations'[s] \in {pendingConfirmations[s], None}
      BY <1>3
    <3> QED BY <1>6, <3>1, <3>2, <3>3 DEF CheckOK, Truthful, Reached
  <2>2. CheckOK(c)'
    <3>1. checks'[c] = now
      BY <1>3, <1>5 DEF TypeOK
    <3>2. ASSUME error # None
          PROVE  /\ request'[error] # "unused"
                 /\ chain[sigOf[error]] = "failed"
                 /\ \A s \in Sig : pendingConfirmations'[s] # error
      <4>1. error \in Req /\ request'[error] # "unused"
        BY <1>2, <1>6, <3>2
      <4>2. chain[sigOf[error]] = "failed"
        BY <1>2, <1>5, <3>2, <4>1, Levels DEF Truthful
      <4>3. ASSUME NEW s \in Sig PROVE pendingConfirmations'[s] # error
        BY <1>2, <1>3, <1>5, <3>2, <4>1 DEF TypeOK
      <4> QED BY <4>1, <4>2, <4>3
    <3>3. \A s \in Sig : Truthful(s, now.status[s])'
      BY <1>4a DEF Truthful, Reached
    <3>4. \A r \in now.todo : request'[r] # "unused"
      BY <1>4a, <1>6
    <3> QED BY <1>4a, <3>1, <3>2, <3>3, <3>4 DEF CheckOK, Truthful, Reached
  <2> QED BY <2>1, <2>2 DEF ChecksOK
<1> QED BY <1>8, <1>9, <1>10, <1>11, <1>12 DEF IInv

-----------------------------------------------------------------------------
(* One lemma for each action that does not handle an answer.                *)

LEMMA AdvanceChainInv ==
    ASSUME IInv, NEW t \in Sig, AdvanceChain(t)
    PROVE  IInv'
<1> USE SigAssumption, SetsAssumption
<1>1. TypeOK /\ UNCHANGED <<polling, ws>>
  BY DEF IInv, AdvanceChain
<1>2. /\ chain' \in [Sig -> Outcome]
      /\ \A s \in Sig : chain[s] = "failed" => chain'[s] = "failed"
      /\ \A s \in Sig, l \in DOMAIN Level : Reached(s, l) => Reached(s, l)'
  BY <1>1, ChainMovesForward DEF TypeOK
<1>3. TypeOK'
  BY <1>1, <1>2 DEF TypeOK, polling
<1>4. LoopRunsWhilePending'
  BY <1>1 DEF IInv, LoopRunsWhilePending, Pending, polling
<1>5. VerdictsAreTheChains'
  BY <1>1, <1>2 DEF IInv, VerdictsAreTheChains, TypeOK, polling
<1>6. ForgottenOnlyWhenSharedOrUnreported'
  BY <1>1 DEF IInv, ForgottenOnlyWhenSharedOrUnreported, Shared, polling
<1>7. ASSUME NEW c \in Check PROVE CheckOK(c)'
  <2>1. CheckOK(c) /\ checks' = checks /\ request' = request /\ sigOf' = sigOf
        /\ pendingConfirmations' = pendingConfirmations
    BY <1>1 DEF IInv, ChecksOK, polling
  <2>2. checks[c].error \in Req \cup {None} /\ sigOf \in [Req -> Sig]
    BY <1>1 DEF TypeOK
  <2> QED BY <1>2, <2>1, <2>2 DEF CheckOK, Truthful
<1> QED BY <1>3, <1>4, <1>5, <1>6, <1>7 DEF IInv, ChecksOK

(* The websocket calls touch neither the chain nor the polling requests.    *)
LEMMA WebSocketInv ==
    ASSUME IInv, NEW w \in Ws,
           \/ confirmTransactionWebSocket(w) \/ OneShotAnswered(w)
           \/ Notified(w) \/ WebSocketTimeout(w)
    PROVE  IInv'
<1> USE SigAssumption, SetsAssumption
<1>1. TypeOK /\ UNCHANGED <<chain, polling>>
  BY DEF IInv, confirmTransactionWebSocket, OneShotAnswered, Notified, WebSocketTimeout
<1> DEFINE T == [phase : {"unused", "waiting", "answered", "unknown"}, oneShot : BOOLEAN,
                 listener : BOOLEAN, timer : BOOLEAN, response : Outcome]
<1>2. ws \in [Ws -> T]
  BY <1>1 DEF TypeOK
<1>3. "none" \in Outcome /\ DesiredOf[w] \in DOMAIN Level /\ WsSig[w] \in Sig
  BY DEF Outcome
<1> DEFINE Becomes(rec) ==
        /\ ws' = [ws EXCEPT ![w] = rec]
        /\ rec.phase = "answered" => chain[WsSig[w]] = "failed" \/ Reached(WsSig[w], DesiredOf[w])
<1>4. \E rec \in T : Becomes(rec)
  <2>1. CASE confirmTransactionWebSocket(w)
    BY <1>3, <2>1 DEF confirmTransactionWebSocket
  <2>2. ASSUME NEW response \in Outcome, Settle(w, response),
               response = "none" \/ chain[WsSig[w]] = "failed" \/ Reached(WsSig[w], DesiredOf[w])
        PROVE  \E rec \in T : Becomes(rec)
    <3> DEFINE rec == [phase |-> IF response = "none" THEN "unknown" ELSE "answered",
                       oneShot |-> FALSE, listener |-> FALSE, timer |-> FALSE, response |-> response]
    <3>1. rec \in T /\ ws' = [ws EXCEPT ![w] = rec]
      BY <2>2 DEF Settle
    <3>2. rec.phase = "answered" => chain[WsSig[w]] = "failed" \/ Reached(WsSig[w], DesiredOf[w])
      BY <2>2
    <3> HIDE DEF rec
    <3> QED BY <3>1, <3>2
  <2>3. CASE OneShotAnswered(w)
    <3>1. PICK status \in Answers(WsSig[w]) :
            IF checkStatusMatchesDesiredConfirmationStatus(status, DesiredOf[w])
            THEN Settle(w, status) ELSE ws' = [ws EXCEPT ![w] = WaitsOn(w)]
      BY <2>3 DEF OneShotAnswered
    <3>2. status \in Outcome /\ Truthful(WsSig[w], status)
      BY <1>1, <1>3, AnswersTruthful DEF TypeOK
    <3>3. CASE checkStatusMatchesDesiredConfirmationStatus(status, DesiredOf[w])
      BY <1>1, <1>3, <2>2, <3>1, <3>2, <3>3, MatchMeansReached DEF TypeOK
    <3>4. CASE ~checkStatusMatchesDesiredConfirmationStatus(status, DesiredOf[w])
      <4>1. WaitsOn(w) \in T /\ WaitsOn(w).phase = "waiting"
        BY <1>2, <2>3 DEF WaitsOn, OneShotAnswered
      <4> QED BY <3>1, <3>4, <4>1
    <3> QED BY <3>3, <3>4
  <2>4. CASE Notified(w)
    <3>1. PICK status \in Answers(WsSig[w]) :
            /\ status = "failed" \/ checkStatusMatchesDesiredConfirmationStatus(status, DesiredOf[w])
            /\ Settle(w, status)
      BY <2>4 DEF Notified, checkStatusMatchesDesiredConfirmationStatus
    <3>2. status \in Outcome /\ Truthful(WsSig[w], status)
      BY <1>1, <1>3, AnswersTruthful DEF TypeOK
    <3>3. chain[WsSig[w]] = "failed" \/ Reached(WsSig[w], DesiredOf[w])
      BY <1>1, <1>3, <3>1, <3>2, MatchMeansReached, Levels DEF TypeOK, Truthful
    <3> QED BY <2>2, <3>1, <3>2, <3>3
  <2>5. CASE WebSocketTimeout(w)
    BY <1>3, <2>2, <2>5 DEF WebSocketTimeout
  <2> QED BY <2>1, <2>3, <2>4, <2>5
<1>5. PICK rec \in T : Becomes(rec)
  BY <1>4
<1>6. TypeOK'
  <2>1. ws' \in [Ws -> T]
    BY <1>2, <1>5
  <2> QED BY <1>1, <2>1 DEF TypeOK, polling
<1>7. VerdictsAreTheChains'
  BY <1>1, <1>2, <1>5 DEF IInv, VerdictsAreTheChains, Reached, polling
<1>8. LoopRunsWhilePending' /\ ForgottenOnlyWhenSharedOrUnreported' /\ ChecksOK'
  BY <1>1 DEF IInv, LoopRunsWhilePending, Pending, ForgottenOnlyWhenSharedOrUnreported, Shared,
              ChecksOK, CheckOK, Truthful, Reached, polling
<1> QED BY <1>6, <1>7, <1>8 DEF IInv

LEMMA NewRequestInv ==
    ASSUME IInv, NEW q \in Req, confirmTransactionPolling(q)
    PROVE  IInv'
<1> USE SigAssumption, SetsAssumption
<1>1. /\ TypeOK /\ request[q] = "unused"
      /\ request' = [request EXCEPT ![q] = "pending"]
      /\ pendingConfirmations' = [pendingConfirmations EXCEPT ![sigOf[q]] = q]
      /\ intervalId' = TRUE /\ due' = (due /\ intervalId)
      /\ UNCHANGED <<chain, sigOf, age, checks, unreported, ws>>
  BY DEF IInv, confirmTransactionPolling
<1>2. TypeOK'
  BY <1>1 DEF TypeOK
<1>3. LoopRunsWhilePending'
  BY <1>1 DEF LoopRunsWhilePending
<1>4. VerdictsAreTheChains'
  BY <1>1 DEF IInv, VerdictsAreTheChains, Reached, TypeOK
<1>5. ForgottenOnlyWhenSharedOrUnreported'
  <2> SUFFICES ASSUME NEW r \in Req, request'[r] = "pending"
               PROVE  \/ pendingConfirmations'[sigOf[r]] = r
                      \/ \E d \in Check : checks[d].error = r
                      \/ Shared(r)' \/ r \in unreported
    BY <1>1 DEF ForgottenOnlyWhenSharedOrUnreported
  <2>1. CASE r = q
    BY <1>1, <2>1 DEF TypeOK
  <2>2. CASE r # q /\ sigOf[r] = sigOf[q]
    BY <1>1, <2>2 DEF Shared, TypeOK
  <2>3. CASE r # q /\ sigOf[r] # sigOf[q]
    BY <1>1, <2>3 DEF IInv, ForgottenOnlyWhenSharedOrUnreported, Shared, TypeOK
  <2> QED BY <2>1, <2>2, <2>3
<1>6. ASSUME NEW c \in Check PROVE CheckOK(c)'
  <2>1. CheckOK(c) /\ checks[c].todo \subseteq Req /\ checks[c].error \in Req \cup {None}
    BY <1>1 DEF IInv, ChecksOK, TypeOK
  <2> QED BY <1>1, <2>1 DEF CheckOK, Truthful, Reached, TypeOK
<1> QED BY <1>2, <1>3, <1>4, <1>5, <1>6 DEF IInv, ChecksOK

(* Time touches only the ages and the timer of the interval.                *)
LEMMA TimeInv ==
    ASSUME IInv, TimePasses \/ TimerExpires
    PROVE  IInv'
<1> USE SigAssumption, SetsAssumption
<1>1. TypeOK /\ UNCHANGED <<chain, request, sigOf, pendingConfirmations, intervalId, checks, unreported, ws>>
  BY DEF IInv, TimePasses, TimerExpires
<1>2. age' \in [Req -> 0 .. Timeout] /\ due' \in BOOLEAN
  <2>1. age \in [Req -> 0 .. Timeout] /\ due \in BOOLEAN /\ intervalId \in BOOLEAN
    BY <1>1 DEF TypeOK
  <2>2. ASSUME NEW r \in Req PROVE age[r] \in 0 .. Timeout /\ (age[r] < Timeout => age[r] + 1 \in 0 .. Timeout)
    BY <2>1, TimeAssumption
  <2>3. CASE TimePasses
    <3>1. age' = [r \in Req |-> IF r \in Pending /\ age[r] < Timeout THEN age[r] + 1 ELSE age[r]]
      BY <2>3 DEF TimePasses
    <3> QED BY <2>1, <2>2, <2>3, <3>1 DEF TimePasses
  <2>4. CASE TimerExpires
    BY <2>1, <2>4 DEF TimerExpires
  <2> QED BY <2>3, <2>4
<1>3. TypeOK'
  BY <1>1, <1>2 DEF TypeOK
<1> QED BY <1>1, <1>3 DEF IInv, LoopRunsWhilePending, Pending, VerdictsAreTheChains, Reached,
              ForgottenOnlyWhenSharedOrUnreported, Shared, ChecksOK, CheckOK, Truthful

LEMMA CheckStartsInv ==
    ASSUME IInv, NEW c \in Check, checkPendingConfirmations(c)
    PROVE  IInv'
<1> USE SigAssumption, SetsAssumption
<1> DEFINE asking == [Idle EXCEPT !.phase = "asking", !.todo = ToCheck]
<1>1. /\ TypeOK /\ intervalId /\ due' = FALSE
      /\ request' = [r \in Req |-> IF r \in Late /\ request[r] = "pending" THEN "timedOut" ELSE request[r]]
      /\ pendingConfirmations' = WithoutLate
      /\ UNCHANGED <<chain, sigOf, age, unreported, ws>>
  BY DEF IInv, checkPendingConfirmations
<1>2. \/ intervalId' = IntervalAfter(WithoutLate) /\ checks' = checks
      \/ /\ intervalId' = intervalId /\ checks[c].phase = "idle"
         /\ checks' = [checks EXCEPT ![c] = asking]
  BY DEF checkPendingConfirmations
<1>3. /\ ToCheck \subseteq Req
      /\ \A r \in ToCheck : request[r] = "pending"
      /\ asking.phase = "asking" /\ asking.todo = ToCheck /\ asking.error = None
      /\ asking.status = NoStatus
  BY <1>1 DEF ToCheck, Pending, TypeOK, Idle
<1>4. asking \in [phase : {"idle", "asking", "reporting"}, todo : SUBSET Req,
                  error : Req \cup {None}, status : [Sig -> Outcome]]
  BY <1>3 DEF Idle, NoStatus, Outcome
<1> HIDE DEF asking
<1>5. \A s \in Sig : pendingConfirmations'[s] \in {pendingConfirmations[s], None}
  BY <1>1 DEF WithoutLate
<1>6. TypeOK'
  <2>1. intervalId' \in BOOLEAN
    BY <1>1, <1>2 DEF IntervalAfter, TypeOK
  <2>2. checks' \in [Check -> [phase : {"idle", "asking", "reporting"}, todo : SUBSET Req,
                  error : Req \cup {None}, status : [Sig -> Outcome]]]
    <3>1. checks \in [Check -> [phase : {"idle", "asking", "reporting"}, todo : SUBSET Req,
                    error : Req \cup {None}, status : [Sig -> Outcome]]]
      BY <1>1 DEF TypeOK
    <3>2. CASE checks' = checks
      BY <3>1, <3>2
    <3>3. CASE checks' = [checks EXCEPT ![c] = asking]
      BY <1>4, <3>1, <3>3
    <3> QED BY <1>2, <3>2, <3>3
  <2>3. pendingConfirmations' \in [Sig -> Req \cup {None}]
    BY <1>1 DEF WithoutLate, TypeOK
  <2>4. request' \in [Req -> {"unused", "pending", "resolved", "failed", "timedOut"}]
    BY <1>1 DEF TypeOK
  <2>5. ASSUME NEW s \in Sig, pendingConfirmations'[s] # None
        PROVE  sigOf[pendingConfirmations'[s]] = s /\ request'[pendingConfirmations'[s]] = "pending"
    <3> DEFINE r == pendingConfirmations[s]
    <3>1. pendingConfirmations'[s] = r /\ r # None /\ r \notin Late
      BY <1>1, <2>5 DEF WithoutLate
    <3>2. r \in Req /\ sigOf[r] = s /\ request[r] = "pending"
      BY <1>1, <3>1 DEF TypeOK
    <3>3. request'[r] = "pending"
      BY <1>1, <3>1, <3>2
    <3> QED BY <1>1, <3>1, <3>2, <3>3
  <2> QED BY <1>1, <2>1, <2>2, <2>3, <2>4, <2>5 DEF TypeOK
<1>7. LoopRunsWhilePending'
  <2> SUFFICES ASSUME NEW s \in Sig, pendingConfirmations'[s] # None PROVE intervalId'
    BY DEF LoopRunsWhilePending, Pending
  <2> QED BY <1>1, <1>2 DEF IntervalAfter
<1>8. VerdictsAreTheChains'
  BY <1>1 DEF IInv, VerdictsAreTheChains, Reached
<1>9. ForgottenOnlyWhenSharedOrUnreported'
  <2> SUFFICES ASSUME NEW r \in Req, request'[r] = "pending"
               PROVE  \/ pendingConfirmations'[sigOf[r]] = r
                      \/ \E d \in Check : checks'[d].error = r
                      \/ Shared(r)' \/ r \in unreported
    BY <1>1 DEF ForgottenOnlyWhenSharedOrUnreported
  <2>1. request[r] = "pending" /\ r \notin Late
    BY <1>1
  <2>2. CASE pendingConfirmations[sigOf[r]] = r
    BY <1>1, <2>1, <2>2 DEF WithoutLate, TypeOK
  <2>3. ASSUME NEW d \in Check, checks[d].error = r PROVE checks'[d].error = r
    <3>1. d = c => checks[c].phase = "reporting"
      BY <2>3 DEF IInv, ChecksOK, CheckOK
    <3> QED BY <1>1, <1>2, <2>3, <3>1 DEF TypeOK
  <2>4. CASE Shared(r)
    BY <1>1, <2>4 DEF Shared
  <2> QED BY <2>1, <2>2, <2>3, <2>4 DEF IInv, ForgottenOnlyWhenSharedOrUnreported
<1>10. ASSUME NEW d \in Check PROVE CheckOK(d)'
  <2>1. CheckOK(d) /\ checks[d].todo \subseteq Req /\ checks[d].error \in Req \cup {None}
    BY <1>1 DEF IInv, ChecksOK, TypeOK
  <2>2. \A r \in Req : request[r] # "unused" => request'[r] # "unused"
    BY <1>1 DEF TypeOK
  <2>3. checks'[d] = checks[d] \/ checks'[d] = asking
    BY <1>1, <1>2 DEF TypeOK
  <2>4. CASE checks'[d] = checks[d]
    BY <1>1, <1>5, <2>1, <2>2, <2>4 DEF CheckOK, Truthful, Reached
  <2>5. CASE checks'[d] = asking
    BY <1>3, <2>2, <2>5 DEF CheckOK, Truthful, NoStatus
  <2> QED BY <2>3, <2>4, <2>5
<1> QED BY <1>6, <1>7, <1>8, <1>9, <1>10 DEF IInv, ChecksOK

(* A check ends with an exception.                                          *)
LEMMA CheckFailsInv ==
    ASSUME IInv, NEW c \in Check, StatusesFail(c) \/ ErrorFetchFails(c)
    PROVE  IInv'
<1> USE SigAssumption, SetsAssumption
<1>1. /\ TypeOK /\ checks' = [checks EXCEPT ![c] = Idle]
      /\ UNCHANGED <<chain, request, sigOf, pendingConfirmations, age, intervalId, due, ws>>
      /\ unreported' = IF checks[c].phase = "reporting" THEN unreported \cup {checks[c].error} ELSE unreported
  BY DEF IInv, StatusesFail, ErrorFetchFails
<1>2. Idle \in [phase : {"idle", "asking", "reporting"}, todo : SUBSET Req,
                error : Req \cup {None}, status : [Sig -> Outcome]]
  BY DEF Idle, NoStatus, Outcome
<1>3. checks[c].phase = "reporting" <=> checks[c].error # None
  BY DEF IInv, ChecksOK, CheckOK
<1>4. TypeOK'
  <2>1. checks' \in [Check -> [phase : {"idle", "asking", "reporting"}, todo : SUBSET Req,
                  error : Req \cup {None}, status : [Sig -> Outcome]]]
    BY <1>1, <1>2 DEF TypeOK
  <2>2. unreported' \in SUBSET Req
    BY <1>1, <1>3 DEF TypeOK
  <2> QED BY <1>1, <2>1, <2>2 DEF TypeOK
<1>5. LoopRunsWhilePending' /\ VerdictsAreTheChains'
  BY <1>1 DEF IInv, LoopRunsWhilePending, Pending, VerdictsAreTheChains, Reached
<1>6. ForgottenOnlyWhenSharedOrUnreported'
  <2> SUFFICES ASSUME NEW r \in Req, request[r] = "pending"
               PROVE  \/ pendingConfirmations[sigOf[r]] = r
                      \/ \E d \in Check : checks'[d].error = r
                      \/ Shared(r) \/ r \in unreported'
    BY <1>1 DEF ForgottenOnlyWhenSharedOrUnreported, Shared
  <2>1. ASSUME NEW d \in Check, checks[d].error = r PROVE checks'[d].error = r \/ r \in unreported'
    BY <1>1, <1>3, <2>1 DEF TypeOK
  <2> QED BY <1>1, <2>1 DEF IInv, ForgottenOnlyWhenSharedOrUnreported
<1>7. ASSUME NEW d \in Check PROVE CheckOK(d)'
  <2>1. CheckOK(d) /\ (checks'[d] = checks[d] \/ checks'[d] = Idle)
    BY <1>1 DEF IInv, ChecksOK, TypeOK
  <2>2. CASE checks'[d] = checks[d]
    BY <1>1, <2>1, <2>2 DEF CheckOK, Truthful, Reached
  <2>3. CASE checks'[d] = Idle
    BY <2>3 DEF CheckOK, Truthful, Idle, NoStatus
  <2> QED BY <2>1, <2>2, <2>3
<1> QED BY <1>4, <1>5, <1>6, <1>7 DEF IInv, ChecksOK

(* A check handles the answer it waited for.                                *)
LEMMA CheckAnsweredInv ==
    ASSUME IInv, NEW c \in Check, StatusesAnswered(c) \/ ErrorFetched(c)
    PROVE  IInv'
<1>1. TypeOK /\ CheckOK(c) /\ UNCHANGED <<chain, sigOf, age, due, unreported, ws>>
  BY DEF IInv, ChecksOK, StatusesAnswered, ErrorFetched
<1>2. /\ checks[c].todo \in SUBSET Req /\ checks[c].status \in [Sig -> Outcome]
      /\ checks[c].error \in Req \cup {None}
      /\ request \in [Req -> {"unused", "pending", "resolved", "failed", "timedOut"}]
  BY <1>1 DEF TypeOK
<1>3. CASE StatusesAnswered(c)
  <2>1. PICK status \in Statuses({sigOf[r] : r \in checks[c].todo}) :
          HandleStatuses(c, request, checks[c].todo, status)
    BY <1>3 DEF StatusesAnswered
  <2>2. status \in [Sig -> Outcome]
    BY DEF Statuses
  <2>3. ASSUME NEW s \in Sig PROVE Truthful(s, status[s])
    BY <1>1, AnswersTruthful DEF Statuses, TypeOK, Truthful
  <2>4. checks[c].error = None
    BY <1>1, <1>3 DEF CheckOK, StatusesAnswered
  <2>5. \A r \in checks[c].todo : request[r] # "unused"
    BY <1>1 DEF CheckOK
  <2> QED BY <1>1, <1>2, <2>1, <2>2, <2>3, <2>4, <2>5, HandleStatusesInv
<1>4. CASE ErrorFetched(c)
  <2> DEFINE e == checks[c].error
             rejected == IF request[e] = "pending" THEN [request EXCEPT ![e] = "failed"] ELSE request
  <2>1. HandleStatuses(c, rejected, checks[c].todo, checks[c].status)
    BY <1>4 DEF ErrorFetched
  <2>2. /\ rejected \in [Req -> {"unused", "pending", "resolved", "failed", "timedOut"}]
        /\ \A r \in Req : \/ rejected[r] = request[r]
                          \/ r = checks[c].error /\ request[r] = "pending" /\ rejected[r] = "failed"
        /\ checks[c].error # None => rejected[checks[c].error] # "pending"
    BY <1>2
  <2>3. /\ \A r \in checks[c].todo : request[r] # "unused"
        /\ \A s \in Sig : Truthful(s, checks[c].status[s])
    BY <1>1 DEF CheckOK
  <2> HIDE DEF rejected
  <2> QED BY <1>1, <1>2, <2>1, <2>2, <2>3, HandleStatusesInv
<1> QED BY <1>3, <1>4

-----------------------------------------------------------------------------
LEMMA NextInv == IInv /\ [Next]_vars => IInv'
<1> SUFFICES ASSUME IInv, [Next]_vars PROVE IInv'
  OBVIOUS
<1>1. ASSUME NEW s \in Sig, AdvanceChain(s) PROVE IInv'
  BY <1>1, AdvanceChainInv
<1>2. ASSUME NEW r \in Req, confirmTransactionPolling(r) PROVE IInv'
  BY <1>2, NewRequestInv
<1>3. CASE TimePasses \/ TimerExpires
  BY <1>3, TimeInv
<1>4. ASSUME NEW c \in Check, checkPendingConfirmations(c) PROVE IInv'
  BY <1>4, CheckStartsInv
<1>5. ASSUME NEW c \in Check, StatusesAnswered(c) \/ ErrorFetched(c) PROVE IInv'
  BY <1>5, CheckAnsweredInv
<1>6. ASSUME NEW c \in Check, StatusesFail(c) \/ ErrorFetchFails(c) PROVE IInv'
  BY <1>6, CheckFailsInv
<1>7. ASSUME NEW w \in Ws, \/ confirmTransactionWebSocket(w) \/ OneShotAnswered(w)
                           \/ Notified(w) \/ WebSocketTimeout(w)
      PROVE  IInv'
  BY <1>7, WebSocketInv
<1>8. CASE UNCHANGED vars
  <2>1. /\ chain' = chain /\ request' = request /\ sigOf' = sigOf
        /\ pendingConfirmations' = pendingConfirmations /\ age' = age /\ intervalId' = intervalId
        /\ due' = due /\ checks' = checks /\ unreported' = unreported /\ ws' = ws
    BY <1>8 DEF vars, polling
  <2>2. TypeOK'
    BY <2>1 DEF IInv, TypeOK
  <2>3. LoopRunsWhilePending' /\ VerdictsAreTheChains'
    BY <2>1 DEF IInv, LoopRunsWhilePending, Pending, VerdictsAreTheChains, Reached
  <2>4. ForgottenOnlyWhenSharedOrUnreported'
    BY <2>1 DEF IInv, ForgottenOnlyWhenSharedOrUnreported, Shared
  <2>5. ChecksOK'
    BY <2>1 DEF IInv, ChecksOK, CheckOK, Truthful, Reached
  <2> QED BY <2>2, <2>3, <2>4, <2>5 DEF IInv
<1> QED BY <1>1, <1>2, <1>3, <1>4, <1>5, <1>6, <1>7, <1>8 DEF Next

LEMMA IInvHolds == Spec => []IInv
BY InitInv, NextInv, PTL DEF Spec

(* The map of pending confirmations names, under each signature, a request  *)
(* of that signature whose promise is pending; the other fields have their  *)
(* types (pendingConfirmations of TransactionConfirmationManager).          *)
THEOREM TypeCorrect == Spec => []TypeOK
<1>1. IInv => TypeOK
  BY DEF IInv
<1> QED BY <1>1, IInvHolds, PTL

(* However checks overlap, fail and throw, the interval that will notice a  *)
(* timeout runs as long as a request is pending.                            *)
THEOREM LoopKeepsRunning == Spec => []LoopRunsWhilePending
<1>1. IInv => LoopRunsWhilePending
  BY DEF IInv
<1> QED BY <1>1, IInvHolds, PTL

(* No caller is told that its transaction reached the status it asked for,  *)
(* or failed, unless it did.                                                *)
THEOREM VerdictsAreTrue == Spec => []VerdictsAreTheChains
<1>1. IInv => VerdictsAreTheChains
  BY DEF IInv
<1> QED BY <1>1, IInvHolds, PTL

(* A pending promise is in the map or is being rejected, except in the two  *)
(* cases in which the code forgets it.                                      *)
THEOREM NothingElseForgotten == Spec => []ForgottenOnlyWhenSharedOrUnreported
<1>1. IInv => ForgottenOnlyWhenSharedOrUnreported
  BY DEF IInv
<1> QED BY <1>1, IInvHolds, PTL

(* Who still waits is kept and looked after: the three facts together.      *)
THEOREM PendingStaysKept == Spec => []PendingRequestsAreKept
<1>1. IInv => PendingRequestsAreKept
  BY DEF IInv, PendingRequestsAreKept
<1> QED BY <1>1, IInvHolds, PTL

-----------------------------------------------------------------------------
(* The senders.                                                             *)

Told == {"ok", "timeout", "error"}

(* What is known of a transaction that lands, and of one of a whileValid    *)
(* sender that its caller is told to have succeeded.                        *)
Checked(t) ==
    config.sender = "whileValid" /\ config.throwOnTransactionError /\ config.strategy = "WebSocket"
        => t \notin failed /\ seen[t] >= config.commitment

TxOK(t) ==
    /\ seen[t] >= level[t]
    /\ at[t] \in {"new", "blockhash", "sending"} =>
           outcome[t] = None /\ txSigCache[t] = None /\ loop[t] = "off"
    /\ at[t] = "settled" => loop[t] = "off"
    /\ at[t] = "checking" => config.strategy = "Combo"
    /\ config.throwOnTimeoutError =>
           /\ at[t] = "reading" \/ txSigCache[t] = TRUE => seen[t] > 0
           /\ outcome[t] = "ok" /\ Sending!Waits => seen[t] > 0
           /\ outcome[t] = "ok" => Checked(t)

(* What is typed of one transaction.                                        *)
TxType ==
    /\ level \in [Tx -> Sending!Level] /\ seen \in [Tx -> Sending!Level] /\ failed \subseteq Tx
    /\ at \in [Tx -> Sending!Stages]
    /\ outcome \in [Tx -> {None, "ok", "timeout", "error"}]
    /\ polls \in [Tx -> 0 .. Polls]
    /\ loop \in [Tx -> {"off", "sleeping"}]
    /\ done \subseteq Tx /\ late \subseteq Tx
    /\ resends \in [Tx -> 0 .. MaxResends]
    /\ txSigCache \in [Tx -> {None} \cup BOOLEAN]

(* Every time-out decided a send of its own.                                *)
Decided == {"reading", "settled"}
Undecided == {t \in Tx : at[t] \notin Decided}
TimeoutsCounted ==
    timeoutCount \in Nat /\ timeoutCount + Cardinality(Undecided) <= Cardinality(Tx)

SenderIInv ==
    /\ config \in Configs
    /\ TxType
    /\ blockhash \in {None} \cup 1 .. retryCount
    /\ TimeoutsCounted
    /\ \A t \in Tx : TxOK(t)

-----------------------------------------------------------------------------
(* Counting.                                                                *)

LEMMA UndecidedFinite ==
    ASSUME Sending!TxSenderAssumption
    PROVE  /\ IsFiniteSet(Undecided) /\ Cardinality(Undecided) \in Nat /\ Cardinality(Tx) \in Nat
           /\ Cardinality(Undecided) <= Cardinality(Tx)
<1>1. IsFiniteSet(Tx) /\ Undecided \in SUBSET Tx
  BY DEF Sending!TxSenderAssumption, Sending!IsFiniteSet, IsFiniteSet, Undecided
<1> QED
  BY <1>1, FS_Subset, FS_CardinalityType

(* No send that is decided is undecided again, ...                          *)
LEMMA CountKept ==
    ASSUME Sending!TxSenderAssumption, TimeoutsCounted, UNCHANGED timeoutCount,
           \A t \in Tx : at[t] \in Decided => at'[t] \in Decided
    PROVE  TimeoutsCounted'
<1>1. Undecided' \in SUBSET Undecided
  BY DEF Undecided
<1>2. IsFiniteSet(Undecided) /\ Cardinality(Undecided) \in Nat /\ Cardinality(Tx) \in Nat
  BY UndecidedFinite
<1>3. Cardinality(Undecided') <= Cardinality(Undecided) /\ IsFiniteSet(Undecided')
  BY <1>1, <1>2, FS_Subset
<1>4. Cardinality(Undecided') \in Nat
  BY <1>3, FS_CardinalityType
<1> QED
  BY <1>2, <1>3, <1>4 DEF TimeoutsCounted

(* ... and one that becomes so may count as a time-out.                     *)
LEMMA CountGrows ==
    ASSUME Sending!TxSenderAssumption, TimeoutsCounted, NEW t \in Tx, at[t] \notin Decided, NEW stage \in Decided,
           timeoutCount' = timeoutCount + 1, at' = [at EXCEPT ![t] = stage],
           at \in [Tx -> Sending!Stages]
    PROVE  TimeoutsCounted'
<1>1. Undecided' = Undecided \ {t} /\ t \in Undecided
  BY DEF Undecided
<1>2. IsFiniteSet(Undecided) /\ Cardinality(Undecided) \in Nat /\ Cardinality(Tx) \in Nat
  BY UndecidedFinite
<1>3. Cardinality(Undecided') = Cardinality(Undecided) - 1
  BY <1>1, <1>2, FS_RemoveElement
<1> QED
  BY <1>2, <1>3 DEF TimeoutsCounted

-----------------------------------------------------------------------------
(* The confirmation of one transaction ends, or has a result.               *)

(* What a caller that is told something may be told, and what may count as  *)
(* landed.                                                                  *)
Justified(t, told, landed) ==
    config.throwOnTimeoutError =>
        /\ landed => seen[t] > 0
        /\ told = "ok" => seen[t] > 0 /\ Checked(t)

Others(t) ==
    \A s \in Tx \ {t} :
        /\ at'[s] = at[s] /\ outcome'[s] = outcome[s] /\ txSigCache'[s] = txSigCache[s]
        /\ loop'[s] = loop[s]

ConfirmTypes ==
    /\ at' \in [Tx -> Sending!Stages]
    /\ outcome' \in [Tx -> {None, "ok", "timeout", "error"}]
    /\ loop' \in [Tx -> {"off", "sleeping"}]
    /\ done' \subseteq Tx
    /\ txSigCache' \in [Tx -> {None} \cup BOOLEAN]

(* Whoever keeps his own part right keeps everything right.                 *)
LEMMA OthersKept ==
    ASSUME SenderIInv, NEW t \in Tx, Others(t), UNCHANGED <<config, Sending!chain>>, TxOK(t)'
    PROVE  \A s \in Tx : TxOK(s)'
<1> SUFFICES ASSUME NEW s \in Tx \ {t} PROVE TxOK(s)'
  OBVIOUS
<1>1. /\ at'[s] = at[s] /\ outcome'[s] = outcome[s] /\ txSigCache'[s] = txSigCache[s]
      /\ loop'[s] = loop[s]
      /\ UNCHANGED <<config, level, seen, failed>>
  BY DEF Others, Sending!chain
<1>2. TxOK(s)
  BY DEF SenderIInv
<1> QED
  BY <1>1, <1>2 DEF TxOK, Checked, Sending!Waits

LEMMA SettleKeeps ==
    ASSUME Sending!TxSenderAssumption, SenderIInv, NEW t \in Tx, NEW told \in Told, NEW landed \in BOOLEAN,
           at[t] \notin {"new", "blockhash", "sending"},
           Sending!Settle(t, told, landed), UNCHANGED <<config, Sending!chain>>, Justified(t, told, landed)
    PROVE  ConfirmTypes /\ (\A s \in Tx : TxOK(s)') /\ at' = [at EXCEPT ![t] = "settled"]
<1>1. /\ at' = [at EXCEPT ![t] = "settled"]
      /\ outcome' = [outcome EXCEPT ![t] = IF @ = None THEN told ELSE @]
      /\ txSigCache' = [txSigCache EXCEPT ![t] = IF landed THEN TRUE ELSE @]
      /\ loop' = [loop EXCEPT ![t] = "off"]
      /\ done' \in {done, done \cup {t}}
  BY DEF Sending!Settle, Sending!StopsWaiting
<1>2. TxType /\ TxOK(t)
  BY DEF SenderIInv
<1>3. UNCHANGED <<config, level, seen, failed>>
  BY DEF Sending!chain
<1>4. txSigCache' \in [Tx -> {None} \cup BOOLEAN]
  <2>1. CASE landed
    <3>1. txSigCache' = [txSigCache EXCEPT ![t] = TRUE]
      BY <1>1, <2>1
    <3> QED
      BY <1>2, <3>1 DEF TxType
  <2>2. CASE ~landed
    <3>1. txSigCache' = [txSigCache EXCEPT ![t] = txSigCache[t]]
      BY <1>1, <2>2
    <3> QED
      BY <1>2, <3>1 DEF TxType
  <2> QED
    BY <2>1, <2>2
<1>5. ConfirmTypes
  BY <1>1, <1>2, <1>4 DEF ConfirmTypes, TxType, Sending!Stages, Told
<1>6. Others(t)
  BY <1>1, <1>2 DEF Others, TxType
<1>7. /\ at'[t] = "settled" /\ loop'[t] = "off"
      /\ outcome'[t] = IF outcome[t] = None THEN told ELSE outcome[t]
  BY <1>1, <1>2 DEF TxType
<1>8. txSigCache'[t] = IF landed THEN TRUE ELSE txSigCache[t]
  BY <1>1, <1>2 DEF TxType
<1>9. TxOK(t)'
  <2>1. ASSUME config.throwOnTimeoutError, txSigCache'[t] = TRUE PROVE seen[t] > 0
    BY <1>2, <1>8, <2>1 DEF TxOK, Justified
  <2>2. ASSUME config.throwOnTimeoutError, outcome'[t] = "ok"
        PROVE  (Sending!Waits => seen[t] > 0) /\ Checked(t)
    BY <1>2, <1>7, <2>2 DEF TxOK, Justified
  <2> QED
    BY <1>2, <1>3, <1>7, <2>1, <2>2 DEF TxOK, Checked, Sending!Waits
<1> QED
  BY <1>1, <1>5, <1>6, <1>9, OthersKept

(* A result settles the send, or its error is read first.                   *)
LEMMA ResultKeeps ==
    ASSUME Sending!TxSenderAssumption, SenderIInv, NEW t \in Tx, NEW err \in BOOLEAN,
           at[t] \notin {"new", "blockhash", "sending", "settled"},
           Sending!Result(t, err), UNCHANGED <<config, Sending!chain>>,
           config.throwOnTimeoutError =>
               seen[t] > 0 /\ (~err \/ config.sender = "forwardOnly" => Checked(t))
    PROVE  /\ ConfirmTypes /\ \A s \in Tx : TxOK(s)'
           /\ \E stage \in Decided : at' = [at EXCEPT ![t] = stage]
           /\ \A s \in Tx : at[s] \in Decided => at'[s] \in Decided
<1>1. TxType /\ TxOK(t)
  BY DEF SenderIInv
<1>2. CASE err /\ config.sender # "forwardOnly"
  <2>1. /\ at' = [at EXCEPT ![t] = "reading"]
        /\ txSigCache' = [txSigCache EXCEPT ![t] = TRUE]
        /\ UNCHANGED <<outcome, loop, done>>
    BY <1>2 DEF Sending!Result
  <2>2. txSigCache' \in [Tx -> {None} \cup BOOLEAN]
    BY <1>1, <2>1 DEF TxType
  <2>3. ConfirmTypes
    BY <1>1, <2>1, <2>2 DEF ConfirmTypes, TxType, Sending!Stages
  <2>4. \A s \in Tx \ {t} : txSigCache'[s] = txSigCache[s]
    BY <1>1, <2>1 DEF TxType
  <2>5. Others(t)
    BY <1>1, <2>1, <2>4 DEF Others, TxType
  <2>6. at'[t] = "reading" /\ outcome'[t] = outcome[t] /\ UNCHANGED <<level, seen, failed>>
    BY <1>1, <2>1 DEF TxType, Sending!chain
  <2>7. TxOK(t)'
    BY <1>1, <2>6 DEF TxOK, Checked, Sending!Waits
  <2>8. \E stage \in Decided : at' = [at EXCEPT ![t] = stage]
    BY <2>1 DEF Decided
  <2> QED
    BY <1>1, <2>3, <2>5, <2>7, <2>8, OthersKept DEF TxType
<1>3. CASE ~(err /\ config.sender # "forwardOnly")
  <2>1. Sending!Settle(t, "ok", TRUE)
    BY <1>3 DEF Sending!Result
  <2>2. Justified(t, "ok", TRUE)
    BY <1>3 DEF Justified
  <2>3. "ok" \in Told /\ TRUE \in BOOLEAN
    BY DEF Told
  <2>4. ConfirmTypes /\ (\A s \in Tx : TxOK(s)') /\ at' = [at EXCEPT ![t] = "settled"]
    BY <2>1, <2>2, <2>3, SettleKeeps
  <2> QED
    BY <1>1, <2>4 DEF Decided, TxType
<1> QED
  BY <1>2, <1>3

LEMMA TimedOutKeeps ==
    ASSUME Sending!TxSenderAssumption, SenderIInv, NEW t \in Tx,
           at[t] \notin {"new", "blockhash", "sending", "reading", "settled"},
           Sending!TimedOut(t), UNCHANGED <<config, Sending!chain>>
    PROVE  ConfirmTypes /\ (\A s \in Tx : TxOK(s)') /\ TimeoutsCounted'
<1>1. TxType /\ TimeoutsCounted
  BY DEF SenderIInv
<1>2. {"ok", "timeout"} \subseteq Told /\ {TRUE, FALSE} \subseteq BOOLEAN
  BY DEF Told
<1>3. CASE config.throwOnTimeoutError
  <2>1. Sending!Settle(t, "timeout", FALSE)
    BY <1>3 DEF Sending!TimedOut
  <2>2. Justified(t, "timeout", FALSE)
    BY DEF Justified
  <2>3. ConfirmTypes /\ (\A s \in Tx : TxOK(s)') /\ at' = [at EXCEPT ![t] = "settled"]
    BY <1>2, <2>1, <2>2, SettleKeeps
  <2>4. at[t] \notin Decided /\ "settled" \in Decided /\ timeoutCount' = timeoutCount + 1
    BY DEF Decided, Sending!TimedOut
  <2> QED
    BY <1>1, <2>3, <2>4, CountGrows DEF TxType
<1>4. CASE ~config.throwOnTimeoutError
  <2> DEFINE err == Sending!Answered(t) /\ t \in failed
  <2>1. Sending!Result(t, err) /\ err \in BOOLEAN
    BY <1>4 DEF Sending!TimedOut, Sending!Answered
  <2> HIDE DEF err
  <2>2. ConfirmTypes /\ (\A s \in Tx : TxOK(s)') /\ \E stage \in Decided : at' = [at EXCEPT ![t] = stage]
    BY <1>4, <2>1, ResultKeeps
  <2>3. at[t] \notin Decided /\ timeoutCount' = timeoutCount + 1
    BY DEF Decided, Sending!TimedOut
  <2> QED
    BY <1>1, <2>2, <2>3, CountGrows DEF TxType
<1> QED
  BY <1>3, <1>4

(* What confirmations leave to be typed.                                    *)
LEMMA ConfirmStep ==
    ASSUME SenderIInv, UNCHANGED <<config, Sending!chain, late, resends, blockhash>>, ConfirmTypes,
           polls' \in [Tx -> 0 .. Polls], \A s \in Tx : TxOK(s)', TimeoutsCounted'
    PROVE  SenderIInv'
BY DEF SenderIInv, TxType, ConfirmTypes, Sending!chain

-----------------------------------------------------------------------------
(* The steps.                                                               *)

LEMMA ChainStep ==
    ASSUME Sending!TxSenderAssumption, SenderIInv, NEW t \in Tx, Sending!Advances(t) \/ Sending!BlockAbandoned(t)
    PROVE  SenderIInv'
<1>1. TxType /\ TimeoutsCounted /\ \A s \in Tx : TxOK(s)
  BY DEF SenderIInv
<1>2. /\ UNCHANGED <<config, failed, Sending!sending, timeoutCount, blockhash>>
      /\ UNCHANGED <<at, outcome, polls, loop, done, late, resends, txSigCache>>
  BY DEF Sending!Advances, Sending!BlockAbandoned, Sending!sending
<1>3. /\ level' \in [Tx -> Sending!Level] /\ seen' \in [Tx -> Sending!Level]
      /\ \A s \in Tx : seen'[s] >= level'[s] /\ seen'[s] >= seen[s]
  <2>1. level \in [Tx -> 0 .. 3] /\ seen \in [Tx -> 0 .. 3] /\ \A s \in Tx : seen[s] >= level[s]
    BY <1>1 DEF TxType, Sending!Level, TxOK
  <2>2. CASE Sending!Advances(t)
    <3>1. /\ level[t] < 3
          /\ level' = [level EXCEPT ![t] = level[t] + 1]
          /\ seen' = [seen EXCEPT ![t] = IF level[t] + 1 > seen[t] THEN level[t] + 1 ELSE seen[t]]
      BY <2>2 DEF Sending!Advances
    <3>2. level[t] + 1 \in 0 .. 3
      BY <2>1, <3>1
    <3> QED
      BY <2>1, <3>1, <3>2 DEF Sending!Level
  <2>3. CASE Sending!BlockAbandoned(t)
    <3>1. level' = [level EXCEPT ![t] = 0] /\ seen' = seen
      BY <2>3 DEF Sending!BlockAbandoned
    <3> QED
      BY <2>1, <3>1 DEF Sending!Level
  <2> QED
    BY <2>2, <2>3
<1>4. TxType'
  BY <1>1, <1>2, <1>3 DEF TxType
<1>5. ASSUME NEW s \in Tx PROVE TxOK(s)'
  <2>1. seen[s] \in Nat /\ seen'[s] \in Nat /\ seen'[s] >= seen[s] /\ seen'[s] >= level'[s]
    BY <1>1, <1>3, <1>4 DEF TxType, Sending!Level
  <2>2. Checked(s) => Checked(s)'
    <3>1. CASE seen'[s] = seen[s]
      BY <1>2, <3>1 DEF Checked
    <3>2. CASE seen'[s] # seen[s]
      <4>1. config.commitment \in Int
        BY DEF SenderIInv, Sending!TxSenderAssumption
      <4> QED
        BY <1>2, <2>1, <4>1 DEF Checked
    <3> QED
      BY <3>1, <3>2
  <2>3. TxOK(s)
    BY <1>1
  <2> QED
    BY <1>2, <2>1, <2>2, <2>3 DEF TxOK, Sending!Waits
<1>6. TimeoutsCounted'
  BY <1>1, <1>2, CountKept
<1> QED
  BY <1>2, <1>4, <1>5, <1>6 DEF SenderIInv

(* Preparing and the first send.                                            *)
LEMMA SendStep ==
    ASSUME Sending!TxSenderAssumption, SenderIInv, NEW t \in Tx, Sending!prepareTx(t) \/ Sending!SendReturns(t) \/ Sending!SendFails(t)
    PROVE  SenderIInv'
<1>1. TxType /\ TimeoutsCounted /\ TxOK(t)
  BY DEF SenderIInv
<1>2. /\ UNCHANGED <<config, Sending!chain, timeoutCount, polls, done, late, resends>>
      /\ UNCHANGED <<level, seen, failed>>
      /\ at[t] \in {"new", "sending"}
  BY DEF Sending!prepareTx, Sending!SendReturns, Sending!SendFails, Sending!chain
<1>3. outcome[t] = None /\ txSigCache[t] = None /\ loop[t] = "off"
  BY <1>1, <1>2 DEF TxOK
<1>4. blockhash' \in {None} \cup 1 .. retryCount
  BY DEF SenderIInv, Sending!prepareTx, Sending!SendReturns, Sending!SendFails, Sending!TxSenderAssumption
<1>5. CASE Sending!prepareTx(t)
  <2>1. at' = [at EXCEPT ![t] = "blockhash"] /\ UNCHANGED <<outcome, loop, txSigCache>>
    BY <1>5 DEF Sending!prepareTx
  <2>2. TxType'
    BY <1>1, <1>2, <2>1 DEF TxType, Sending!Stages
  <2>3. Others(t) /\ at'[t] = "blockhash" /\ \A s \in Tx : at[s] \in Decided => at'[s] \in Decided
    BY <1>1, <1>2, <2>1 DEF Others, TxType, Decided
  <2>4. TxOK(t)'
    BY <1>1, <1>2, <1>3, <2>1, <2>3 DEF TxOK, Checked, Sending!Waits, Sending!TxSenderAssumption
  <2>5. (\A s \in Tx : TxOK(s)') /\ TimeoutsCounted'
    BY <1>1, <1>2, <2>3, <2>4, OthersKept, CountKept
  <2> QED
    BY <1>2, <1>4, <2>2, <2>5 DEF SenderIInv
<1>6. CASE Sending!SendFails(t)
  <2>1. /\ at' = [at EXCEPT ![t] = "settled"] /\ outcome' = [outcome EXCEPT ![t] = "error"]
        /\ UNCHANGED <<loop, txSigCache>>
    BY <1>6 DEF Sending!SendFails
  <2>2. TxType'
    BY <1>1, <1>2, <2>1 DEF TxType, Sending!Stages
  <2>3. /\ Others(t) /\ at'[t] = "settled" /\ outcome'[t] = "error"
        /\ \A s \in Tx : at[s] \in Decided => at'[s] \in Decided
    BY <1>1, <1>2, <2>1 DEF Others, TxType, Decided
  <2>4. TxOK(t)'
    BY <1>1, <1>2, <1>3, <2>1, <2>3 DEF TxOK, Checked, Sending!Waits, Sending!TxSenderAssumption
  <2>5. (\A s \in Tx : TxOK(s)') /\ TimeoutsCounted'
    BY <1>1, <1>2, <2>3, <2>4, OthersKept, CountKept
  <2> QED
    BY <1>2, <1>4, <2>2, <2>5 DEF SenderIInv
<1>7. CASE Sending!SendReturns(t)
  <2>1. /\ txSigCache' = [txSigCache EXCEPT ![t] = FALSE]
        /\ loop' = [loop EXCEPT ![t] = IF Sending!Resends THEN "sleeping" ELSE "off"]
    BY <1>7 DEF Sending!SendReturns
  <2>2. PICK stage \in {"settled", "background", "confirming"} :
          /\ at' = [at EXCEPT ![t] = stage]
          /\ stage = "settled" => ~Sending!Waits /\ config.sender = "fastSingle"
                                  /\ outcome' = [outcome EXCEPT ![t] = "ok"]
          /\ stage = "background" => ~Sending!Waits /\ config.sender = "fastSingle"
                                     /\ outcome' = [outcome EXCEPT ![t] = "ok"]
          /\ stage = "confirming" => UNCHANGED outcome
    <3>1. CASE config.sender = "fastSingle" /\ config.skipConfirmation
      BY <1>7, <3>1 DEF Sending!SendReturns, Sending!Waits
    <3>2. CASE ~(config.sender = "fastSingle" /\ config.skipConfirmation)
      <4>1. CASE config.sender = "fastSingle" /\ config.confirmInBackground
        BY <1>7, <3>2, <4>1 DEF Sending!SendReturns, Sending!Waits
      <4>2. CASE ~(config.sender = "fastSingle" /\ config.confirmInBackground)
        BY <1>7, <3>2, <4>2 DEF Sending!SendReturns
      <4> QED
        BY <4>1, <4>2
    <3> QED
      BY <3>1, <3>2
  <2>3. txSigCache' \in [Tx -> {None} \cup BOOLEAN] /\ txSigCache'[t] = FALSE
    BY <1>1, <2>1 DEF TxType
  <2>4. \A s \in Tx \ {t} : txSigCache'[s] = txSigCache[s]
    BY <1>1, <2>1 DEF TxType
  <2>6. /\ at' \in [Tx -> Sending!Stages] /\ outcome' \in [Tx -> {None, "ok", "timeout", "error"}]
        /\ loop' \in [Tx -> {"off", "sleeping"}]
    BY <1>1, <2>1, <2>2 DEF TxType, Sending!Stages
  <2>7. TxType'
    BY <1>1, <1>2, <2>3, <2>6 DEF TxType
  <2>8. Others(t)
    BY <1>1, <2>1, <2>2, <2>4 DEF Others, TxType
  <2>9. at'[t] = stage /\ outcome'[t] = (IF stage = "confirming" THEN None ELSE "ok")
    BY <1>1, <1>3, <2>2 DEF TxType
  <2>10. stage = "settled" => loop'[t] = "off"
    BY <1>1, <1>3, <2>1, <2>2 DEF TxType, Sending!Resends
  <2>11. TxOK(t)'
    <3>1. seen'[t] >= level'[t]
      BY <1>1, <1>2 DEF TxOK
    <3>2. outcome'[t] = "ok" => (~Sending!Waits)' /\ Checked(t)'
      BY <1>2, <2>2, <2>9 DEF Sending!TxSenderAssumption, Sending!Waits, Checked
    <3> QED
      BY <2>3, <2>9, <2>10, <3>1, <3>2 DEF TxOK
  <2>12. \A s \in Tx : at[s] \in Decided => at'[s] \in Decided
    BY <1>1, <1>2, <2>2 DEF TxType, Decided
  <2>13. (\A s \in Tx : TxOK(s)') /\ TimeoutsCounted'
    BY <1>1, <1>2, <2>8, <2>11, <2>12, OthersKept, CountKept
  <2> QED
    BY <1>2, <1>4, <2>7, <2>13 DEF SenderIInv
<1> QED
  BY <1>5, <1>6, <1>7

LEMMA BlockhashStep ==
    ASSUME Sending!TxSenderAssumption, SenderIInv, Sending!BlockhashReturns \/ Sending!BlockhashFails
    PROVE  SenderIInv'
<1>1. TxType /\ TimeoutsCounted /\ (\A s \in Tx : TxOK(s)) /\ blockhash \in {None} \cup 1 .. retryCount
  BY DEF SenderIInv
<1>2. /\ UNCHANGED <<config, Sending!chain, polls, loop, done, late, resends, txSigCache, timeoutCount>>
      /\ UNCHANGED <<level, seen, failed>>
  BY DEF Sending!BlockhashReturns, Sending!BlockhashFails, Sending!chain
<1>3. blockhash' \in {None} \cup 1 .. retryCount
  <2>1. blockhash # None /\ blockhash \in 1 .. retryCount /\ blockhash' \in {None, blockhash - 1}
        /\ (blockhash' = None \/ blockhash > 1)
    BY <1>1 DEF Sending!BlockhashReturns, Sending!BlockhashFails
  <2> QED
    BY <2>1 DEF Sending!TxSenderAssumption
<1>4. \A s \in Tx : \/ at'[s] = at[s] /\ outcome'[s] = outcome[s]
                    \/ at[s] = "blockhash" /\ at'[s] = "sending" /\ outcome'[s] = outcome[s]
                    \/ at[s] = "blockhash" /\ at'[s] = "settled" /\ outcome'[s] = "error"
  BY DEF Sending!BlockhashReturns, Sending!BlockhashFails, Sending!Waiting
<1>5. at' \in [Tx -> Sending!Stages] /\ outcome' \in [Tx -> {None, "ok", "timeout", "error"}]
  <2>1. at \in [Tx -> Sending!Stages] /\ outcome \in [Tx -> {None, "ok", "timeout", "error"}]
    BY <1>1 DEF TxType
  <2>2. CASE UNCHANGED <<at, outcome>>
    BY <2>1, <2>2
  <2>3. CASE ~UNCHANGED <<at, outcome>>
    <3>1. \/ at' = [s \in Tx |-> IF s \in Sending!Waiting THEN "sending" ELSE at[s]] /\ UNCHANGED outcome
          \/ /\ at' = [s \in Tx |-> IF s \in Sending!Waiting THEN "settled" ELSE at[s]]
             /\ outcome' = [s \in Tx |-> IF s \in Sending!Waiting THEN "error" ELSE outcome[s]]
      BY <2>3 DEF Sending!BlockhashReturns, Sending!BlockhashFails
    <3> QED
      BY <2>1, <3>1 DEF Sending!Stages
  <2> QED
    BY <2>2, <2>3
<1>6. TxType'
  BY <1>1, <1>2, <1>5 DEF TxType
<1>7. ASSUME NEW s \in Tx PROVE TxOK(s)'
  <2>1. TxOK(s)
    BY <1>1
  <2>2. CASE at'[s] = at[s] /\ outcome'[s] = outcome[s]
    BY <1>2, <2>1, <2>2 DEF TxOK, Checked, Sending!Waits
  <2>3. CASE at[s] = "blockhash" /\ at'[s] = "sending" /\ outcome'[s] = outcome[s]
    BY <1>2, <2>1, <2>3 DEF TxOK, Checked, Sending!Waits
  <2>4. CASE at[s] = "blockhash" /\ at'[s] = "settled" /\ outcome'[s] = "error"
    BY <1>2, <2>1, <2>4 DEF TxOK, Checked, Sending!Waits, Sending!TxSenderAssumption
  <2> QED
    BY <1>4, <2>2, <2>3, <2>4
<1>8. TimeoutsCounted'
  BY <1>1, <1>2, <1>4, CountKept DEF Decided
<1> QED
  BY <1>2, <1>3, <1>6, <1>7, <1>8 DEF SenderIInv

(* The resend loop: a turn of it, and the end of its time.                  *)
LEMMA LoopStep ==
    ASSUME Sending!TxSenderAssumption, SenderIInv, NEW t \in Tx, Sending!Resend(t) \/ Sending!TimeIsOver(t)
    PROVE  SenderIInv'
<1>1. TxType /\ TimeoutsCounted /\ TxOK(t)
  BY DEF SenderIInv
<1>2. /\ UNCHANGED <<config, Sending!chain, at, outcome, polls, txSigCache, timeoutCount, blockhash>>
      /\ UNCHANGED <<level, seen, failed>>
      /\ loop[t] = "sleeping"
  BY DEF Sending!Resend, Sending!TimeIsOver, Sending!chain
<1>3. loop' \in {loop, [loop EXCEPT ![t] = "off"]} /\ done' \in {done, done \cup {t}}
      /\ late' \in {late, late \cup {t}}
  BY DEF Sending!Resend, Sending!TimeIsOver
<1>4. resends' \in [Tx -> 0 .. MaxResends]
  <2>1. MaxResends \in Nat /\ resends \in [Tx -> 0 .. MaxResends]
    BY <1>1 DEF Sending!TxSenderAssumption, TxType
  <2>2. CASE Sending!Resend(t)
    <3>1. resends' = [resends EXCEPT ![t] = resends[t] + 1] /\ resends[t] < MaxResends
      BY <2>2 DEF Sending!Resend
    <3>2. resends[t] + 1 \in 0 .. MaxResends
      BY <2>1, <3>1
    <3> QED
      BY <2>1, <3>1, <3>2
  <2>3. CASE Sending!TimeIsOver(t)
    BY <2>1, <2>3 DEF Sending!TimeIsOver
  <2> QED
    BY <2>2, <2>3
<1>5. TxType'
  BY <1>1, <1>2, <1>3, <1>4 DEF TxType
<1>6. Others(t) /\ loop'[t] \in {"off", "sleeping"}
  BY <1>1, <1>2, <1>3 DEF Others, TxType
<1>7. TxOK(t)'
  BY <1>1, <1>2, <1>6 DEF TxOK, Checked, Sending!Waits
<1>8. (\A s \in Tx : TxOK(s)') /\ TimeoutsCounted'
  BY <1>1, <1>2, <1>6, <1>7, OthersKept, CountKept
<1> QED
  BY <1>2, <1>5, <1>8 DEF SenderIInv

(* Confirmations.  A status or a notification is of the chain, where a      *)
(* transaction that is in a block has been seen there.                      *)
LEMMA LandedWhenSeen ==
    ASSUME Sending!TxSenderAssumption, SenderIInv, NEW t \in Tx
    PROVE  /\ level[t] \in Nat /\ seen[t] \in Nat /\ seen[t] >= level[t]
           /\ config.commitment \in Nat /\ config.commitment >= 1
BY DEF Sending!TxSenderAssumption, SenderIInv, TxType, Sending!Level, TxOK

LEMMA ErrorReadStep ==
    ASSUME Sending!TxSenderAssumption, SenderIInv, NEW t \in Tx, Sending!ErrorRead(t)
    PROVE  SenderIInv'
<1>1. TxType /\ TimeoutsCounted /\ TxOK(t)
  BY DEF SenderIInv
<1>2. /\ UNCHANGED <<config, Sending!chain, late, resends, blockhash, polls, timeoutCount>>
      /\ at[t] = "reading"
  BY DEF Sending!ErrorRead
<1>3. PICK told \in {"ok", "error"} :
        /\ Sending!Settle(t, told, TRUE)
        /\ told = "ok" => ~(config.sender = "whileValid" /\ config.throwOnTransactionError)
  BY DEF Sending!ErrorRead
<1>4. told \in Told /\ TRUE \in BOOLEAN
  BY DEF Told
<1>5. Justified(t, told, TRUE)
  BY <1>1, <1>2, <1>3 DEF TxOK, Justified, Checked
<1>6. ConfirmTypes /\ (\A s \in Tx : TxOK(s)') /\ at' = [at EXCEPT ![t] = "settled"]
  BY <1>2, <1>3, <1>4, <1>5, SettleKeeps
<1>7. TimeoutsCounted'
  BY <1>1, <1>2, <1>6, CountKept DEF TxType, Decided
<1> QED
  BY <1>1, <1>2, <1>6, <1>7, ConfirmStep DEF TxType

LEMMA NotifiedStep ==
    ASSUME Sending!TxSenderAssumption, SenderIInv, NEW t \in Tx, Sending!Notified(t)
    PROVE  SenderIInv'
<1>1. TxType /\ TimeoutsCounted
  BY DEF SenderIInv
<1>2. /\ UNCHANGED <<config, Sending!chain, late, resends, blockhash, polls, timeoutCount>>
      /\ at[t] \in {"confirming", "background"} /\ level[t] >= config.commitment
      /\ Sending!Result(t, t \in failed)
  BY DEF Sending!Notified, Sending!Confirming
<1> DEFINE err == t \in failed
<1>3. err \in BOOLEAN /\ Sending!Result(t, err)
  BY <1>2
<1>4. seen[t] > 0 /\ (~err \/ config.sender = "forwardOnly" => Checked(t))
  BY <1>2, LandedWhenSeen DEF Checked
<1> HIDE DEF err
<1>5. ConfirmTypes /\ (\A s \in Tx : TxOK(s)') /\ \A s \in Tx : at[s] \in Decided => at'[s] \in Decided
  BY <1>2, <1>3, <1>4, ResultKeeps
<1> QED
  BY <1>1, <1>2, <1>5, CountKept, ConfirmStep DEF TxType

LEMMA PromiseTimeoutStep ==
    ASSUME Sending!TxSenderAssumption, SenderIInv, NEW t \in Tx, Sending!promiseTimeout(t)
    PROVE  SenderIInv'
<1>1. TxType /\ TimeoutsCounted /\ TxOK(t)
  BY DEF SenderIInv
<1>2. /\ UNCHANGED <<config, Sending!chain, late, resends, blockhash, polls>>
      /\ UNCHANGED <<level, seen, failed>>
      /\ at[t] \in {"confirming", "background"}
  BY DEF Sending!promiseTimeout, Sending!Confirming, Sending!chain
<1>3. CASE config.strategy = "Combo"
  <2>1. /\ at' = [at EXCEPT ![t] = "checking"]
        /\ UNCHANGED <<outcome, txSigCache, timeoutCount, loop, done>>
    BY <1>3 DEF Sending!promiseTimeout
  <2>2. ConfirmTypes
    BY <1>1, <2>1 DEF ConfirmTypes, TxType, Sending!Stages
  <2>3. Others(t) /\ at'[t] = "checking" /\ \A s \in Tx : at[s] \in Decided => at'[s] \in Decided
    BY <1>1, <1>2, <2>1 DEF Others, TxType, Decided
  <2>4. TxOK(t)'
    BY <1>1, <1>2, <1>3, <2>1, <2>3 DEF TxOK, Checked, Sending!Waits
  <2>5. (\A s \in Tx : TxOK(s)') /\ TimeoutsCounted'
    BY <1>1, <1>2, <2>1, <2>3, <2>4, OthersKept, CountKept
  <2> QED
    BY <1>1, <1>2, <2>2, <2>5, ConfirmStep DEF TxType
<1>4. CASE config.strategy # "Combo"
  <2>1. Sending!TimedOut(t)
    BY <1>4 DEF Sending!promiseTimeout
  <2> QED
    BY <1>1, <1>2, <2>1, TimedOutKeeps, ConfirmStep DEF TxType
<1> QED
  BY <1>3, <1>4

LEMMA StatusReturnsStep ==
    ASSUME Sending!TxSenderAssumption, SenderIInv, NEW t \in Tx, Sending!StatusReturns(t)
    PROVE  SenderIInv'
<1>1. TxType /\ TimeoutsCounted /\ TxOK(t)
  BY DEF SenderIInv
<1>2. UNCHANGED <<config, Sending!chain, late, resends, blockhash, polls>> /\ at[t] = "checking"
  BY DEF Sending!StatusReturns
<1>3. CASE Sending!TimedOut(t)
  BY <1>1, <1>2, <1>3, TimedOutKeeps, ConfirmStep DEF TxType
<1>4. CASE /\ Sending!HasStatus(t)
           /\ Sending!Result(t, level[t] > 0 /\ t \in failed)
           /\ UNCHANGED <<timeoutCount, failures>>
  <2> DEFINE err == level[t] > 0 /\ t \in failed
  <2>1. err \in BOOLEAN /\ Sending!Result(t, err)
    BY <1>4
  <2> HIDE DEF err
  <2>2. seen[t] > 0
    BY <1>4, LandedWhenSeen DEF Sending!HasStatus
  <2>3. Checked(t)
    BY <1>1, <1>2 DEF TxOK, Checked
  <2>4. ConfirmTypes /\ (\A s \in Tx : TxOK(s)') /\ \A s \in Tx : at[s] \in Decided => at'[s] \in Decided
    BY <1>2, <2>1, <2>2, <2>3, ResultKeeps
  <2> QED
    BY <1>1, <1>2, <1>4, <2>4, CountKept, ConfirmStep DEF TxType
<1> QED
  BY <1>3, <1>4 DEF Sending!StatusReturns

LEMMA PollStep ==
    ASSUME Sending!TxSenderAssumption, SenderIInv, NEW t \in Tx, Sending!Poll(t)
    PROVE  SenderIInv'
<1>1. TxType /\ TimeoutsCounted /\ \A s \in Tx : TxOK(s)
  BY DEF SenderIInv
<1>2. /\ UNCHANGED <<config, Sending!chain, late, resends, blockhash, timeoutCount>>
      /\ UNCHANGED <<level, seen, failed>>
      /\ at[t] \in {"confirming", "background"} /\ config.strategy = "Polling"
      /\ polls[t] < Polls /\ polls' = [polls EXCEPT ![t] = polls[t] + 1]
  BY DEF Sending!Poll, Sending!Confirming, Sending!chain
<1>3. polls' \in [Tx -> 0 .. Polls]
  <2>1. polls \in [Tx -> 0 .. Polls] /\ Polls \in Nat
    BY <1>1 DEF TxType, Sending!TxSenderAssumption
  <2>2. polls[t] + 1 \in 0 .. Polls
    BY <1>2, <2>1
  <2> QED
    BY <1>2, <2>1, <2>2
<1>4. Checked(t)
  BY <1>2 DEF Checked
<1>5. CASE level[t] = config.commitment /\ Sending!Result(t, FALSE)
  <2>1. FALSE \in BOOLEAN /\ seen[t] > 0
    BY <1>5, LandedWhenSeen
  <2>2. ConfirmTypes /\ (\A s \in Tx : TxOK(s)') /\ \A s \in Tx : at[s] \in Decided => at'[s] \in Decided
    BY <1>2, <1>4, <1>5, <2>1, ResultKeeps
  <2> QED
    BY <1>1, <1>2, <1>3, <2>2, CountKept, ConfirmStep
<1>6. CASE Sending!Settle(t, "error", FALSE)
  <2>1. "error" \in Told /\ FALSE \in BOOLEAN /\ Justified(t, "error", FALSE)
    BY DEF Told, Justified
  <2>2. ConfirmTypes /\ (\A s \in Tx : TxOK(s)') /\ at' = [at EXCEPT ![t] = "settled"]
    BY <1>2, <1>6, <2>1, SettleKeeps
  <2>3. TimeoutsCounted'
    BY <1>1, <1>2, <2>2, CountKept DEF TxType, Decided
  <2> QED
    BY <1>2, <1>3, <2>2, <2>3, ConfirmStep
<1>7. CASE UNCHANGED <<at, outcome, txSigCache, loop, done>>
  <2>1. ConfirmTypes
    BY <1>1, <1>7 DEF ConfirmTypes, TxType
  <2>2. ASSUME NEW s \in Tx PROVE TxOK(s)'
    BY <1>1, <1>2, <1>7 DEF TxOK, Checked, Sending!Waits
  <2>3. TimeoutsCounted'
    BY <1>1, <1>2, <1>7, CountKept
  <2> QED
    BY <1>2, <1>3, <2>1, <2>2, <2>3, ConfirmStep
<1> QED
  BY <1>5, <1>6, <1>7 DEF Sending!Poll

LEMMA PollingEndsStep ==
    ASSUME Sending!TxSenderAssumption, SenderIInv, NEW t \in Tx, Sending!PollingEnds(t)
    PROVE  SenderIInv'
<1>1. TxType
  BY DEF SenderIInv
<1>2. /\ UNCHANGED <<config, Sending!chain, late, resends, blockhash, polls>>
      /\ at[t] \in {"confirming", "background"} /\ Sending!TimedOut(t)
  BY DEF Sending!PollingEnds, Sending!Confirming
<1> QED
  BY <1>1, <1>2, TimedOutKeeps, ConfirmStep DEF TxType

LEMMA SenderIInvStep ==
    ASSUME Sending!TxSenderAssumption, SenderIInv, [Sending!Next]_Sending!vars
    PROVE  SenderIInv'
<1>1. ASSUME UNCHANGED Sending!vars \/ \E t \in Tx : Sending!NotifiedLate(t) PROVE SenderIInv'
  <2>1. UNCHANGED <<config, level, failed, seen, at, outcome, polls, loop, done, late, resends,
                    txSigCache, timeoutCount, blockhash>>
    BY <1>1 DEF Sending!vars, Sending!NotifiedLate, Sending!chain, Sending!sending
  <2>2. TxType' /\ \A t \in Tx : TxOK(t)'
    BY <2>1 DEF SenderIInv, TxType, TxOK, Checked, Sending!Waits
  <2> QED
    BY <2>1, <2>2 DEF SenderIInv, TimeoutsCounted, Undecided
<1>2. CASE Sending!BlockhashReturns \/ Sending!BlockhashFails
  BY <1>2, BlockhashStep
<1>3. ASSUME NEW t \in Tx, Sending!Confirms(t) PROVE SenderIInv'
  BY <1>3, NotifiedStep, PromiseTimeoutStep, StatusReturnsStep, PollStep, PollingEndsStep, ErrorReadStep
     DEF Sending!Confirms
<1> QED
  BY <1>1, <1>2, <1>3, ChainStep, SendStep, LoopStep DEF Sending!Next

(* The listeners, apart from the rest: nobody has one before he sends or    *)
(* when he polls, and what is left after the promise has settled has the    *)
(* id 0.                                                                    *)
Early == {"new", "blockhash", "sending"}
Listens(t) ==
    /\ at[t] \in Early \/ config.strategy = "Polling" => listeners[t] = {}
    /\ at[t] \in {"checking", "reading", "settled"} => \A c \in listeners[t] : first[c] = t
ListenInv ==
    /\ config \in Configs
    /\ at \in [Tx -> Sending!Stages]
    /\ listeners \in [Tx -> SUBSET Connections]
    /\ first \in [Connections -> Tx \cup {None, "other"}]
    /\ \A t \in Tx : Listens(t)

(* Steps that neither listen nor remove a listener.                         *)
LEMMA ListenersStay ==
    ASSUME ListenInv, UNCHANGED <<config, listeners, first>>, at' \in [Tx -> Sending!Stages],
           \A s \in Tx : \/ at'[s] = at[s]
                         \/ at[s] \in Early /\ at'[s] \in Early \cup {"settled"}
                         \/ at[s] \in {"checking", "reading"} /\ at'[s] \in {"reading", "settled"}
                         \/ config.strategy = "Polling"
    PROVE  ListenInv'
<1>1. ASSUME NEW s \in Tx PROVE Listens(s)'
  <2>1. Listens(s)
    BY DEF ListenInv
  <2> QED
    BY <2>1 DEF Listens, Early
<1> QED
  BY <1>1 DEF ListenInv

(* Steps that remove some, and leave the first of a connection at most.     *)
LEMMA ListenersGo ==
    ASSUME ListenInv, UNCHANGED <<config, first>>, NEW t \in Tx, NEW left \in SUBSET listeners[t],
           listeners' = [listeners EXCEPT ![t] = left], at' \in [Tx -> Sending!Stages],
           \A s \in Tx \ {t} : at'[s] = at[s],
           \/ at'[t] = at[t]
           \/ at'[t] \notin Early /\ \A c \in left : first[c] = t
    PROVE  ListenInv'
<1>1. listeners \in [Tx -> SUBSET Connections] /\ left \in SUBSET Connections
  BY DEF ListenInv
<1>2. listeners' \in [Tx -> SUBSET Connections] /\ listeners'[t] = left
      /\ \A s \in Tx \ {t} : listeners'[s] = listeners[s]
  BY <1>1
<1>3. ASSUME NEW s \in Tx PROVE Listens(s)'
  <2>1. Listens(s) /\ Listens(t)
    BY DEF ListenInv
  <2>2. CASE s = t
    BY <1>2, <2>1, <2>2 DEF Listens, Early
  <2>3. CASE s # t
    BY <1>2, <2>1, <2>3 DEF Listens, Early
  <2> QED
    BY <2>2, <2>3
<1> QED
  BY <1>2, <1>3 DEF ListenInv

LEMMA SendReturnsListens ==
    ASSUME Sending!TxSenderAssumption, ListenInv, NEW t \in Tx, Sending!SendReturns(t)
    PROVE  ListenInv'
<1>1. UNCHANGED config /\ at[t] = "sending"
  BY DEF Sending!SendReturns
<1>2. PICK stage \in {"settled", "background", "confirming"} :
        /\ at' = [at EXCEPT ![t] = stage]
        /\ stage = "settled" => UNCHANGED <<listeners, first>>
        /\ stage # "settled" => Sending!Listen(t)
  BY DEF Sending!SendReturns
<1>3. at' \in [Tx -> Sending!Stages] /\ at'[t] = stage /\ \A s \in Tx \ {t} : at'[s] = at[s]
  BY <1>2 DEF ListenInv, Sending!Stages
<1>4. CASE UNCHANGED <<listeners, first>>
  <2>1. ASSUME NEW s \in Tx PROVE Listens(s)'
    <3>1. Listens(s) /\ Listens(t)
      BY DEF ListenInv
    <3> QED
      BY <1>1, <1>3, <1>4, <3>1 DEF Listens, Early
  <2> QED
    BY <1>1, <1>3, <1>4, <2>1 DEF ListenInv
<1>5. CASE ~UNCHANGED <<listeners, first>>
  <2>1. /\ Sending!ByWebSocket /\ stage # "settled"
        /\ listeners' = [listeners EXCEPT ![t] = Connections]
        /\ first' = [c \in Connections |-> IF first[c] = None THEN t ELSE first[c]]
    BY <1>2, <1>5 DEF Sending!Listen
  <2>2. listeners' \in [Tx -> SUBSET Connections] /\ \A s \in Tx \ {t} : listeners'[s] = listeners[s]
    BY <2>1 DEF ListenInv
  <2>3. first' \in [Connections -> Tx \cup {None, "other"}]
        /\ \A s \in Tx, c \in Connections : first[c] = s => first'[c] = s
    BY <2>1 DEF ListenInv, Sending!TxSenderAssumption
  <2>4. ASSUME NEW s \in Tx \ {t} PROVE Listens(s)'
    <3>1. Listens(s) /\ listeners[s] \in SUBSET Connections
      BY DEF ListenInv
    <3> QED
      BY <1>1, <1>3, <2>2, <2>3, <3>1 DEF Listens
  <2>5. Listens(t)'
    BY <1>1, <1>3, <2>1 DEF Listens, Early, Sending!ByWebSocket
  <2> QED
    BY <1>1, <1>3, <2>2, <2>3, <2>4, <2>5 DEF ListenInv
<1> QED
  BY <1>4, <1>5

(* What a confirmation does to where its send is.                           *)
LEMMA ConfirmedAt ==
    ASSUME ListenInv, NEW t \in Tx, NEW told, NEW landed, NEW err,
           Sending!Settle(t, told, landed) \/ Sending!Result(t, err) \/ Sending!TimedOut(t)
    PROVE  /\ at' \in [Tx -> Sending!Stages] /\ at'[t] \in {"reading", "settled"}
           /\ \A s \in Tx \ {t} : at'[s] = at[s]
<1>1. \E stage \in {"reading", "settled"} : at' = [at EXCEPT ![t] = stage]
  BY DEF Sending!Settle, Sending!Result, Sending!TimedOut
<1> QED
  BY <1>1 DEF ListenInv, Sending!Stages

LEMMA ConfirmsListens ==
    ASSUME ListenInv, NEW t \in Tx, Sending!Confirms(t) \/ Sending!NotifiedLate(t)
    PROVE  ListenInv'
<1> USE DEF Sending!chain
<1>1. CASE Sending!Notified(t)
  <2>1. PICK c \in listeners[t] : Sending!Removed(t, {c})
    BY <1>1 DEF Sending!Notified
  <2>2. Sending!Result(t, t \in failed) /\ UNCHANGED <<config, first>>
    BY <1>1 DEF Sending!Notified
  <2>3. listeners' = [listeners EXCEPT ![t] = {d \in listeners[t] \ {c} : first[d] = t}]
    BY <2>1 DEF Sending!Removed
  <2> QED
    BY <2>2, <2>3, ConfirmedAt, ListenersGo DEF Early
<1>2. CASE Sending!promiseTimeout(t)
  <2>1. listeners' = [listeners EXCEPT ![t] = {d \in listeners[t] \ {} : first[d] = t}]
    BY <1>2 DEF Sending!promiseTimeout, Sending!Removed
  <2>2. UNCHANGED <<config, first>> /\ (at' = [at EXCEPT ![t] = "checking"] \/ Sending!TimedOut(t))
    BY <1>2 DEF Sending!promiseTimeout
  <2>3. /\ at' \in [Tx -> Sending!Stages] /\ at'[t] \in {"checking", "reading", "settled"}
        /\ \A s \in Tx \ {t} : at'[s] = at[s]
    BY <2>2, ConfirmedAt DEF ListenInv, Sending!Stages
  <2> QED
    BY <2>1, <2>2, <2>3, ListenersGo DEF Early
<1>3. CASE Sending!NotifiedLate(t)
  <2>1. PICK c \in listeners[t] : listeners' = [listeners EXCEPT ![t] = listeners[t] \ {c}]
    BY <1>3 DEF Sending!NotifiedLate
  <2>2. UNCHANGED <<config, first, at>>
    BY <1>3 DEF Sending!NotifiedLate
  <2> QED
    BY <2>1, <2>2, ListenersGo DEF ListenInv
<1>4. CASE Sending!StatusReturns(t) \/ Sending!ErrorRead(t)
  <2>1. UNCHANGED <<config, listeners, first>> /\ at[t] \in {"checking", "reading"}
    BY <1>4 DEF Sending!StatusReturns, Sending!ErrorRead
  <2>2. \/ \E told \in Told : Sending!Settle(t, told, TRUE)
        \/ Sending!Result(t, level[t] > 0 /\ t \in failed) \/ Sending!TimedOut(t)
    BY <1>4 DEF Sending!StatusReturns, Sending!ErrorRead, Told
  <2> QED
    BY <2>1, <2>2, ConfirmedAt, ListenersStay
<1>5. CASE Sending!Poll(t) \/ Sending!PollingEnds(t)
  <2>1. UNCHANGED <<config, listeners, first>> /\ config.strategy = "Polling"
    BY <1>5 DEF Sending!Poll, Sending!PollingEnds
  <2>2. \/ Sending!Result(t, FALSE) \/ Sending!TimedOut(t) \/ Sending!Settle(t, "error", FALSE)
        \/ UNCHANGED at
    BY <1>5 DEF Sending!Poll, Sending!PollingEnds
  <2>3. at' \in [Tx -> Sending!Stages]
    BY <2>2, ConfirmedAt DEF ListenInv
  <2> QED
    BY <2>1, <2>3, ListenersStay
<1> QED
  BY <1>1, <1>2, <1>3, <1>4, <1>5 DEF Sending!Confirms

LEMMA ListenStep ==
    ASSUME Sending!TxSenderAssumption, ListenInv, [Sending!Next]_Sending!vars
    PROVE  ListenInv'
<1> USE DEF Sending!chain, Sending!sending
<1>1. CASE UNCHANGED Sending!vars
  <2>1. UNCHANGED <<config, at, listeners, first>>
    BY <1>1 DEF Sending!vars
  <2> QED
    BY <2>1, ListenersStay DEF ListenInv
<1>2. CASE Sending!BlockhashReturns \/ Sending!BlockhashFails
  <2>1. UNCHANGED <<config, listeners, first>>
    BY <1>2 DEF Sending!BlockhashReturns, Sending!BlockhashFails
  <2>2. \/ UNCHANGED at
        \/ \E stage \in {"sending", "settled"} :
              at' = [s \in Tx |-> IF s \in Sending!Waiting THEN stage ELSE at[s]]
    BY <1>2 DEF Sending!BlockhashReturns, Sending!BlockhashFails
  <2>3. at \in [Tx -> Sending!Stages]
    BY DEF ListenInv
  <2>4. at' \in [Tx -> Sending!Stages]
    BY <2>2, <2>3 DEF Sending!Stages
  <2>5. \A s \in Tx : at'[s] = at[s] \/ (at[s] \in Early /\ at'[s] \in Early \cup {"settled"})
    BY <2>2, <2>3 DEF Early, Sending!Waiting
  <2> QED
    BY <2>1, <2>4, <2>5, ListenersStay
<1>3. ASSUME NEW t \in Tx, Sending!prepareTx(t) \/ Sending!SendFails(t) PROVE ListenInv'
  <2>1. UNCHANGED <<config, listeners, first>> /\ at[t] \in Early
    BY <1>3 DEF Sending!prepareTx, Sending!SendFails, Early
  <2>2. \E stage \in {"blockhash", "settled"} : at' = [at EXCEPT ![t] = stage]
    BY <1>3 DEF Sending!prepareTx, Sending!SendFails
  <2>3. at' \in [Tx -> Sending!Stages]
    BY <2>2 DEF ListenInv, Sending!Stages
  <2>4. \A s \in Tx : at'[s] = at[s] \/ (at[s] \in Early /\ at'[s] \in Early \cup {"settled"})
    BY <2>1, <2>2 DEF ListenInv, Early
  <2> QED
    BY <2>1, <2>3, <2>4, ListenersStay
<1>4. ASSUME NEW t \in Tx,
             Sending!Advances(t) \/ Sending!BlockAbandoned(t) \/ Sending!Resend(t) \/ Sending!TimeIsOver(t)
      PROVE  ListenInv'
  <2>1. UNCHANGED <<config, at, listeners, first>>
    BY <1>4 DEF Sending!Advances, Sending!BlockAbandoned, Sending!Resend, Sending!TimeIsOver
  <2> QED
    BY <2>1, ListenersStay DEF ListenInv
<1> QED
  BY <1>1, <1>2, <1>3, <1>4, SendReturnsListens, ConfirmsListens DEF Sending!Next

LEMMA ListenInit == Sending!Init => ListenInv
<1> SUFFICES ASSUME Sending!Init PROVE ListenInv
  OBVIOUS
<1>1. \A t \in Tx : at[t] = "new" /\ listeners[t] = {}
  BY DEF Sending!Init
<1> QED
  BY <1>1 DEF Sending!Init, ListenInv, Listens, Early, Sending!Stages

LEMMA SenderInitIInv ==
    ASSUME Sending!TxSenderAssumption, Sending!Init
    PROVE  SenderIInv
<1>1. TxType
  BY DEF Sending!Init, TxType, Sending!Level, Sending!Stages, Sending!TxSenderAssumption
<1>2. ASSUME NEW t \in Tx PROVE TxOK(t)
  <2>1. None # TRUE /\ None # "ok"
    BY DEF Sending!TxSenderAssumption
  <2>2. txSigCache[t] = None /\ outcome[t] = None /\ at[t] = "new" /\ loop[t] = "off"
        /\ seen[t] >= level[t]
    BY DEF Sending!Init
  <2>3. txSigCache[t] # TRUE /\ outcome[t] # "ok"
    BY <2>1, <2>2
  <2> QED
    BY <2>2, <2>3 DEF TxOK
<1>3. TimeoutsCounted
  BY UndecidedFinite DEF Sending!Init, TimeoutsCounted
<1> QED
  BY <1>1, <1>2, <1>3 DEF Sending!Init, SenderIInv

LEMMA SenderIInvMeans ==
    ASSUME Sending!TxSenderAssumption, SenderIInv, ListenInv
    PROVE  Sending!TypeOK /\ Sending!SuccessMeansLanded /\ Sending!NothingLeft
<1>1. timeoutCount \in 0 .. Cardinality(Tx)
  BY UndecidedFinite DEF SenderIInv, TimeoutsCounted
<1>2. Sending!TypeOK
  <2>1. Sending!Cardinality(Tx) = Cardinality(Tx)
    BY DEF Sending!Cardinality, Cardinality
  <2> QED
    BY <1>1, <2>1 DEF SenderIInv, ListenInv, TxType, Sending!TypeOK
<1>3. Sending!SuccessMeansLanded
  <2> SUFFICES ASSUME config.throwOnTimeoutError, NEW t \in Tx
               PROVE  /\ outcome[t] = "ok" /\ Sending!Waits => seen[t] > 0
                      /\ txSigCache[t] = TRUE => seen[t] > 0
                      /\ outcome[t] = "ok" /\ config.sender = "whileValid" /\ config.throwOnTransactionError
                             /\ config.strategy = "WebSocket"
                         => t \notin failed /\ seen[t] >= config.commitment
    BY DEF Sending!SuccessMeansLanded
  <2>1. TxOK(t)
    BY DEF SenderIInv
  <2>2. outcome[t] = "ok" => Checked(t)
    BY <2>1 DEF TxOK
  <2> QED
    BY <2>1, <2>2 DEF TxOK, Checked
<1>4. Sending!NothingLeft
  BY DEF SenderIInv, ListenInv, Listens, TxOK, Sending!NothingLeft
<1> QED
  BY <1>2, <1>3, <1>4

-----------------------------------------------------------------------------
(* baseTxSender.ts and its senders: when time-outs throw, whoever waits for *)
(* the confirmation and is told of success has a transaction that was in a  *)
(* block, and so has every signature that counts as landed; with a          *)
(* whileValid sender and notifications it has no error and the commitment   *)
(* that was asked for.                                                      *)
THEOREM SuccessIsNoMistake ==
    ASSUME Sending!TxSenderAssumption
    PROVE  Sending!Spec => []SuccessMeansLanded
<1>1. Sending!Init => SenderIInv /\ ListenInv
  BY SenderInitIInv, ListenInit
<1>2. SenderIInv /\ ListenInv /\ [Sending!Next]_Sending!vars => SenderIInv' /\ ListenInv'
  BY SenderIInvStep, ListenStep
<1>3. SenderIInv /\ ListenInv => SuccessMeansLanded
  BY SenderIInvMeans DEF SuccessMeansLanded
<1> QED
  BY <1>1, <1>2, <1>3, PTL DEF Sending!Spec

(* ... and a send that has settled leaves no loop that would send its       *)
(* transaction again, and no listener but that with the id 0, which         *)
(* `if (subscriptionId)` does not remove: on a connection, one at most.     *)
THEOREM SettledSendsLeaveNothing ==
    ASSUME Sending!TxSenderAssumption
    PROVE  Sending!Spec => []NothingLeft
<1>1. Sending!Init => SenderIInv /\ ListenInv
  BY SenderInitIInv, ListenInit
<1>2. SenderIInv /\ ListenInv /\ [Sending!Next]_Sending!vars => SenderIInv' /\ ListenInv'
  BY SenderIInvStep, ListenStep
<1>3. SenderIInv /\ ListenInv => NothingLeft
  BY SenderIInvMeans DEF NothingLeft
<1> QED
  BY <1>1, <1>2, <1>3, PTL DEF Sending!Spec
=============================================================================
