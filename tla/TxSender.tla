------------------------------ MODULE TxSender ------------------------------
(***************************************************************************)
(* tx/baseTxSender.ts and its four senders, with the cached blockhash       *)
(* fetcher: a transaction gets a blockhash, is sent, is sent again while it *)
(* is unconfirmed (retry and whileValid senders; forwardOnly passes it to   *)
(* callbacks instead), and is confirmed by notifications, by status queries *)
(* or not at all.                                                           *)
(*                                                                         *)
(* On chain a transaction is processed, confirmed and finalized, or its     *)
(* block is abandoned before that.  Timers fire in any order with answers.  *)
(***************************************************************************)
EXTENDS Naturals, FiniteSets

CONSTANTS
    Tx, None,
    Configs,            \* senders and options to consider
    Connections,        \* connections that confirmations are awaited on
    retryCount,         \* of the blockhash fetcher
    Polls,              \* status queries before confirmTransactionPolling gives up
    MaxResends,         \* bound: how often one transaction is sent again
    MaxFailures,        \* bound: answers that are errors
    MaxForks            \* bound: blocks that are abandoned

Sender   == {"retry", "whileValid", "fastSingle", "forwardOnly"}
Strategy == {"WebSocket", "Polling", "Combo"}
Level    == 0 .. 3      \* not in a block, processed, confirmed, finalized

TxSenderAssumption ==
    /\ Configs \subseteq [sender : Sender, strategy : Strategy, commitment : 1 .. 3,
                          throwOnTimeoutError : BOOLEAN, throwOnTransactionError : BOOLEAN,
                          skipConfirmation : BOOLEAN, confirmInBackground : BOOLEAN]
    /\ {retryCount, Polls, MaxResends, MaxFailures, MaxForks} \subseteq Nat
    /\ retryCount > 0 /\ Polls > 0 /\ IsFiniteSet(Tx)
    /\ None \notin {"ok", "timeout", "error"} /\ None \notin BOOLEAN
    /\ {None, "other"} \cap Tx = {}

VARIABLES
    config,
    level,              \* chain: the commitment that a transaction has reached
    failed,             \* chain: transactions whose execution fails
    seen,               \* history: the highest level of a transaction
    at,                 \* where the send of a transaction is
    outcome,            \* what its caller was told: None, "ok", "timeout" or "error"
    listeners,          \* connections with a signature listener for the transaction
    first,              \* whose listener has the id 0 of a connection: None yet, a
                        \* transaction's, or "other" when something else was subscribed
    polls,              \* status queries made for it
    loop,               \* its resend loop: "off" or "sleeping"
    done,               \* stopWaiting() was called
    late,               \* the timeout since the first send is over
    resends,
    txSigCache,         \* None (no entry), FALSE or TRUE
    timeoutCount,
    blockhash,          \* blockhashFetchingPromise: None, or the tries left
    failures, forks

chain   == <<level, failed, seen>>
sending == <<at, outcome, listeners, first, polls, loop, done, late, resends, txSigCache>>
vars    == <<config, chain, sending, timeoutCount, blockhash, failures, forks>>

Resends == config.sender \in {"retry", "whileValid", "forwardOnly"}
ByWebSocket == config.strategy \in {"WebSocket", "Combo"}
Stages == {"new", "blockhash", "sending", "confirming", "background", "checking", "reading", "settled"}

TypeOK ==
    /\ config \in Configs
    /\ level \in [Tx -> Level] /\ seen \in [Tx -> Level] /\ failed \subseteq Tx
    /\ at \in [Tx -> Stages]
    /\ outcome \in [Tx -> {None, "ok", "timeout", "error"}]
    /\ listeners \in [Tx -> SUBSET Connections]
    /\ first \in [Connections -> Tx \cup {None, "other"}]
    /\ polls \in [Tx -> 0 .. Polls]
    /\ loop \in [Tx -> {"off", "sleeping"}]
    /\ done \subseteq Tx /\ late \subseteq Tx
    /\ resends \in [Tx -> 0 .. MaxResends]
    /\ txSigCache \in [Tx -> {None} \cup BOOLEAN]
    /\ timeoutCount \in 0 .. Cardinality(Tx)
    /\ blockhash \in {None} \cup 1 .. retryCount

Init ==
    /\ config \in Configs
    /\ level = [t \in Tx |-> 0] /\ seen = level
    /\ failed \in SUBSET Tx
    /\ at = [t \in Tx |-> "new"]
    /\ outcome = [t \in Tx |-> None]
    /\ listeners = [t \in Tx |-> {}]
    /\ first \in [Connections -> {None, "other"}]
    /\ polls = [t \in Tx |-> 0]
    /\ loop = [t \in Tx |-> "off"]
    /\ done = {} /\ late = {}
    /\ resends = [t \in Tx |-> 0]
    /\ txSigCache = [t \in Tx |-> None]
    /\ timeoutCount = 0
    /\ blockhash = None
    /\ failures = 0 /\ forks = 0

-----------------------------------------------------------------------------
(* The chain.  A transaction may land once it was sent.                     *)

Sent(t) == at[t] \notin {"new", "blockhash", "sending"} /\ txSigCache[t] # None
Advances(t) ==
    /\ Sent(t) /\ level[t] < 3
    /\ level' = [level EXCEPT ![t] = @ + 1]
    /\ seen' = [seen EXCEPT ![t] = IF level[t] + 1 > @ THEN level[t] + 1 ELSE @]
    /\ UNCHANGED <<config, failed, sending, timeoutCount, blockhash, failures, forks>>
BlockAbandoned(t) ==
    /\ level[t] \in {1, 2} /\ forks < MaxForks
    /\ forks' = forks + 1
    /\ level' = [level EXCEPT ![t] = 0]
    /\ UNCHANGED <<config, failed, seen, sending, timeoutCount, blockhash, failures>>

-----------------------------------------------------------------------------
(* Preparing: one request for a blockhash at a time, with retries; those    *)
(* who wait for it all get the blockhash or the error.                      *)

prepareTx(t) ==
    /\ at[t] = "new"
    /\ at' = [at EXCEPT ![t] = "blockhash"]
    /\ blockhash' = IF blockhash = None THEN retryCount ELSE blockhash
    /\ UNCHANGED <<config, chain, outcome, listeners, first, polls, loop, done, late, resends, txSigCache,
                   timeoutCount, failures, forks>>

Waiting == {t \in Tx : at[t] = "blockhash"}
BlockhashReturns ==
    /\ blockhash # None
    /\ blockhash' = None
    /\ at' = [t \in Tx |-> IF t \in Waiting THEN "sending" ELSE at[t]]
    /\ UNCHANGED <<config, chain, outcome, listeners, first, polls, loop, done, late, resends, txSigCache,
                   timeoutCount, failures, forks>>
BlockhashFails ==
    /\ blockhash # None /\ failures < MaxFailures
    /\ failures' = failures + 1
    /\ IF blockhash > 1
       THEN blockhash' = blockhash - 1 /\ UNCHANGED <<at, outcome>>
       ELSE /\ blockhash' = None
            /\ at' = [t \in Tx |-> IF t \in Waiting THEN "settled" ELSE at[t]]
            /\ outcome' = [t \in Tx |-> IF t \in Waiting THEN "error" ELSE outcome[t]]
    /\ UNCHANGED <<config, chain, listeners, first, polls, loop, done, late, resends, txSigCache, timeoutCount, forks>>

-----------------------------------------------------------------------------
(* Sending.                                                                 *)

(* stopWaiting() in the finally block, when the confirmation has ended.     *)
StopsWaiting(t) ==
    /\ done' = IF Resends THEN done \cup {t} ELSE done
    /\ loop' = [loop EXCEPT ![t] = "off"]

(* A connection numbers its subscriptions from 0.                           *)
Listen(t) ==
    IF ByWebSocket
    THEN /\ listeners' = [listeners EXCEPT ![t] = Connections]
         /\ first' = [c \in Connections |-> IF first[c] = None THEN t ELSE first[c]]
    ELSE UNCHANGED <<listeners, first>>

(* Mutant: nothing is removed when the promise has settled.                 *)
RemovesNothing(t, notified) == listeners' = [listeners EXCEPT ![t] = @ \ notified]

(* removeSignatureListener(): `if (subscriptionId)` does not hold of 0.     *)
Removed(t, notified) ==
    listeners' = [listeners EXCEPT ![t] = {c \in @ \ notified : first[c] = t}]

(* The first send: forwardOnly calls back, the others call the node.        *)
SendReturns(t) ==
    /\ at[t] = "sending"
    /\ txSigCache' = [txSigCache EXCEPT ![t] = FALSE]
    /\ loop' = [loop EXCEPT ![t] = IF Resends THEN "sleeping" ELSE "off"]
    /\ IF config.sender = "fastSingle" /\ config.skipConfirmation
       THEN /\ at' = [at EXCEPT ![t] = "settled"]
            /\ outcome' = [outcome EXCEPT ![t] = "ok"]
            /\ UNCHANGED <<listeners, first>>
       ELSE /\ Listen(t)
            /\ IF config.sender = "fastSingle" /\ config.confirmInBackground
               THEN /\ at' = [at EXCEPT ![t] = "background"]
                    /\ outcome' = [outcome EXCEPT ![t] = "ok"]
               ELSE at' = [at EXCEPT ![t] = "confirming"] /\ UNCHANGED outcome
    /\ UNCHANGED <<config, chain, polls, done, late, resends, timeoutCount, blockhash, failures, forks>>
SendFails(t) ==
    /\ at[t] = "sending" /\ failures < MaxFailures /\ config.sender # "forwardOnly"
    /\ failures' = failures + 1
    /\ at' = [at EXCEPT ![t] = "settled"]
    /\ outcome' = [outcome EXCEPT ![t] = "error"]
    /\ UNCHANGED <<config, chain, listeners, first, polls, loop, done, late, resends, txSigCache, timeoutCount,
                   blockhash, forks>>

(* The resend loop wakes up.  A resend that fails stops the loop, but not   *)
(* the confirmation.                                                        *)
Resend(t) ==
    /\ loop[t] = "sleeping" /\ resends[t] < MaxResends
    /\ t \notin done
    /\ resends' = [resends EXCEPT ![t] = @ + 1]
    /\ IF t \in late
       THEN loop' = [loop EXCEPT ![t] = "off"] /\ UNCHANGED <<done, failures>>
       ELSE \/ UNCHANGED <<loop, done, failures>>
            \/ /\ failures < MaxFailures /\ config.sender # "forwardOnly"
               /\ failures' = failures + 1
               /\ done' = done \cup {t}
               /\ loop' = [loop EXCEPT ![t] = "off"]
    /\ UNCHANGED <<config, chain, at, outcome, listeners, first, polls, late, txSigCache, timeoutCount, blockhash, forks>>

(* The time of the loop is over: it ends after its next turn.               *)
TimeIsOver(t) ==
    /\ loop[t] = "sleeping" /\ t \notin late
    /\ late' = late \cup {t}
    /\ UNCHANGED <<config, chain, at, outcome, listeners, first, polls, loop, done, resends, txSigCache, timeoutCount,
                   blockhash, failures, forks>>

-----------------------------------------------------------------------------
(* Confirming.                                                              *)

Confirming(t) == at[t] \in {"confirming", "background"}

(* The confirmation is over.  Who confirms in the background has told the   *)
(* caller already.                                                          *)
Settle(t, told, landed) ==
    /\ at' = [at EXCEPT ![t] = "settled"]
    /\ outcome' = [outcome EXCEPT ![t] = IF @ = None THEN told ELSE @]
    /\ txSigCache' = [txSigCache EXCEPT ![t] = IF landed THEN TRUE ELSE @]
    /\ StopsWaiting(t)

(* A result came: the transaction counts as landed; if it has an error, the *)
(* senders but forwardOnly read the transaction to throw that error.        *)
Result(t, err) ==
    IF err /\ config.sender # "forwardOnly"
    THEN /\ at' = [at EXCEPT ![t] = "reading"]
         /\ txSigCache' = [txSigCache EXCEPT ![t] = TRUE]
         /\ UNCHANGED <<outcome, loop, done>>
    ELSE Settle(t, "ok", TRUE)

(* throwTransactionError, for which the transaction may have no error: its  *)
(* block has been abandoned.  Then whileValid still throws.                 *)
ErrorRead(t) ==
    /\ at[t] = "reading"
    /\ \/ Settle(t, "error", TRUE)
       \/ /\ level[t] = 0 \/ t \notin failed
          /\ Settle(t, IF config.sender = "whileValid" /\ config.throwOnTransactionError
                       THEN "error" ELSE "ok", TRUE)
    /\ UNCHANGED <<config, chain, listeners, first, polls, late, resends, timeoutCount, blockhash, failures, forks>>

(* confirmTransactionWebSocket: a connection notifies that the transaction  *)
(* has the commitment.  It drops a listener that it has notified.           *)
Notified(t) ==
    /\ Confirming(t)
    /\ \E c \in listeners[t] : level[t] >= config.commitment /\ Removed(t, {c})
    /\ Result(t, t \in failed)
    /\ UNCHANGED <<config, chain, first, polls, late, resends, timeoutCount, blockhash, failures, forks>>

(* A listener that was left is notified: it sets `response`, which counts   *)
(* only as long as Combo waits for its status.                              *)
NotifiedLate(t) ==
    /\ ~Confirming(t)
    /\ \E c \in listeners[t] :
          /\ level[t] >= config.commitment
          /\ listeners' = [listeners EXCEPT ![t] = @ \ {c}]
    /\ UNCHANGED <<config, chain, at, outcome, first, polls, loop, done, late, resends, txSigCache,
                   timeoutCount, blockhash, failures, forks>>
Answered(t) == ByWebSocket /\ \E c \in Connections : first[c] = t /\ c \notin listeners[t]

TimedOut(t) ==
    /\ timeoutCount' = timeoutCount + 1
    /\ IF config.throwOnTimeoutError THEN Settle(t, "timeout", FALSE)
       ELSE Result(t, Answered(t) /\ t \in failed)

(* The promise times out, listeners are removed; Combo asks once more.      *)
promiseTimeout(t) ==
    /\ Confirming(t) /\ ByWebSocket
    /\ Removed(t, {})
    /\ IF config.strategy = "Combo"
       THEN /\ at' = [at EXCEPT ![t] = "checking"]
            /\ UNCHANGED <<outcome, txSigCache, timeoutCount, loop, done>>
       ELSE TimedOut(t)
    /\ UNCHANGED <<config, chain, first, polls, late, resends, blockhash, failures, forks>>

(* Mutant: an answer without a status will do, too.                         *)
HasStatusOrNot(t) == TRUE

(* Any confirmation status will do for Combo.                               *)
HasStatus(t) == level[t] > 0

StatusReturns(t) ==
    /\ at[t] = "checking"
    /\ \/ /\ HasStatus(t)
          /\ Result(t, level[t] > 0 /\ t \in failed)
          /\ UNCHANGED <<timeoutCount, failures>>
       \/ ~HasStatus(t) /\ TimedOut(t) /\ UNCHANGED failures
       \/ failures < MaxFailures /\ failures' = failures + 1 /\ TimedOut(t)
    /\ UNCHANGED <<config, chain, listeners, first, polls, late, resends, blockhash, forks>>

(* Mutant: the count is compared one too late, when it cannot grow.         *)
GivesUpLater(t) == polls[t] > Polls

(* Polling gives up after a number of queries.                              *)
GivesUp(t) == polls[t] = Polls

(* confirmTransactionPolling: only the very commitment counts, and then the *)
(* transaction is taken to have no error.  A failing query throws.          *)
Poll(t) ==
    /\ Confirming(t) /\ config.strategy = "Polling" /\ polls[t] < Polls
    /\ polls' = [polls EXCEPT ![t] = @ + 1]
    /\ \/ level[t] = config.commitment /\ Result(t, FALSE) /\ UNCHANGED failures
       \/ /\ level[t] # config.commitment
          /\ UNCHANGED <<at, outcome, txSigCache, loop, done, failures>>
       \/ failures < MaxFailures /\ failures' = failures + 1 /\ Settle(t, "error", FALSE)
    /\ UNCHANGED <<config, chain, listeners, first, late, resends, timeoutCount, blockhash, forks>>
PollingEnds(t) ==
    /\ Confirming(t) /\ config.strategy = "Polling" /\ GivesUp(t)
    /\ TimedOut(t)
    /\ UNCHANGED <<config, chain, listeners, first, polls, late, resends, blockhash, failures, forks>>

Confirms(t) ==
    Notified(t) \/ promiseTimeout(t) \/ StatusReturns(t) \/ Poll(t) \/ PollingEnds(t) \/ ErrorRead(t)

Next ==
    \/ \E t \in Tx : \/ Advances(t) \/ BlockAbandoned(t)
                     \/ prepareTx(t) \/ SendReturns(t) \/ SendFails(t)
                     \/ Resend(t) \/ TimeIsOver(t) \/ Confirms(t) \/ NotifiedLate(t)
    \/ BlockhashReturns \/ BlockhashFails

(* Requests are answered and timers fire.                                   *)
Fairness ==
    /\ WF_vars(BlockhashReturns)
    /\ \A t \in Tx : /\ WF_vars(SendReturns(t)) /\ WF_vars(promiseTimeout(t)) /\ WF_vars(StatusReturns(t))
                     /\ WF_vars(Poll(t)) /\ WF_vars(PollingEnds(t)) /\ WF_vars(ErrorRead(t))

Spec == Init /\ [][Next]_vars /\ Fairness

-----------------------------------------------------------------------------
(* When time-outs throw, a caller that waits for the confirmation and is    *)
(* told of success has a transaction that was in a block, and so has every  *)
(* signature that counts as landed, whatever the races of notifications,    *)
(* time-outs, status queries and abandoned blocks.  With a whileValid       *)
(* sender and notifications success also means no error, and the            *)
(* commitment that was asked for.                                           *)
Waits == ~(config.sender = "fastSingle" /\ (config.skipConfirmation \/ config.confirmInBackground))
SuccessMeansLanded ==
    config.throwOnTimeoutError => \A t \in Tx :
        /\ outcome[t] = "ok" /\ Waits => seen[t] > 0
        /\ txSigCache[t] = TRUE => seen[t] > 0
        /\ outcome[t] = "ok" /\ config.sender = "whileValid" /\ config.throwOnTransactionError
               /\ config.strategy = "WebSocket"
           => t \notin failed /\ seen[t] >= config.commitment

(* Of a send that has settled no loop is left that would send the           *)
(* transaction again, and no listener on a connection but one: that with    *)
(* the id 0, which at most one transaction has on a connection.             *)
NothingLeft ==
    /\ \A t \in Tx : at[t] = "settled" => loop[t] = "off" /\ \A c \in listeners[t] : first[c] = t
    /\ \A c \in Connections : \A s, t \in Tx :
          {at[s], at[t]} = {"settled"} /\ c \in listeners[s] \cap listeners[t] => s = t

(* Every send settles, and every caller is told, whatever fails.            *)
SendSettles == \A t \in Tx : at[t] = "blockhash" ~> at[t] = "settled" /\ outcome[t] # None
=============================================================================
