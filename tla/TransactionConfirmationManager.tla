------------------- MODULE TransactionConfirmationManager -------------------
(***************************************************************************)
(* util/TransactionConfirmationManager.ts: two ways to await a transaction. *)
(* Polling requests share a map from signatures to requests and an interval *)
(* that asks for the statuses of all those that are due; the checks that it *)
(* starts await the RPC node and may overlap.  A websocket request waits    *)
(* for the first of a one-shot answer, a notification and a timer.          *)
(*                                                                         *)
(* Time is counted in the interval's 100 ms.  The order of the statuses in  *)
(* an answer is abstracted to an arbitrary one.                             *)
(***************************************************************************)
EXTENDS Integers, FiniteSets

CONSTANTS
    Sig,            \* transaction signatures
    Req,            \* calls of confirmTransactionPolling
    Ws,             \* calls of confirmTransactionWebSocket
    DesiredOf,      \* desiredConfirmationStatus of each call
    WsSig,          \* the signature that each websocket call awaits
    LastLevel,      \* bound: the level at which the chain stops
    Check,          \* bound: runs of checkPendingConfirmations that may coexist
    Timeout, PollInterval,
    Mixed,          \* bound: FALSE when all calls of a behaviour are of one kind
    None

Level == [processed |-> 0, confirmed |-> 1, finalized |-> 2]

ASSUME SigAssumption == WsSig \in [Ws -> Sig] /\ DesiredOf \in [Req \cup Ws -> DOMAIN Level]
                        /\ LastLevel \in DOMAIN Level
ASSUME SetsAssumption == IsFiniteSet(Req) /\ IsFiniteSet(Check) /\ Req \cap Ws = {} /\ None \notin Req
ASSUME TimeAssumption == Timeout \in Nat \ {0} /\ PollInterval \in Nat \ {0} /\ Mixed \in BOOLEAN

VARIABLES
    chain,                  \* what became of each transaction
    request,                \* state of the promise of each polling request
    sigOf,                  \* the signature it awaits
    pendingConfirmations,   \* pendingConfirmations[sig]: a request, or None
    age,                    \* time since the request was made
    intervalId,             \* TRUE while the interval is installed
    due,                    \* the interval's timer has expired
    checks,                 \* the checks that await the RPC node
    unreported,             \* history: requests whose error could not be fetched
    ws                      \* the websocket requests

polling == <<request, sigOf, pendingConfirmations, age, intervalId, due, checks, unreported>>
vars == <<chain, polling, ws>>

Outcome == DOMAIN Level \cup {"none", "failed"}
NoStatus == [s \in Sig |-> "none"]
Idle == [phase |-> "idle", todo |-> {}, error |-> None, status |-> NoStatus]
Unused == [phase |-> "unused", oneShot |-> FALSE, listener |-> FALSE, timer |-> FALSE,
           response |-> "none"]

Init ==
    /\ chain = [s \in Sig |-> "none"]
    /\ request = [r \in Req |-> "unused"]
    /\ sigOf \in [Req -> Sig]
    /\ pendingConfirmations = [s \in Sig |-> None]
    /\ age = [r \in Req |-> 0]
    /\ intervalId = FALSE /\ due = FALSE
    /\ checks = [c \in Check |-> Idle]
    /\ unreported = {}
    /\ ws = [w \in Ws |-> Unused]

-----------------------------------------------------------------------------
(* The chain, and what the RPC node may still answer about it.              *)

After(status) ==
    CASE status = "none"      -> {"processed", "failed"}
      [] status = "processed" -> {"confirmed"}
      [] status = "confirmed" -> {"finalized"}
      [] OTHER                -> {}

AdvanceChain(s) ==
    /\ chain[s] # LastLevel
    /\ \E status \in After(chain[s]) : chain' = [chain EXCEPT ![s] = status]
    /\ UNCHANGED <<polling, ws>>

Answers(s) ==
    {"none"} \cup IF chain[s] \in DOMAIN Level
                  THEN {l \in DOMAIN Level : Level[l] <= Level[chain[s]]}
                  ELSE {chain[s]}

(* Mutant: any status will do.                                              *)
matchesAnyStatus(status, desired) == status \in DOMAIN Level

checkStatusMatchesDesiredConfirmationStatus(status, desired) ==
    status \in DOMAIN Level /\ Level[status] >= Level[desired]

-----------------------------------------------------------------------------
(* Polling.                                                                 *)

Pending == {pendingConfirmations[s] : s \in Sig} \ {None}

(* A second request for a signature takes the place of the first.           *)
confirmTransactionPolling(r) ==
    /\ request[r] = "unused"
    /\ Mixed \/ ws = [w \in Ws |-> Unused]
    /\ request' = [request EXCEPT ![r] = "pending"]
    /\ pendingConfirmations' = [pendingConfirmations EXCEPT ![sigOf[r]] = r]
    /\ intervalId' = TRUE
    /\ due' = (due /\ intervalId)
    /\ UNCHANGED <<chain, sigOf, age, checks, unreported, ws>>

TimePasses ==
    /\ \E r \in Pending : age[r] < Timeout
    /\ age' = [r \in Req |-> IF r \in Pending /\ age[r] < Timeout THEN age[r] + 1 ELSE age[r]]
    /\ due' = intervalId
    /\ UNCHANGED <<chain, request, sigOf, pendingConfirmations, intervalId, checks, unreported, ws>>

TimerExpires ==
    /\ intervalId /\ Pending = {} /\ ~due
    /\ due' = TRUE
    /\ UNCHANGED <<chain, request, sigOf, pendingConfirmations, age, intervalId, checks, unreported, ws>>

Late == {r \in Pending : age[r] >= Timeout}
ToCheck == {r \in Pending \ Late : age[r] % PollInterval = 0}

(* The end of a check stops the loop when nothing is pending.               *)
IntervalAfter(pending) == intervalId /\ \E s \in Sig : pending[s] # None

(* Mutant: a request is taken from the map when its status is asked for.    *)
WithoutAsked ==
    [s \in Sig |-> IF pendingConfirmations[s] \in Late \cup ToCheck THEN None ELSE pendingConfirmations[s]]

WithoutLate == [s \in Sig |-> IF pendingConfirmations[s] \in Late THEN None ELSE pendingConfirmations[s]]

(* checkPendingConfirmations, up to its await.                              *)
checkPendingConfirmations(c) ==
    /\ intervalId /\ due
    /\ due' = FALSE
    /\ request' = [r \in Req |-> IF r \in Late /\ request[r] = "pending" THEN "timedOut" ELSE request[r]]
    /\ pendingConfirmations' = WithoutLate
    /\ IF ToCheck = {}
       THEN /\ intervalId' = IntervalAfter(WithoutLate)
            /\ UNCHANGED checks
       ELSE /\ checks[c].phase = "idle"
            /\ checks' = [checks EXCEPT ![c] = [Idle EXCEPT !.phase = "asking", !.todo = ToCheck]]
            /\ UNCHANGED intervalId
    /\ UNCHANGED <<chain, sigOf, age, unreported, ws>>

(* The loop of checkTransactionStatuses over the requests in todo: those in *)
(* `passed` before it meets a failed transaction, error, or the end.        *)
Confirmed(passed, status) ==
    {r \in passed : checkStatusMatchesDesiredConfirmationStatus(status[sigOf[r]], DesiredOf[r])}

(* What is deleted is the signature, whoever awaits it by now.              *)
Removed(confirmed, error) == {sigOf[r] : r \in confirmed \cup ({error} \ {None})}

HandleStatuses(c, requests, todo, status) ==
    LET failed == {r \in todo : status[sigOf[r]] = "failed"} IN
    \E passed \in SUBSET (todo \ failed), error \in failed \cup {None} :
        LET confirmed == Confirmed(passed, status)
            pending == [s \in Sig |-> IF s \in Removed(confirmed, error) THEN None
                                      ELSE pendingConfirmations[s]]
        IN  /\ error = None <=> failed = {}
            /\ error = None => passed = todo
            /\ request' = [r \in Req |-> IF r \in confirmed /\ requests[r] = "pending"
                                         THEN "resolved" ELSE requests[r]]
            /\ pendingConfirmations' = pending
            /\ checks' = [checks EXCEPT ![c] =
                  IF error = None THEN Idle
                  ELSE [phase |-> "reporting", todo |-> todo \ (passed \cup {error}),
                        error |-> error, status |-> status]]
            /\ intervalId' = IF error = None THEN IntervalAfter(pending) ELSE intervalId

Statuses(sigs) ==
    {f \in [Sig -> Outcome] : \A s \in Sig : f[s] \in IF s \in sigs THEN Answers(s) ELSE {"none"}}

StatusesAnswered(c) ==
    /\ checks[c].phase = "asking"
    /\ \E status \in Statuses({sigOf[r] : r \in checks[c].todo}) :
          HandleStatuses(c, request, checks[c].todo, status)
    /\ UNCHANGED <<chain, sigOf, age, due, unreported, ws>>

(* getTransactionErrorFromTxSig returned: reject, and on with the loop.     *)
ErrorFetched(c) ==
    /\ checks[c].phase = "reporting"
    /\ LET r == checks[c].error
           rejected == IF request[r] = "pending" THEN [request EXCEPT ![r] = "failed"] ELSE request
       IN  HandleStatuses(c, rejected, checks[c].todo, checks[c].status)
    /\ UNCHANGED <<chain, sigOf, age, due, unreported, ws>>

(* An exception leaves checkPendingConfirmations: the rest of the answer is *)
(* dropped, and the interval is left alone.                                 *)
StatusesFail(c) ==
    /\ checks[c].phase = "asking"
    /\ checks' = [checks EXCEPT ![c] = Idle]
    /\ UNCHANGED <<chain, request, sigOf, pendingConfirmations, age, intervalId, due, unreported, ws>>

ErrorFetchFails(c) ==
    /\ checks[c].phase = "reporting"
    /\ unreported' = unreported \cup {checks[c].error}
    /\ checks' = [checks EXCEPT ![c] = Idle]
    /\ UNCHANGED <<chain, request, sigOf, pendingConfirmations, age, intervalId, due, ws>>

-----------------------------------------------------------------------------
(* Websocket.                                                               *)

(* onSignature may throw: then there is neither listener nor timer, since   *)
(* promiseTimeout rejects.                                                  *)
confirmTransactionWebSocket(w) ==
    /\ ws[w].phase = "unused"
    /\ Mixed \/ \A r \in Req : request[r] = "unused"
    /\ \E listens \in BOOLEAN :
          ws' = [ws EXCEPT ![w] = [phase |-> "waiting", oneShot |-> TRUE, listener |-> listens,
                                   timer |-> listens, response |-> "none"]]
    /\ UNCHANGED <<chain, polling>>

(* The wait is over: return the response, or throw if there is none.        *)
Settle(w, response) ==
    ws' = [ws EXCEPT ![w] = [phase |-> IF response = "none" THEN "unknown" ELSE "answered",
                             oneShot |-> FALSE, listener |-> FALSE,
                             timer |-> FALSE, response |-> response]]

(* Mutant: a one-shot answer that does not end the wait clears the timer.   *)
WaitsWithoutTimer(w) == [ws[w] EXCEPT !.oneShot = FALSE, !.timer = FALSE]

WaitsOn(w) == [ws[w] EXCEPT !.oneShot = FALSE]

(* A failed or too low status does not end the wait, nor does an exception. *)
OneShotAnswered(w) ==
    /\ ws[w].phase = "waiting" /\ ws[w].oneShot
    /\ \E status \in Answers(WsSig[w]) :
          IF checkStatusMatchesDesiredConfirmationStatus(status, DesiredOf[w])
          THEN Settle(w, status)
          ELSE ws' = [ws EXCEPT ![w] = WaitsOn(w)]
    /\ UNCHANGED <<chain, polling>>

(* onSignature reports the desired status or the failure, once.             *)
Notified(w) ==
    /\ ws[w].phase = "waiting" /\ ws[w].listener
    /\ \E status \in Answers(WsSig[w]) :
          /\ status = "failed" \/ (status \in DOMAIN Level /\ Level[status] >= Level[DesiredOf[w]])
          /\ Settle(w, status)
    /\ UNCHANGED <<chain, polling>>

WebSocketTimeout(w) ==
    /\ ws[w].phase = "waiting" /\ ws[w].timer
    /\ Settle(w, "none")
    /\ UNCHANGED <<chain, polling>>

-----------------------------------------------------------------------------
Next ==
    \/ \E s \in Sig : AdvanceChain(s)
    \/ \E r \in Req : confirmTransactionPolling(r)
    \/ TimePasses \/ TimerExpires
    \/ \E c \in Check :
          \/ checkPendingConfirmations(c)
          \/ StatusesAnswered(c) \/ StatusesFail(c) \/ ErrorFetched(c) \/ ErrorFetchFails(c)
    \/ \E w \in Ws :
          \/ confirmTransactionWebSocket(w)
          \/ OneShotAnswered(w) \/ Notified(w) \/ WebSocketTimeout(w)

Spec == Init /\ [][Next]_vars

(* Time passes, the event loop runs expired timers, and RPC calls end.      *)
CheckEnds(c) == StatusesAnswered(c) \/ StatusesFail(c) \/ ErrorFetched(c) \/ ErrorFetchFails(c)
Fairness ==
    /\ WF_vars(TimePasses) /\ WF_vars(TimerExpires)
    /\ WF_vars(\E c \in Check : checkPendingConfirmations(c))
    /\ \A c \in Check : WF_vars(CheckEnds(c))
    /\ \A w \in Ws : WF_vars(OneShotAnswered(w)) /\ WF_vars(WebSocketTimeout(w))
FairSpec == Spec /\ Fairness

-----------------------------------------------------------------------------
(* Every variable has its type, and the map holds requests whose promise is *)
(* pending, under the signature they await.                                 *)
TypeOK ==
    /\ chain \in [Sig -> Outcome]
    /\ sigOf \in [Req -> Sig]
    /\ request \in [Req -> {"unused", "pending", "resolved", "failed", "timedOut"}]
    /\ pendingConfirmations \in [Sig -> Req \cup {None}]
    /\ \A s \in Sig : pendingConfirmations[s] # None =>
          sigOf[pendingConfirmations[s]] = s /\ request[pendingConfirmations[s]] = "pending"
    /\ age \in [Req -> 0 .. Timeout]
    /\ intervalId \in BOOLEAN /\ due \in BOOLEAN
    /\ checks \in [Check -> [phase : {"idle", "asking", "reporting"},
                             todo : SUBSET Req, error : Req \cup {None},
                             status : [Sig -> Outcome]]]
    /\ unreported \in SUBSET Req
    /\ ws \in [Ws -> [phase : {"unused", "waiting", "answered", "unknown"}, oneShot : BOOLEAN,
                      listener : BOOLEAN, timer : BOOLEAN, response : Outcome]]

(* The loop runs as long as a request is pending, whichever checks end or   *)
(* throw in the meantime: its timeout will be noticed.                      *)
LoopRunsWhilePending == Pending # {} => intervalId

Reached(s, desired) == chain[s] \in DOMAIN Level /\ Level[chain[s]] >= Level[desired]

(* A promise is resolved only when the transaction reached the status that  *)
(* its own caller asked for, and rejected with a transaction error only     *)
(* when it failed, even by answers to questions asked for someone else.     *)
VerdictsAreTheChains ==
    /\ \A r \in Req :
          /\ request[r] = "resolved" =>
                Reached(sigOf[r], DesiredOf[r])
          /\ request[r] = "failed" => chain[sigOf[r]] = "failed"
    /\ \A w \in Ws : ws[w].phase = "answered" =>
          \/ chain[WsSig[w]] = "failed"
          \/ Reached(WsSig[w], DesiredOf[w])

Shared(r) == \E q \in Req \ {r} : sigOf[q] = sigOf[r] /\ request[q] # "unused"

(* A promise that is pending is in the map, or its error is being fetched.  *)
(* The exceptions: another call awaits the same signature, or fetching the  *)
(* error failed; such a promise is never settled.                           *)
ForgottenOnlyWhenSharedOrUnreported ==
    \A r \in Req : request[r] = "pending" =>
        \/ pendingConfirmations[sigOf[r]] = r
        \/ \E c \in Check : checks[c].error = r
        \/ Shared(r) \/ r \in unreported

(* What is pending is kept, and looked after.                               *)
PendingRequestsAreKept == TypeOK /\ LoopRunsWhilePending /\ ForgottenOnlyWhenSharedOrUnreported

(* A call that is alone on its signature is answered or times out, however  *)
(* the answers, failures and checks of others are interleaved with its own. *)
EveryRequestSettles ==
    \A r \in Req : request[r] = "pending" ~>
        request[r] # "pending" \/ Shared(r) \/ r \in unreported

(* When no one waits any more the loop stops.                               *)
LoopStops == (<>[](Pending = {})) => <>[]~intervalId

(* A websocket call that could register its listener ends.                  *)
WebSocketSettles == \A w \in Ws : ws[w].timer ~> ws[w].phase \in {"answered", "unknown"}

(* Calls are answered, and then nothing goes on.                            *)
RequestsSettle == EveryRequestSettles /\ WebSocketSettles /\ LoopStops
=============================================================================
