---------------------------- MODULE MCSubscribers ----------------------------
(* A small instance of Subscribers for TLC.  Either the subscriber with a   *)
(* websocket runs or one that polls or the subscriber of events, and the    *)
(* others stay as they begin.                                               *)
EXTENDS Subscribers

CONSTANTS v1, v2, c1, c2

VARIABLE running            \* "websocket", "polling" or "events"

(* The account does not exist at first, changes and changes back.           *)
MCLedger == [s \in Sub |-> <<None, v1, v2, v1>>]

(* Transactions t1 to t3, of which t3 fails; events of type A are asked for.*)
CONSTANTS t1, t2, t3, A, B
MCEventsOf == [t \in Tx |-> CASE t = t1 -> <<B, A>> [] t = t2 -> <<A, A>> [] OTHER -> <<B>>]
Option(type, dir, by, max, tx, attempts, made) ==
    [type |-> type, eventTypes |-> {A}, maxEventsPerType |-> max, maxTx |-> tx, orderDir |-> dir,
     orderBy |-> by, maxReconnectAttempts |-> attempts, careful |-> TRUE, calls |-> made]
MCOptions ==
    {Option("polling", "asc", "blockchain", 2, 3, 0, {"fetchPreviousTx", "unsubscribe"}),
     Option("polling", "asc", "blockchain", 2, 3, 0, {"awaitTx"}),
     Option("polling", "desc", "client", 3, 1, 0, {"fetchPreviousTx"}),
     Option("websocket", "asc", "blockchain", 3, 3, 1, {"unsubscribe"}),
     Option("websocket", "desc", "blockchain", 2, 3, 0, {}),
     Option("events-server", "asc", "blockchain", 3, 3, 0, {})}

MCvars == <<running, vars, pollingVars, eventVars>>

(* One that does not run has one beginning only.                            *)
MCInit ==
    /\ running \in {"websocket", "polling", "events"}
    /\ Init /\ Polling!Init /\ Events!Init
    /\ running # "polling" => kind = "user" /\ chain = <<None>>
    /\ running # "events" => options = Option("events-server", "asc", "blockchain", 3, 3, 0, {})
MCNext ==
    \/ running = "websocket" /\ UNCHANGED <<running, pollingVars, eventVars>> /\ Next
    \/ running = "polling" /\ UNCHANGED <<running, vars, eventVars>> /\ Polling!Next
    \/ running = "events" /\ UNCHANGED <<running, vars, pollingVars>> /\ Events!Next

(* Where they begin, none of their fair actions is enabled: the fairness of *)
(* those that do not run asks for nothing.                                  *)
MCSpec ==
    /\ MCInit /\ [][MCNext]_MCvars
    /\ \A s \in Sub : WF_vars(Continues(s))
    /\ Polling!Fairness /\ Events!Fairness

ASSUME MCAssumption == Polling!PollingAssumption /\ Events!EventsAssumption

(* The copy of a subscriber that polls comes to be the chain's account.     *)
CopyFollowsTheChain == Polling!CopyFollowsTheChain
(* What lands after the transaction a poller of events saw last is handled. *)
PolledEventsArrive == Events!PolledEventsArrive
=============================================================================
