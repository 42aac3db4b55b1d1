---------------------------- MODULE MCTransactions ----------------------------
(* A small instance of Transactions for TLC: two polling requests with      *)
(* different desired statuses, for one signature or for two, and a          *)
(* websocket request; one transaction.  Either the manager runs or the      *)
(* sender, and the other stays as it begins.                                *)
EXTENDS Transactions

CONSTANTS s1, s2, r1, r2, w1

VARIABLE running            \* "manager" or "sender"

MCWsSig == [w \in Ws |-> s1]
MCDesiredOf == [x \in Req \cup Ws |-> IF x = r1 THEN "processed" ELSE "confirmed"]

(* Every sender and strategy, and every option for one of them.             *)
Plain == [sender |-> "whileValid", strategy |-> "WebSocket", commitment |-> 2,
          throwOnTimeoutError |-> TRUE, throwOnTransactionError |-> TRUE,
          skipConfirmation |-> FALSE, confirmInBackground |-> FALSE]
MCConfigs ==
    {[Plain EXCEPT !.sender = s, !.strategy = y] :
        s \in {"retry", "whileValid", "fastSingle", "forwardOnly"}, y \in {"WebSocket", "Polling", "Combo"}}
    \cup {[Plain EXCEPT !.throwOnTimeoutError = FALSE], [Plain EXCEPT !.throwOnTransactionError = FALSE],
          [Plain EXCEPT !.sender = "fastSingle", !.skipConfirmation = TRUE],
          [Plain EXCEPT !.sender = "fastSingle", !.confirmInBackground = TRUE]}

ASSUME MCAssumption == Sending!TxSenderAssumption

MCvars == <<running, vars, senderVars>>

(* The one that does not run has one beginning only.                        *)
MCInit ==
    /\ running \in {"manager", "sender"}
    /\ Init /\ Sending!Init
    /\ running # "manager" => \A r \in Req : sigOf[r] = s1
    /\ running # "sender" => config = Plain /\ failed = {} /\ first[1] = "other"
    /\ first[2] = "other"
MCNext ==
    \/ running = "manager" /\ UNCHANGED <<running, senderVars>> /\ Next
    \/ running = "sender" /\ UNCHANGED <<running, vars>> /\ Sending!Next

(* Where they begin, none of the fair actions is enabled: the fairness of   *)
(* the one that does not run asks for nothing.                              *)
MCSpec == MCInit /\ [][MCNext]_MCvars /\ Fairness /\ Sending!Fairness

(* Every send settles.                                                      *)
SendSettles == Sending!SendSettles
=============================================================================
