---------------------------- MODULE Transactions ----------------------------
(***************************************************************************)
(* What becomes of the client's transactions: the manager that confirms     *)
(* signatures for whoever asks (this module's own variables), and a sender, *)
(* which confirms what it sends by itself (Sending).  They share nothing    *)
(* but the chain.                                                           *)
(***************************************************************************)
EXTENDS TransactionConfirmationManager

CONSTANTS Tx, Configs, Connections, retryCount, Polls, MaxResends, MaxFailures, MaxForks
VARIABLES
    config, level, failed, seen, at, outcome, listeners, first, polls, loop, done, late, resends,
    txSigCache, timeoutCount, blockhash, failures, forks

Sending == INSTANCE TxSender

senderVars == <<config, level, failed, seen, at, outcome, listeners, first, polls, loop, done, late,
    resends, txSigCache, timeoutCount, blockhash, failures, forks>>

(* Who is told of success has a transaction that landed.                    *)
SuccessMeansLanded == Sending!TypeOK /\ Sending!SuccessMeansLanded

(* A send that has settled leaves no loop behind, and no listener but that  *)
(* with the id 0.                                                           *)
NothingLeft == Sending!NothingLeft
=============================================================================
