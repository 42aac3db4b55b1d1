------------------------ MODULE MCBulkAccountLoader ------------------------
(* Small instances of BulkAccountLoader for TLC.                            *)
EXTENDS BulkAccountLoader, TLC

CONSTANTS k1, k2, v1, v2

(* Both accounts change once; k2 is closed.                                 *)
MCLedger2 == [k \in Key |-> IF k = k1 THEN <<v1, v2>> ELSE <<v1, None>>]

(* A chain of one slot, for the runs in which no value matters.             *)
MCLedger1 == (k1 :> <<v1>>) @@ (k2 :> <<v2>>)
=============================================================================
