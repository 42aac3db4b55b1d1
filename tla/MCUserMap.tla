------------------------------ MODULE MCUserMap ------------------------------
(* A small instance of UserMap for TLC: every configuration but those that  *)
(* differ in skipInitialLoad and includeIdle only; one of them throws.      *)
EXTENDS UserMap

CONSTANTS u1, u2, l1, l2
Mode(polling, paginated, throwOnFailedSync) ==
    [polling |-> polling, paginated |-> paginated,
     includeIdle |-> polling, skipInitialLoad |-> polling /\ ~paginated,
     throwOnFailedSync |-> throwOnFailedSync]
MCModes ==
    {Mode(p, c, FALSE) : p \in BOOLEAN, c \in BOOLEAN} \cup {Mode(TRUE, FALSE, TRUE)}
=============================================================================
