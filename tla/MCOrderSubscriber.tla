-------------------------- MODULE MCOrderSubscriber --------------------------
(* A small instance of OrderSubscriber for TLC: two users of one order each.*)
EXTENDS OrderSubscriber

CONSTANTS a, b, a1, b1
MCOwner == [o \in Order |-> IF o = a1 THEN a ELSE b]
Config(polling, decoded, timer, processed) ==
    [polling |-> polling, decoded |-> decoded, resync |-> timer, skipInitialLoad |-> timer,
     processed |-> processed]
MCConfigs == {Config(TRUE, TRUE, FALSE, FALSE), Config(FALSE, TRUE, FALSE, TRUE),
              Config(FALSE, TRUE, FALSE, FALSE), Config(FALSE, FALSE, TRUE, FALSE)}
=============================================================================
