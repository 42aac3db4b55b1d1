---------------------------- MODULE MCAdminClient ----------------------------
(* A small instance of AdminClient for TLC: a listed and a new perp market, *)
(* a spot market, and two oracles.                                          *)
EXTENDS AdminClient, TLC

CONSTANTS solPerp, newPerp, sol, pyth, switchboard, multisig
MCFirstOracle == (solPerp :> pyth) @@ (newPerp :> None) @@ (sol :> switchboard)
=============================================================================
