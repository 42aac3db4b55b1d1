---------------------------- MODULE MCDainClient ----------------------------
(* A small instance of DainClient for TLC: one perp market, the quote       *)
(* market and another spot market, two sub-accounts.                        *)
EXTENDS DainClient, TLC

CONSTANTS sol, solPerp, usdc, solOracle, usdcOracle, none, main, hedge

MCOracle == (sol :> solOracle) @@ (solPerp :> solOracle) @@ (usdc :> usdcOracle)
MCSymmetry == Permutations(SubAccount)
MCOther == {[perp |-> {solPerp}, spot |-> {usdc}, orders |-> {}]}
=============================================================================
