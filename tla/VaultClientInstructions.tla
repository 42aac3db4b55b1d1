---------------------- MODULE VaultClientInstructions ----------------------
(***************************************************************************)
(* vaultClient.ts: the instructions of the vaults program, by what they     *)
(* ask of getRemainingAccounts and what they push after it.                 *)
(*                                                                         *)
(* own is the User account of the vault, as the vaultUsers map has it, s    *)
(* the vault's spot market, hasProtocol whether the vault that was fetched  *)
(* names a vault protocol; the result is for one instruction, its fixed     *)
(* accounts, amounts and tokens are left out (TransactionPlans has those).  *)
(***************************************************************************)
EXTENDS DainClientInstructions

CONSTANT VaultProtocol      \* the vault's account for its protocol
ASSUME ProtocolAssumption == VaultProtocol \notin Market

Reads(own) ==
    [users |-> {own}, useMarketLastSlotCache |-> FALSE, readablePerp |-> {},
     readableSpot |-> {}, writablePerp |-> {}, writableSpot |-> {}, pushed |-> {}]
Writes(own, s) == [Reads(own) EXCEPT !.writableSpot = {s}]
Pushing(ix, condition) == [ix EXCEPT !.pushed = IF condition THEN {VaultProtocol} ELSE {}]

(* The manager.                                                             *)
updateMarginTradingEnabled(own) == Reads(own)
managerDeposit(own, s, hasProtocol) == Pushing(Writes(own, s), hasProtocol)
managerRequestWithdraw(own, s, hasProtocol) == Pushing(Writes(own, s), hasProtocol)
managerCancelWithdrawRequest(own, hasProtocol) == Pushing(Reads(own), hasProtocol)
managerWithdraw(own, s, hasProtocol) == Pushing(Writes(own, s), hasProtocol)

(* The protocol: they send the manager's instructions.                      *)
protocolRequestWithdraw(own, s, hasProtocol) == managerRequestWithdraw(own, s, hasProtocol)
protocolCancelWithdrawRequest(own, hasProtocol) == managerCancelWithdrawRequest(own, hasProtocol)
protocolWithdraw(own, s, hasProtocol) == managerWithdraw(own, s, hasProtocol)

(* Profit share and rebase push nothing.                                    *)
getApplyProfitShareIx(own, s) == Writes(own, s)
getApplyRebaseTokenizedDepositorIx(own, s) == Writes(own, s)
getApplyRebaseIx(own, s) == Writes(own, s)

(* The depositors.  withdraw compares the derived address with the system   *)
(* program's, which it never equals.                                        *)
createTokenizeSharesIx(own, s) == Writes(own, s)
createRedeemTokensIx(own, s) == Writes(own, s)
prepDepositTx(own, s, hasProtocol) == Pushing(Writes(own, s), hasProtocol)
requestWithdraw(own, hasProtocol) == Pushing(Reads(own), hasProtocol)
withdrawFromVault(own, s) == Pushing(Writes(own, s), TRUE)
getForceWithdrawIx(own, s, hasProtocol) == Pushing(Writes(own, s), hasProtocol)
cancelRequestWithdraw(own, hasProtocol) == Pushing(Reads(own), hasProtocol)
liquidate(own, s) == Writes(own, s)

VaultInstructions(own, s) ==
    {updateMarginTradingEnabled(own), getApplyProfitShareIx(own, s),
     getApplyRebaseTokenizedDepositorIx(own, s), getApplyRebaseIx(own, s),
     createTokenizeSharesIx(own, s), createRedeemTokensIx(own, s), withdrawFromVault(own, s),
     liquidate(own, s)}
    \cup UNION {
    {managerDeposit(own, s, hasProtocol), managerRequestWithdraw(own, s, hasProtocol),
     managerCancelWithdrawRequest(own, hasProtocol), managerWithdraw(own, s, hasProtocol),
     protocolRequestWithdraw(own, s, hasProtocol), protocolCancelWithdrawRequest(own, hasProtocol),
     protocolWithdraw(own, s, hasProtocol), prepDepositTx(own, s, hasProtocol),
     requestWithdraw(own, hasProtocol), getForceWithdrawIx(own, s, hasProtocol),
     cancelRequestWithdraw(own, hasProtocol)} : hasProtocol \in BOOLEAN}

(* The accounts of an instruction: what is pushed is written.               *)
VaultAccounts(ix, must) ==
    [a \in ix.pushed |-> TRUE] ++ getRemainingAccounts(ix, {}, must)
=============================================================================
