-------------------------- MODULE TransactionPlans --------------------------
(***************************************************************************)
(* dainClient.ts and vaultClient.ts: transactions of several instructions.  *)
(* The client looks at the accounts that exist, decides which instructions  *)
(* are needed, and the chain runs them in order, all or none.               *)
(*                                                                         *)
(* An instruction is reduced to what it does to accounts: those it needs,   *)
(* those that must not exist, those it creates and those it closes.  A plan *)
(* is the list and `given`, what the code takes for granted of the accounts *)
(* and does not check.  The world is the set of accounts that exist.        *)
(***************************************************************************)
LOCAL INSTANCE SequencesExt

CONSTANTS
    Mint,           \* mints of the spot markets
    WrappedSol,     \* WRAPPED_SOL_MINT
    MSol,           \* the mint of spot market 2
    Token2022,      \* mints of markets with tokenProgram = 1
    MainSubAccount, OtherSubAccount     \* sub-account 0 and another one

MintAssumption == {WrappedSol, MSol} \subseteq Mint \ Token2022 /\ Token2022 \subseteq Mint

SubAccounts == {MainSubAccount, OtherSubAccount}

(* Accounts: token accounts by mint and the program their address is        *)
(* derived with, the temporary account for wrapped SOL, the accounts of the *)
(* program.  Funded(a): token account a holds the amount to be moved.       *)
TokenAccount(mint, program) == <<"token", mint, program>>
getTokenProgramForSpotMarket(mint) == IF mint \in Token2022 THEN "token2022" ELSE "token"
getAssociatedTokenAccount(mint) == TokenAccount(mint, getTokenProgramForSpotMarket(mint))
Temporary      == <<"temporary">>
Funded(a)      == <<"funded", a>>
Wallet         == <<"wallet">>      \* passed for a token account: native SOL
UserStats      == <<"userStats">>
UserOf(sub)    == <<"user", sub>>
Stake(mint)    == <<"stake", mint>>
VaultDepositor == <<"vaultDepositor">>

-----------------------------------------------------------------------------
(* Instructions.                                                            *)
Instruction(needs, absent, creates, closes) ==
    [needs |-> needs, absent |-> absent, creates |-> creates, closes |-> closes]
Uses(accounts)    == Instruction(accounts, {}, {}, {})
Creates(needs, a) == Instruction(needs, {a}, {a}, {})
Closes(a)         == Instruction({a}, {}, {}, {a, Funded(a)})
Pays(from)        == Uses({from, Funded(from)})
Fills(to)         == Instruction({to}, {}, {Funded(to)}, {})

(* The token program rejects an account whose address was derived with      *)
(* another program than the mint's: it can never exist.                     *)
Possible(a) ==
    \A m \in Mint : \A p \in {"token", "token2022"} :
        a = TokenAccount(m, p) => p = getTokenProgramForSpotMarket(m)

getAssociatedTokenAccountCreationIx(a) == Creates({}, a)
createAssociatedTokenAccountIdempotentInstruction(a) == Instruction({}, {}, {a}, {})

(* createAccountWithSeed and initializeAccount, with the amount or only the *)
(* rent.                                                                    *)
getWrappedSolAccountCreationIxs(withAmount) ==
    <<Instruction({}, {Temporary},
                  {Temporary} \cup (IF withAmount THEN {Funded(Temporary)} ELSE {}), {})>>

(* The chain: every instruction in turn; one that fails undoes them all.    *)
Runs(world, ix) ==
    /\ ix.needs \subseteq world
    /\ ix.absent \cap world = {}
    /\ \A a \in ix.creates : Possible(a)
Failed == {<<"failed">>}
Run(world, steps) ==
    FoldLeft(LAMBDA w, ix : IF w # Failed /\ Runs(w, ix) THEN (w \ ix.closes) \cup ix.creates
                            ELSE Failed,
             world, steps)

-----------------------------------------------------------------------------
(* Plans.  `If` is an instruction that is only pushed on a condition.       *)
If(condition, steps) == IF condition THEN steps ELSE << >>
Plan(given, steps) == [given |-> given, steps |-> steps]
CheckStats(world, sub) == If(sub = MainSubAccount /\ UserStats \notin world,
                             <<Creates({}, UserStats)>>)
InitializeUser(sub) == Creates({UserStats}, UserOf(sub))

(* account: where the caller wants the tokens from, the wallet for SOL.     *)
getDepositTxnIx(mint, account, sub) ==
    LET temp == mint = WrappedSol /\ account = Wallet
        from == IF temp THEN Temporary ELSE account
    IN  Plan({UserStats, UserOf(sub)} \cup (IF temp THEN {} ELSE {account, Funded(account)}),
             If(temp, getWrappedSolAccountCreationIxs(TRUE))
             \o <<Instruction({from, Funded(from), UserOf(sub), UserStats}, {}, {}, {Funded(from)})>>
             \o If(temp, <<Closes(Temporary)>>))

(* Mutant: the temporary account is left open.                              *)
WithdrawalWithoutClose(world, mint, account, sub) ==
    Plan({UserStats, UserOf(sub)},
         (IF mint = WrappedSol /\ account = Wallet THEN getWrappedSolAccountCreationIxs(FALSE)
          ELSE If(account \notin world, <<getAssociatedTokenAccountCreationIx(account)>>))
         \o <<Fills(IF mint = WrappedSol /\ account = Wallet THEN Temporary ELSE account)>>)

getWithdrawalIxs(world, mint, account, sub) ==
    LET temp == mint = WrappedSol /\ account = Wallet
        to   == IF temp THEN Temporary ELSE account
    IN  Plan({UserStats, UserOf(sub)},
             (IF temp THEN getWrappedSolAccountCreationIxs(FALSE)
              ELSE If(account \notin world, <<getAssociatedTokenAccountCreationIx(account)>>))
             \o <<Uses({UserOf(sub), UserStats}), Fills(to)>>
             \o If(temp, <<Closes(Temporary)>>))

(* One withdrawal per mint of the dust, into accounts derived with the      *)
(* token program: a Token-2022 mint among them fails the transaction.       *)
withdrawAllDustPositions(world, mint, sub) ==
    getWithdrawalIxs(world, mint, TokenAccount(mint, "token"), sub)

initializeUserAccount(world, sub) ==
    Plan(IF sub = MainSubAccount THEN {} ELSE {UserStats},
         CheckStats(world, sub) \o <<InitializeUser(sub)>>)

(* The faucet's instructions create the token account in any case.          *)
initializeUserAccountForDevnet(world, mint, sub) ==
    LET account == TokenAccount(mint, "token") IN
    Plan(IF sub = MainSubAccount THEN {} ELSE {UserStats},
         <<getAssociatedTokenAccountCreationIx(account), Fills(account)>>
         \o CheckStats(world, sub)
         \o <<InitializeUser(sub), Instruction({account, Funded(account), UserOf(sub)}, {}, {}, {})>>)

(* from: the sub-account a transfer comes from, or none; donation: whether   *)
(* an amount of SOL goes to the revenue pool.                               *)
createInitializeUserAccountAndDepositCollateralIxs(world, mint, account, sub, from, donation) ==
    LET isSol == mint = WrappedSol
        temp  == (isSol /\ account = Wallet /\ from = {}) \/ donation
        payer == IF temp /\ isSol THEN Temporary ELSE account
    IN  Plan((IF sub = MainSubAccount THEN {} ELSE {UserStats})
             \cup (IF from # {} THEN {UserOf(s) : s \in from}
                   ELSE IF payer = Temporary THEN {} ELSE {account, Funded(account)}),
             If(temp, getWrappedSolAccountCreationIxs(TRUE))
             \o CheckStats(world, sub)
             \o <<InitializeUser(sub),
                  IF from # {} THEN Uses({UserOf(s) : s \in from} \cup {UserOf(sub)})
                  ELSE Uses({payer, Funded(payer), UserOf(sub)})>>
             \o If(donation, <<Pays(Temporary)>>)
             \o If(temp, <<Closes(Temporary)>>))

(* The accounts of a swap: looked up, and created when they are missing,     *)
(* unless the caller names them.                                            *)
SwapAccount(world, account) ==
    If(account \notin world, <<createAssociatedTokenAccountIdempotentInstruction(account)>>)
SwapPlan(world, out, in) ==
    Plan({UserStats, UserOf(MainSubAccount)},
         SwapAccount(world, out) \o SwapAccount(world, in)
         \o <<Fills(in), Pays(in), Fills(out), Uses({in, out, Funded(out)})>>)

(* The account of the sold token is derived with the program of the bought  *)
(* one.                                                                     *)
getJupiterSwapIx(world, outMint, inMint) ==
    SwapPlan(world, getAssociatedTokenAccount(outMint),
             TokenAccount(inMint, getTokenProgramForSpotMarket(outMint)))
getJupiterSwapIxV6(world, outMint, inMint) ==
    SwapPlan(world, getAssociatedTokenAccount(outMint), getAssociatedTokenAccount(inMint))

(* Borrow wrapped SOL, unwrap it by closing its account, stake, restore the  *)
(* account before the swap ends.  The mSOL account is taken for granted.    *)
getStakeForMSOLIx(world) ==
    LET wSOL == getAssociatedTokenAccount(WrappedSol)
        mSOL == getAssociatedTokenAccount(MSol)
        open == createAssociatedTokenAccountIdempotentInstruction(wSOL)
    IN  Plan({mSOL, UserStats, UserOf(MainSubAccount)},
             If(wSOL \notin world, <<open>>)
             \o <<Fills(wSOL), Closes(wSOL), Fills(mSOL), open, Uses({wSOL, mSOL, Funded(mSOL)})>>)

(* initialize: the caller's initializeStakeAccount, due exactly when the     *)
(* stake account does not exist.                                            *)
addInsuranceFundStake(world, mint, account, fromSubaccount) ==
    LET temp == mint = WrappedSol /\ account = Wallet
        from == IF temp THEN Temporary ELSE account
    IN  Plan((IF fromSubaccount THEN {UserStats, UserOf(MainSubAccount)} ELSE {})
             \cup (IF temp THEN {} ELSE {account, Funded(account)}),
             <<createAssociatedTokenAccountIdempotentInstruction(getAssociatedTokenAccount(mint))>>
             \o If(UserStats \notin world, <<Creates({}, UserStats)>>)
             \o If(temp, getWrappedSolAccountCreationIxs(TRUE))
             \o If(fromSubaccount, <<Uses({UserOf(MainSubAccount)}), Fills(from)>>)
             \o If(Stake(mint) \notin world, <<Creates({UserStats}, Stake(mint))>>)
             \o <<Uses({Stake(mint), UserStats, from, Funded(from)})>>
             \o If(temp, <<Closes(Temporary)>>))

removeInsuranceFundStake(world, mint, account) ==
    LET temp == mint = WrappedSol /\ account = Wallet
        to   == IF temp THEN Temporary ELSE account
    IN  Plan({Stake(mint), UserStats},
             (IF temp THEN getWrappedSolAccountCreationIxs(TRUE)
              ELSE If(account \notin world,
                      <<createAssociatedTokenAccountIdempotentInstruction(account)>>))
             \o <<Uses({Stake(mint), UserStats}), Fills(to)>>
             \o If(temp, <<Closes(Temporary)>>))

-----------------------------------------------------------------------------
(* vaultClient.ts.  The vault's own accounts exist; token accounts of the    *)
(* wallet are derived with the token program.                               *)
handleWSolMovement(mint, account) ==
    IF mint = WrappedSol
    THEN [from |-> Temporary, pre |-> getWrappedSolAccountCreationIxs(TRUE),
          post |-> <<Closes(Temporary)>>]
    ELSE [from |-> account, pre |-> << >>, post |-> << >>]

VaultDeposit(mint, account, before, needs) ==
    LET move == handleWSolMovement(mint, account) IN
    Plan(IF mint = WrappedSol THEN {} ELSE {account, Funded(account)},
         before \o move.pre \o <<Uses(needs \cup {move.from, Funded(move.from)})>> \o move.post)
managerDeposit(mint) == VaultDeposit(mint, TokenAccount(mint, "token"), << >>, {})

(* initialize: the caller passes initVaultDepositor.                        *)
createDepositTx(mint, initialize) ==
    LET plan == VaultDeposit(mint, TokenAccount(mint, "token"),
                    If(initialize, <<Creates({}, VaultDepositor)>>), {VaultDepositor})
    IN  IF initialize THEN plan ELSE [plan EXCEPT !.given = @ \cup {VaultDepositor}]

withdraw(world, mint) ==
    LET account == TokenAccount(mint, "token") IN
    Plan({VaultDepositor},
         IF mint = WrappedSol
         THEN getWrappedSolAccountCreationIxs(FALSE)
              \o <<Fills(Temporary), Uses({Temporary}), Closes(Temporary)>>
         ELSE If(account \notin world, <<Creates({}, account)>>) \o <<Fills(account)>>)

(* getOrCreateATAInstruction looks at the depositor's account.              *)
getForceWithdrawIx(world, mint) ==
    LET account == TokenAccount(mint, "token") IN
    Plan({VaultDepositor}, If(account \notin world, <<Creates({}, account)>>) \o <<Fills(account)>>)

(* mint: of the tokenized shares.                                           *)
createTokenizeSharesIx(world, mint) ==
    LET account == TokenAccount(mint, "token") IN
    Plan({VaultDepositor}, If(account \notin world, <<Creates({}, account)>>) \o <<Fills(account)>>)
createRedeemTokensIx(mint) ==
    LET account == TokenAccount(mint, "token") IN
    Plan({VaultDepositor, account, Funded(account)}, <<Pays(account)>>)

(* The manager's withdrawals create and wrap nothing.                       *)
managerWithdraw(mint) ==
    LET account == TokenAccount(mint, "token") IN Plan({account}, <<Fills(account)>>)
protocolWithdraw(mint) == managerWithdraw(mint)

-----------------------------------------------------------------------------
(* Where a caller has tokens: an account of the mint, the wallet for SOL.    *)
Sources(mint) == {getAssociatedTokenAccount(mint)} \cup {Wallet : m \in {mint} \cap {WrappedSol}}

NewUserPlans(world) ==
    LET fresh == {s \in SubAccounts : UserOf(s) \notin world} IN
    {initializeUserAccount(world, s) : s \in fresh}
    \cup {initializeUserAccountForDevnet(world, m, s) :
            m \in {m \in Mint \ Token2022 : TokenAccount(m, "token") \notin world}, s \in fresh}
    \cup UNION {{createInitializeUserAccountAndDepositCollateralIxs(world, m, a, s, from, donation) :
                   a \in Sources(m), from \in {{}} \cup {{f} : f \in SubAccounts \ {s}},
                   donation \in BOOLEAN} : m \in Mint, s \in fresh}

MintPlans(world, m) ==
    {getDepositTxnIx(m, a, s) : a \in Sources(m), s \in SubAccounts}
    \cup {getWithdrawalIxs(world, m, a, s) : a \in Sources(m), s \in SubAccounts}
    \cup {addInsuranceFundStake(world, m, a, b) : a \in Sources(m), b \in BOOLEAN}
    \cup {removeInsuranceFundStake(world, m, a) : a \in Sources(m)}
    \cup {getJupiterSwapIxV6(world, m, other) : other \in Mint \ {m}}
    \cup {getJupiterSwapIx(world, m, other) :
            other \in {o \in Mint \ {m} : getTokenProgramForSpotMarket(o) = getTokenProgramForSpotMarket(m)}}

(* Plans of mints whose accounts are derived with the token program.         *)
TokenProgramPlans(world, m) ==
    {withdrawAllDustPositions(world, m, s) : s \in SubAccounts}
    \cup {withdraw(world, m), getForceWithdrawIx(world, m), createTokenizeSharesIx(world, m),
          createRedeemTokensIx(m), managerDeposit(m), managerWithdraw(m), protocolWithdraw(m)}
    \cup {createDepositTx(m, VaultDepositor \notin world)}

Plans(world) ==
    NewUserPlans(world) \cup {getStakeForMSOLIx(world)}
    \cup UNION {MintPlans(world, m) : m \in Mint}
    \cup UNION {TokenProgramPlans(world, m) : m \in Mint \ Token2022}

Accounts == {getAssociatedTokenAccount(m) : m \in Mint} \cup {Stake(m) : m \in Mint}
            \cup {UserOf(s) : s \in SubAccounts} \cup {UserStats, VaultDepositor}

VARIABLE world      \* the accounts that exist, and which hold tokens

Init == world = {}

(* A plan is built for the accounts that exist and runs.                    *)
Transact == \E plan \in Plans(world) :
    /\ plan.given \subseteq world
    /\ world' = Run(world, plan.steps)

(* From outside: tokens arrive, in an account that is opened for them, or    *)
(* the owner empties and closes a token account.                            *)
TokensArrive(m) ==
    LET a == getAssociatedTokenAccount(m) IN world' = world \cup {a, Funded(a)}
AccountClosed(m) ==
    LET a == getAssociatedTokenAccount(m) IN a \in world /\ world' = world \ {a, Funded(a)}

Next == Transact \/ \E m \in Mint : TokensArrive(m) \/ AccountClosed(m)

Spec == Init /\ [][Next]_world

(* Every plan built for the accounts that exist runs to its end on them,     *)
(* whichever of the accounts it looks for are missing: each account is there *)
(* when it is used and none is created twice.  The temporary account with    *)
(* the wrapped SOL is closed, and no account of the caller's is lost.        *)
(* Not claimed, for the code does not do it: dust of a Token-2022 mint, the  *)
(* first version of the Jupiter swap between mints of two token programs, a  *)
(* devnet account whose token account exists.                               *)
PlansRun ==
    \A plan \in Plans(world) :
        plan.given \subseteq world =>
            LET end == Run(world, plan.steps) IN
            /\ end # Failed
            /\ Temporary \notin end
            /\ world \cap Accounts \subseteq end
=============================================================================
