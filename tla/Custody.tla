------------------------------ MODULE Custody ------------------------------
(***************************************************************************)
(* Vaults, custody proofs, collateral bookkeeping, encrypted risk checks   *)
(* and the circuit breaker: register_vault, verify_custody_proof,          *)
(* refresh_custody_proof, deposit_collateral, withdraw_collateral,         *)
(* reject_unverified_deposit, circuit_breaker, *_risk_*, close_vault.      *)
(*                                                                         *)
(* A vault is the PDA of one (owner, dwallet_id) pair, so an element of    *)
(* Vaults fixes both; the account at that address may be closed and        *)
(* registered again.  The Ika approval handed to verify and refresh is an  *)
(* external account: the signer presents one that parse_message_approval   *)
(* accepts, or the transaction fails.  Ciphertext keys are abstracted to   *)
(* "set or still the default key".                                         *)
(***************************************************************************)
EXTENDS Protocol, AccountSum

CONSTANTS
    Vaults,
    OwnerOf,                 \* the owner in each vault's PDA seeds
    Assets, NoAsset,
    RENT,                    \* rent.minimum_balance(VaultAccount::LEN)
    Amounts,                 \* collateral amounts callers pass
    Thresholds,              \* whether a threshold ciphertext key is passed
    MaxDeposit, MaxRejected, MaxLamports   \* bounds

ASSUME CustodyAssumption ==
    /\ OwnerOf \in [Vaults -> Users]
    /\ NoAsset \notin Assets
    /\ PROOF_EXPIRY_SECONDS \in Nat
    /\ RENT \in Nat
    /\ Amounts \subseteq Nat
    /\ Thresholds \subseteq BOOLEAN
    /\ {MaxDeposit, MaxVaults, MaxRejected, MaxLamports} \subseteq Nat
    /\ IsFiniteSet(Vaults)

VARIABLES
    vault,                   \* VaultAccount at each vault address
    lamports,                \* lamports held by each vault address
    risk                     \* RiskStateAccount of each vault address

custodyVars == <<vault, lamports, risk>>

NoVault == [live |-> FALSE, asset_type |-> NoAsset, deposited_amount |-> 0,
            proof_status |-> PENDING, proof_timestamp |-> 0, frozen |-> FALSE]

NoRisk == [live |-> FALSE, backing |-> FALSE, threshold |-> FALSE,
           last_check_result |-> TRUE]

VaultAccount ==
    [live : BOOLEAN, asset_type : Assets \cup {NoAsset},
     deposited_amount : Nat, proof_status : {PENDING, VERIFIED, EXPIRED},
     proof_timestamp : Nat, frozen : BOOLEAN]

RiskAccount ==
    [live : BOOLEAN, backing : BOOLEAN, threshold : BOOLEAN,
     last_check_result : BOOLEAN]

CustodyType ==
    /\ vault \in [Vaults -> VaultAccount]
    /\ lamports \in [Vaults -> Nat]
    /\ risk \in [Vaults -> RiskAccount]

CustodyInit ==
    /\ vault = [v \in Vaults |-> NoVault]
    /\ lamports = [v \in Vaults |-> 0]
    /\ risk = [v \in Vaults |-> NoRisk]

ProofFresh(v) == now - vault[v].proof_timestamp <= PROOF_EXPIRY_SECONDS

----------------------------------------------------------------------------
(* Vault lifecycle and custody proofs *)

\* Anchor's init tops the new account up to the rent-exempt minimum.
RegisterVault(v, asset) ==
    /\ protocol.live
    /\ ~vault[v].live
    /\ protocol.total_vaults < MaxVaults
    /\ vault' = [vault EXCEPT ![v] =
                   [NoVault EXCEPT !.live = TRUE, !.asset_type = asset]]
    /\ lamports' = [lamports EXCEPT ![v] = IF @ < RENT THEN RENT ELSE @]
    /\ protocol' = [protocol EXCEPT !.total_vaults = @ + 1]
    /\ UNCHANGED <<clockVars, risk>>

\* EXPIRED is accepted here, but no instruction ever writes it.
VerifyCustodyProof(v, signer) ==
    /\ vault[v].live
    /\ vault[v].proof_status \in {PENDING, EXPIRED}
    /\ signer = OwnerOf[v]
    /\ vault' = [vault EXCEPT ![v] =
                    [@ EXCEPT !.proof_status = VERIFIED,
                              !.proof_timestamp = now]]
    /\ UNCHANGED <<clockVars, protocol, lamports, risk>>

\* Mutated form: refreshes a proof of any age.
RefreshLapsedProof(v, signer) ==
    /\ vault[v].live
    /\ vault[v].proof_status = VERIFIED
    /\ signer = OwnerOf[v]
    /\ vault' = [vault EXCEPT ![v].proof_timestamp = now]
    /\ UNCHANGED <<clockVars, protocol, lamports, risk>>

RefreshCustodyProof(v, signer) ==
    /\ vault[v].live
    /\ vault[v].proof_status = VERIFIED
    /\ signer = OwnerOf[v]
    /\ ProofFresh(v)
    /\ vault' = [vault EXCEPT ![v].proof_timestamp = now]
    /\ UNCHANGED <<clockVars, protocol, lamports, risk>>

\* Mutated form: closes a vault that still records a deposit.
CloseVaultWithDeposit(v, signer) ==
    /\ vault[v].live
    /\ signer = OwnerOf[v]
    /\ vault' = [vault EXCEPT ![v] = NoVault]
    /\ lamports' = [lamports EXCEPT ![v] = 0]
    /\ UNCHANGED <<clockVars, protocol, risk>>

\* The account's lamports all go back to the owner.
CloseVault(v, signer) ==
    /\ vault[v].live
    /\ signer = OwnerOf[v]
    /\ vault[v].deposited_amount = 0
    /\ vault' = [vault EXCEPT ![v] = NoVault]
    /\ lamports' = [lamports EXCEPT ![v] = 0]
    /\ UNCHANGED <<clockVars, protocol, risk>>

\* A plain SOL transfer to a vault address.  No instruction makes one:
\* deposit_collateral records an amount and moves nothing.
FundVault(v, amount) ==
    /\ amount > 0
    /\ lamports[v] + amount <= MaxLamports
    /\ lamports' = [lamports EXCEPT ![v] = @ + amount]
    /\ UNCHANGED <<clockVars, protocol, vault, risk>>

----------------------------------------------------------------------------
(* Collateral bookkeeping *)

\* What deposit_collateral requires.
MayDeposit(v, signer, amount) ==
    /\ protocol.live /\ vault[v].live
    /\ signer = OwnerOf[v]
    /\ vault[v].proof_status = VERIFIED
    /\ ~protocol.frozen
    /\ ~vault[v].frozen
    /\ amount > 0
    /\ ProofFresh(v)

\* Mutated form: the protocol's total is not told of the deposit.
DepositUncounted(v, signer, amount) ==
    /\ MayDeposit(v, signer, amount)
    /\ protocol.total_collateral_verified + amount <= MaxDeposit
    /\ vault' = [vault EXCEPT ![v].deposited_amount = @ + amount]
    /\ UNCHANGED <<clockVars, protocol, lamports, risk>>

DepositCollateral(v, signer, amount) ==
    /\ MayDeposit(v, signer, amount)
    /\ protocol.total_collateral_verified + amount <= MaxDeposit
    /\ vault' = [vault EXCEPT ![v].deposited_amount = @ + amount]
    /\ protocol' = [protocol EXCEPT !.total_collateral_verified = @ + amount]
    /\ UNCHANGED <<clockVars, lamports, risk>>

\* Mutated forms: no check against the recorded deposit; a frozen vault cannot
\* be emptied either; the global freeze is ignored.
WithdrawUnchecked(v, amount) == ~protocol.frozen /\ amount > 0

WithdrawUnlessFrozen(v, amount) ==
    ~protocol.frozen /\ ~vault[v].frozen
      /\ amount \in 1..vault[v].deposited_amount

WithdrawWhileFrozen(v, amount) == amount \in 1..vault[v].deposited_amount

WithdrawAllowed(v, amount) ==
    ~protocol.frozen /\ amount > 0 /\ amount <= vault[v].deposited_amount

\* A frozen vault may still be emptied; a frozen protocol may not.  The last
\* conjunct is the checked_sub on the protocol total.
MayWithdraw(v, signer, amount) ==
    /\ protocol.live /\ vault[v].live
    /\ signer = OwnerOf[v]
    /\ WithdrawAllowed(v, amount)
    /\ protocol.total_collateral_verified >= amount

WithdrawCollateral(v, signer, amount) ==
    /\ MayWithdraw(v, signer, amount)
    /\ vault' = [vault EXCEPT ![v].deposited_amount = @ - amount]
    /\ protocol' = [protocol EXCEPT !.total_collateral_verified = @ - amount]
    /\ UNCHANGED <<clockVars, lamports, risk>>

RejectUnverifiedDeposit(v, signer) ==
    /\ vault[v].live
    /\ IsAdmin(signer)
    /\ protocol.total_rejected < MaxRejected
    /\ protocol' = [protocol EXCEPT !.total_rejected = @ + 1]
    /\ UNCHANGED <<clockVars, custodyVars>>

----------------------------------------------------------------------------
(* Risk checks and the circuit breaker *)

InitializeRiskState(v, signer, threshold) ==
    /\ vault[v].live
    /\ signer = OwnerOf[v]
    /\ ~risk[v].live
    /\ risk' = [risk EXCEPT ![v] =
                  [live |-> TRUE, backing |-> FALSE, threshold |-> threshold,
                   last_check_result |-> TRUE]]
    /\ UNCHANGED <<clockVars, protocol, vault, lamports>>

UpdateBackingState(v, signer) ==
    /\ protocol.live /\ vault[v].live /\ risk[v].live
    /\ IsAdmin(signer) \/ signer = OwnerOf[v]
    /\ risk' = [risk EXCEPT ![v].backing = TRUE]
    /\ UNCHANGED <<clockVars, protocol, vault, lamports>>

\* What trigger_risk_check requires.
MayCheck(v, signer) ==
    /\ protocol.live /\ vault[v].live /\ risk[v].live
    /\ IsAdmin(signer) \/ signer = OwnerOf[v]
    /\ risk[v].backing /\ risk[v].threshold

\* Mutated form: a safe verdict clears the freeze.
TriggerLiftingFreeze(v, signer, isSafe) ==
    /\ MayCheck(v, signer)
    /\ vault' = [vault EXCEPT ![v].frozen = ~isSafe]
    /\ protocol' = [protocol EXCEPT !.frozen = ~isSafe]
    /\ risk' = [risk EXCEPT ![v].last_check_result = isSafe]
    /\ UNCHANGED <<clockVars, lamports>>

\* isSafe is what read_mocked_ebool returns for the result account the caller
\* passed; an unsafe result freezes the vault and the protocol.
TriggerRiskCheck(v, signer, isSafe) ==
    /\ MayCheck(v, signer)
    /\ vault' = [vault EXCEPT ![v].frozen = @ \/ ~isSafe]
    /\ protocol' = [protocol EXCEPT !.frozen = @ \/ ~isSafe]
    /\ risk' = [risk EXCEPT ![v].last_check_result = isSafe]
    /\ UNCHANGED <<clockVars, lamports>>

CircuitBreakerFreeze(v, signer) ==
    /\ vault[v].live
    /\ IsAdmin(signer)
    /\ vault' = [vault EXCEPT ![v].frozen = TRUE]
    /\ protocol' = [protocol EXCEPT !.frozen = TRUE]
    /\ UNCHANGED <<clockVars, lamports, risk>>

\* Clears the vault's flag only; the global one has its own instruction.
AdminUnfreeze(v, signer) ==
    /\ vault[v].live
    /\ IsAdmin(signer)
    /\ vault' = [vault EXCEPT ![v].frozen = FALSE]
    /\ UNCHANGED <<clockVars, protocol, lamports, risk>>

----------------------------------------------------------------------------

\* One step of one vault, whoever signs it.
VaultStep(v) ==
    \/ \E asset \in Assets : RegisterVault(v, asset)
    \/ \E amount \in Amounts : FundVault(v, amount)
    \/ \E signer \in Users :
         \/ VerifyCustodyProof(v, signer)
         \/ RefreshCustodyProof(v, signer)
         \/ CloseVault(v, signer)
         \/ \E amount \in Amounts : DepositCollateral(v, signer, amount)
         \/ \E amount \in Amounts : WithdrawCollateral(v, signer, amount)
         \/ RejectUnverifiedDeposit(v, signer)
         \/ \E set \in Thresholds : InitializeRiskState(v, signer, set)
         \/ UpdateBackingState(v, signer)
         \/ \E isSafe \in BOOLEAN : TriggerRiskCheck(v, signer, isSafe)
         \/ CircuitBreakerFreeze(v, signer)
         \/ AdminUnfreeze(v, signer)

ProtocolStep ==
    \/ \E admin \in Deployers : InitializeProtocol(admin)
    \/ \E signer \in Users : UnfreezeProtocolState(signer)

CustodyNext ==
    \/ Tick /\ UNCHANGED custodyVars
    \/ ProtocolStep /\ UNCHANGED custodyVars
    \/ \E v \in Vaults : VaultStep(v)

CustodyTouched == <<clockVars, protocol, custodyVars>>

CustodyStart == ProtocolInit /\ CustodyInit

CustodySpec == CustodyStart /\ [][CustodyNext]_CustodyTouched

----------------------------------------------------------------------------
(* Properties of the custody half on its own, without lending *)

Deposits == [v \in Vaults |-> vault[v].deposited_amount]

CustodyTypeOK == ProtocolType /\ CustodyType

\* As long as nothing is liquidated, the protocol's collateral total is
\* exactly the sum of the recorded deposits: deposits, withdrawals and vaults
\* that are closed and registered again keep the two in step.
CollateralTotalExact ==
    protocol.total_collateral_verified = SumOver(Vaults, Deposits)

\* Whatever its proof and its own frozen flag say, an owner can take out the
\* recorded deposit, all of it in one call or any part, unless the protocol is
\* frozen.
ExitOpen ==
    ~protocol.frozen =>
      \A v \in Vaults : \A amount \in 1..vault[v].deposited_amount :
        MayWithdraw(v, OwnerOf[v], amount)

ProofLapsed(v) ==
    vault[v].live /\ vault[v].proof_status = VERIFIED /\ ~ProofFresh(v)

\* A proof that lapses while the vault is marked verified is never renewed:
\* as long as the account exists it stays lapsed and takes no more deposits.
LapseIsFinal ==
    [][\A v \in Vaults :
         ProofLapsed(v) /\ vault'[v].live
           => /\ ProofLapsed(v)'
              /\ Deposits'[v] <= Deposits[v]]_CustodyTouched

\* A safe verdict never lifts a freeze: a frozen vault thaws by a call that
\* leaves verdicts and the global flag alone, and the global flag clears by a
\* call that leaves every vault alone.
FreezeOutlastsVerdicts ==
    [][/\ \A v \in Vaults :
            vault[v].frozen /\ vault'[v].live /\ ~vault'[v].frozen
              => risk' = risk /\ protocol' = protocol
       /\ protocol.frozen /\ ~protocol'.frozen
            => risk' = risk /\ vault' = vault]_CustodyTouched
=============================================================================
