----------------------------- MODULE BtcLending -----------------------------
(***************************************************************************)
(* Borrowing against Bitcoin testnet vaults: register_btc_vault,           *)
(* attest_btc_balance, verify_ and refresh_btc_custody_proof, and          *)
(* btc_lending.rs, on the pool that SOL-side borrowers share.  A           *)
(* liquidation has two phases: liquidate_btc_position pays the debt and    *)
(* commits a Bitcoin sighash, finalize_btc_liquidation thaws the vault     *)
(* once the keeper has seen the Bitcoin transaction.                       *)
(*                                                                         *)
(* A vault is the PDA of one (owner, Ika dWallet) pair and is never        *)
(* closed.  Not modelled: deposited_satoshis, last_attestation_slot and    *)
(* the block height and hash of an attestation, which no instruction       *)
(* reads; the shape of Bitcoin addresses and keys.                         *)
(***************************************************************************)
EXTENDS Pool, AccountSum

CONSTANTS
    BtcVaults,
    BtcOwnerOf,                \* the owner in each vault's PDA seeds
    BTC,                       \* ASSET_BTC
    SATOSHIS_PER_BTC,
    BTC_ATTESTATION_MAX_AGE_SECONDS,
    BTC_LIQUIDATION_MIN_CONFIRMATIONS,
    U64_MAX,                   \* the amount that means "everything"
    DemoPayers,                \* signers who create demo approvals
    BtcBorrowAmounts, BtcRepayAmounts   \* LGUSD amounts callers pass

ASSUME BtcAssumption ==
    /\ IsFiniteSet(BtcVaults)
    /\ BtcOwnerOf \in [BtcVaults -> Users]
    /\ BTC \in PriceAssets
    /\ PROOF_EXPIRY_SECONDS \in Nat
    /\ SATOSHIS_PER_BTC \in Nat \ {0}
    /\ BTC_ATTESTATION_MAX_AGE_SECONDS \in Nat
    /\ BTC_LIQUIDATION_MIN_CONFIRMATIONS \in Nat \ {0}
    /\ U64_MAX \in Nat \ {0}
    /\ DemoPayers \subseteq Users
    /\ BtcBorrowAmounts \subseteq Nat
    /\ BtcRepayAmounts \subseteq Nat

VARIABLES
    btcVault,                  \* BtcVaultAccount at each address
    attestation,               \* its BitcoinBalanceAttestation
    btcPositions,              \* vaults that have a BTC BorrowPosition
    btcPrincipal,              \* its scaled debt; 0 where there is none
    approvals                  \* Ika MessageApprovals for each dWallet

btcVars == <<btcVault, attestation, btcPositions, btcPrincipal, approvals>>
btcAll == <<clockVars, protocol, poolVars, btcVars>>

NoBtcVault == [live |-> FALSE, proof_status |-> PENDING, proof_timestamp |-> 0,
               frozen |-> FALSE, liquidation_initiated_at |-> 0]

NoAttestation == [satoshis |-> 0, attested_at_unix |-> 0]

\* `demo` is when each payer's demo approval was made, 0 if it was not;
\* `ika` says that a real approval is signed, `sighash` how far the approval
\* of the committed liquidation is.
NoApprovals == [demo |-> [p \in DemoPayers |-> 0], ika |-> FALSE,
                sighash |-> "none"]

BtcVaultAccount ==
    [live : BOOLEAN, proof_status : {PENDING, VERIFIED, EXPIRED},
     proof_timestamp : Nat, frozen : BOOLEAN, liquidation_initiated_at : Nat]

BtcType ==
    /\ btcVault \in [BtcVaults -> BtcVaultAccount]
    /\ attestation \in [BtcVaults -> [satoshis : Nat, attested_at_unix : Nat]]
    /\ btcPositions \subseteq BtcVaults
    /\ btcPrincipal \in [BtcVaults -> Nat]
    /\ approvals \in [BtcVaults -> [demo : [DemoPayers -> Nat], ika : BOOLEAN,
                                    sighash : {"none", "pending", "signed"}]]

BtcTypeOK == ProtocolType /\ PoolType /\ BtcType

BtcInit ==
    /\ btcVault = [v \in BtcVaults |-> NoBtcVault]
    /\ attestation = [v \in BtcVaults |-> NoAttestation]
    /\ btcPositions = {}
    /\ btcPrincipal = [v \in BtcVaults |-> 0]
    /\ approvals = [v \in BtcVaults |-> NoApprovals]

----------------------------------------------------------------------------
(* Ika approvals of a dWallet *)

\* demo_create_message_approval: one account per payer and dWallet, created
\* once and never changed or closed.  (The instruction may also record an
\* unsigned one, which no parser accepts; the client never does.)
DemoCreateMessageApproval(v, payer) ==
    /\ payer \in DemoPayers
    /\ approvals[v].demo[payer] = 0
    /\ approvals' = [approvals EXCEPT ![v].demo[payer] = now]
    /\ UNCHANGED <<clockVars, protocol, poolVars, btcVault, attestation,
                   btcPositions, btcPrincipal>>

\* A custody approval requested by the owner through Ika, signed by its
\* network.
IkaCustodyApproval(v) ==
    /\ ~approvals[v].ika
    /\ approvals' = [approvals EXCEPT ![v].ika = TRUE]
    /\ UNCHANGED <<clockVars, protocol, poolVars, btcVault, attestation,
                   btcPositions, btcPrincipal>>

\* The Ika network signs the committed sighash.
IkaSignsSighash(v) ==
    /\ approvals[v].sighash = "pending"
    /\ approvals' = [approvals EXCEPT ![v] =
                        [@ EXCEPT !.sighash = "signed",
                                  !.ika = TRUE]]
    /\ UNCHANGED <<clockVars, protocol, poolVars, btcVault, attestation,
                   btcPositions, btcPrincipal>>

\* parse_message_approval_for_btc_dwallet on the best account a caller has: a
\* signed Ika approval of this dWallet never ages, a demo one does.
ApprovalFor(v) ==
    \/ approvals[v].ika
    \/ \E p \in DemoPayers :
         /\ approvals[v].demo[p] > 0
         /\ now - approvals[v].demo[p] <= PROOF_EXPIRY_SECONDS

----------------------------------------------------------------------------
(* Vaults, proofs, attestations *)

RegisterBtcVault(v) ==
    /\ protocol.live
    /\ ~btcVault[v].live
    /\ protocol.total_vaults < MaxVaults
    /\ btcVault' = [btcVault EXCEPT ![v] = [NoBtcVault EXCEPT !.live = TRUE]]
    /\ attestation' = [attestation EXCEPT ![v] = NoAttestation]
    /\ protocol' = [protocol EXCEPT !.total_vaults = @ + 1]
    /\ UNCHANGED <<clockVars, poolVars, btcPositions, btcPrincipal, approvals>>

VerifyBtcCustodyProof(v, signer) ==
    /\ btcVault[v].live
    /\ signer = BtcOwnerOf[v]
    /\ btcVault[v].proof_status \in {PENDING, EXPIRED}
    /\ ApprovalFor(v)
    /\ btcVault' = [btcVault EXCEPT ![v] =
                       [@ EXCEPT !.proof_status = VERIFIED,
                                 !.proof_timestamp = now]]
    /\ UNCHANGED <<clockVars, protocol, poolVars, attestation, btcPositions,
                   btcPrincipal, approvals>>

\* Unlike its SOL-side counterpart it renews a proof of any age.
RefreshBtcCustodyProof(v, signer) ==
    /\ btcVault[v].live
    /\ signer = BtcOwnerOf[v]
    /\ btcVault[v].proof_status = VERIFIED
    /\ ApprovalFor(v)
    /\ btcVault' = [btcVault EXCEPT ![v].proof_timestamp = now]
    /\ UNCHANGED <<clockVars, protocol, poolVars, attestation, btcPositions,
                   btcPrincipal, approvals>>

\* Overwrites whatever is recorded, at any time.
AttestBtcBalance(v, keeper, satoshis) ==
    /\ btcVault[v].live
    /\ IsAdmin(keeper)
    /\ attestation' = [attestation EXCEPT ![v] =
                         [satoshis |-> satoshis, attested_at_unix |-> now]]
    /\ UNCHANGED <<clockVars, protocol, poolVars, btcVault, btcPositions,
                   btcPrincipal, approvals>>

----------------------------------------------------------------------------
(* Loans *)

BtcProofFresh(v) == now - btcVault[v].proof_timestamp <= PROOF_EXPIRY_SECONDS

\* Mutated form: an attestation of any age counts.
AttestationOfAnyAge(v) == attestation[v].satoshis >= 0

AttestationFresh(v) ==
    now - attestation[v].attested_at_unix <= BTC_ATTESTATION_MAX_AGE_SECONDS

MaxBtcBorrow(satoshis, price) == MaxBorrow(satoshis, price, SATOSHIS_PER_BTC)

IsBtcLiquidatable(satoshis, price, debt) ==
    IsLiquidatable(satoshis, price, debt, SATOSHIS_PER_BTC)

DebtToSatoshis(debt, price) ==
    ((debt * PRICE_DECIMALS * SATOSHIS_PER_BTC) \div BORROW_ASSET_DECIMALS)
      \div price

\* Room in the pool; the code's checked_sub rejects the transaction when
\* interest has pushed the debt above total_liquidity.
BtcAvailable == pool.total_liquidity - DebtOf(pool.total_borrowed)

\* Mutated form: the global freeze does not reach Bitcoin loans.
MayBorrowWhileFrozen(v) ==
    ~btcVault[v].frozen /\ btcVault[v].liquidation_initiated_at = 0

MayBorrow(v) ==
    /\ ~protocol.frozen
    /\ ~btcVault[v].frozen
    /\ btcVault[v].liquidation_initiated_at = 0

BorrowAgainstBtcCollateral(v, signer, amount) ==
    /\ protocol.live /\ pool.live /\ btcVault[v].live
    /\ signer = BtcOwnerOf[v]
    /\ v \notin btcPositions
    /\ amount > 0
    /\ MayBorrow(v)
    /\ btcVault[v].proof_status = VERIFIED
    /\ attestation[v].satoshis > 0
    /\ BtcProofFresh(v)
    /\ AttestationFresh(v)
    /\ PriceFresh(BTC)
    /\ amount <= MaxBtcBorrow(attestation[v].satoshis, feed[BTC].price_usd)
    /\ amount <= BtcAvailable
    /\ LET scaled == ToScaled(amount, Accrued.borrow_index)
       IN  /\ pool' = [Accrued EXCEPT !.total_borrowed = @ + scaled]
           /\ btcPrincipal' = [btcPrincipal EXCEPT ![v] = scaled]
    /\ btcPositions' = btcPositions \cup {v}
    /\ Pay(PoolVault, signer, amount)
    /\ UNCHANGED <<clockVars, protocol, feed, btcVault, attestation, approvals>>

\* What a repayment of `amount` moves: everything means whatever the owner
\* has, up to the debt.
BtcPaid(v, amount) ==
    LET owed == DebtOf(btcPrincipal[v])
    IN  IF amount = U64_MAX
        THEN Smaller(tokens[BtcOwnerOf[v]], owed)
        ELSE Smaller(amount, owed)

\* Mutated form: any repayment of a dust loan's worth forgives the rest.
ForgivesPartialRepayment(v, amount) == btcPrincipal[v]

\* The scaled debt it removes: asking to repay everything wipes the whole
\* principal even when the owner's tokens do not cover it.
BtcSlice(v, amount) ==
    IF amount = U64_MAX \/ BtcPaid(v, amount) = DebtOf(btcPrincipal[v])
    THEN btcPrincipal[v]
    ELSE Smaller(ToScaled(BtcPaid(v, amount), Accrued.borrow_index),
                 btcPrincipal[v])

BtcPositionsAfter(v, slice) ==
    IF btcPrincipal[v] = slice THEN btcPositions \ {v} ELSE btcPositions

\* What repay_btc_borrow requires; the last two conjuncts are the transfer's
\* and the checked_sub on total_borrowed.
MayRepayBtc(v, signer, amount) ==
    /\ pool.live /\ btcVault[v].live
    /\ v \in btcPositions
    /\ signer = BtcOwnerOf[v]
    /\ amount > 0
    /\ DebtOf(btcPrincipal[v]) > 0
    /\ BtcPaid(v, amount) > 0
    /\ tokens[signer] >= BtcPaid(v, amount)
    /\ pool.total_borrowed >= BtcSlice(v, amount)

RepayBtcBorrow(v, signer, amount) ==
    /\ MayRepayBtc(v, signer, amount)
    /\ LET slice == BtcSlice(v, amount)
       IN  /\ pool' = [Accrued EXCEPT !.total_borrowed = @ - slice]
           /\ btcPrincipal' = [btcPrincipal EXCEPT ![v] = @ - slice]
           /\ btcPositions' = BtcPositionsAfter(v, slice)
    /\ Pay(signer, PoolVault, BtcPaid(v, amount))
    /\ UNCHANGED <<clockVars, protocol, feed, btcVault, attestation, approvals>>

----------------------------------------------------------------------------
(* Liquidation in two phases *)

\* Satoshis a liquidator is promised for the debt it pays; they move on
\* Bitcoin, nothing on Solana records them.
SeizedSatoshis(v) ==
    LET satoshis == DebtToSatoshis(DebtOf(btcPrincipal[v]), feed[BTC].price_usd)
    IN  Smaller((satoshis * (BASIS_POINTS + BonusBps)) \div BASIS_POINTS,
                attestation[v].satoshis)

\* Mutated form: the pool forgets that a liquidated loan is paid.
StillBooked(v) == Accrued

\* The pool once v's whole debt is paid.
Booked(v) == [Accrued EXCEPT !.total_borrowed = @ - btcPrincipal[v]]

\* Mutated form: closes the position with the debt.
BtcPositionsAfterLiquidation(v) == btcPositions \ {v}

\* The empty position stays: finalize_btc_liquidation closes it.
BtcPositionsLiquidated(v) == btcPositions

\* The Ika CPI creates a fresh approval for the committed sighash.
LiquidateBtcPosition(v, liquidator) ==
    /\ protocol.live /\ pool.live /\ btcVault[v].live
    /\ v \in btcPositions
    /\ ~protocol.frozen
    /\ btcPrincipal[v] > 0
    /\ liquidator # BtcOwnerOf[v]
    /\ btcVault[v].liquidation_initiated_at = 0
    /\ AttestationFresh(v)
    /\ PriceFresh(BTC)
    /\ IsBtcLiquidatable(attestation[v].satoshis, feed[BTC].price_usd,
                         DebtOf(btcPrincipal[v]))
    /\ Pay(liquidator, PoolVault, DebtOf(btcPrincipal[v]))
    /\ pool.total_borrowed >= btcPrincipal[v]
    /\ pool' = Booked(v)
    /\ btcPrincipal' = [btcPrincipal EXCEPT ![v] = 0]
    /\ btcPositions' = BtcPositionsLiquidated(v)
    /\ btcVault' = [btcVault EXCEPT ![v] =
                       [@ EXCEPT !.frozen = TRUE,
                                 !.liquidation_initiated_at = now]]
    /\ approvals' = [approvals EXCEPT ![v].sighash = "pending"]
    /\ UNCHANGED <<clockVars, protocol, feed, attestation>>

\* Mutated form: makes the proof just too old instead of clearing it.
ThawedBackdated(v) ==
    [btcVault EXCEPT ![v] =
        [@ EXCEPT !.proof_timestamp = now - PROOF_EXPIRY_SECONDS - 1,
                  !.frozen = FALSE,
                  !.liquidation_initiated_at = 0]]

\* The vault after a finalized liquidation: its owner has to prove custody
\* again.
Thawed(v) ==
    [btcVault EXCEPT ![v] =
        [@ EXCEPT !.proof_status = PENDING,
                  !.proof_timestamp = 0,
                  !.frozen = FALSE,
                  !.liquidation_initiated_at = 0]]

MayFinalize(v, keeper, confirmations) ==
    /\ btcVault[v].live
    /\ v \in btcPositions
    /\ IsAdmin(keeper)
    /\ btcVault[v].liquidation_initiated_at > 0
    /\ confirmations >= BTC_LIQUIDATION_MIN_CONFIRMATIONS
    /\ btcPrincipal[v] = 0

\* The Bitcoin transaction id the keeper passes is only logged.
FinalizeBtcLiquidation(v, keeper, confirmations, remaining) ==
    /\ MayFinalize(v, keeper, confirmations)
    /\ btcVault' = Thawed(v)
    /\ attestation' = [attestation EXCEPT ![v] =
                         [satoshis |-> remaining, attested_at_unix |-> now]]
    /\ btcPositions' = btcPositions \ {v}
    /\ approvals' = [approvals EXCEPT ![v].sighash = "none"]
    /\ UNCHANGED <<clockVars, protocol, poolVars, btcPrincipal>>

----------------------------------------------------------------------------

\* What owners and Ika do.
BtcVaultStep(v) ==
    \/ RegisterBtcVault(v)
    \/ IkaCustodyApproval(v)
    \/ IkaSignsSighash(v)
    \/ \E signer \in Users :
         \/ DemoCreateMessageApproval(v, signer)
         \/ VerifyBtcCustodyProof(v, signer)
         \/ RefreshBtcCustodyProof(v, signer)
         \/ \E amount \in BtcBorrowAmounts :
              BorrowAgainstBtcCollateral(v, signer, amount)
         \/ \E amount \in BtcRepayAmounts : RepayBtcBorrow(v, signer, amount)

\* Every instruction and the clock, whoever sends them.
BtcNext ==
    \/ Tick /\ UNCHANGED <<poolVars, btcVars>>
    \/ \E user \in Users :
         \/ InitializeProtocol(user) /\ UNCHANGED <<poolVars, btcVars>>
         \/ UnfreezeProtocolState(user) /\ UNCHANGED <<poolVars, btcVars>>
    \/ PoolStep /\ UNCHANGED btcVars
    \/ \E v \in BtcVaults :
         \/ BtcVaultStep(v)
         \/ \E user \in Users :
              \/ LiquidateBtcPosition(v, user)
              \/ \E satoshis, confirmations \in Nat :
                   \/ AttestBtcBalance(v, user, satoshis)
                   \/ FinalizeBtcLiquidation(v, user, confirmations, satoshis)

BtcSpec == ProtocolInit /\ PoolInit /\ BtcInit /\ [][BtcNext]_btcAll

----------------------------------------------------------------------------
(* Safety *)

\* pool.total_borrowed is the sum of the principals of the Bitcoin loans, also
\* when a borrower repays "everything" with fewer tokens than are owed, as
\* long as all loans are Bitcoin loans (LendGuard's TotalLedger has both).
BtcDebtLedger == pool.total_borrowed = SumOver(BtcVaults, btcPrincipal)

\* A frozen Bitcoin vault is always one whose liquidation can be finalized: no
\* admin instruction thaws it, so its flag, the liquidation's time and the
\* empty position that finalize_btc_liquidation loads must stand and fall
\* together, whatever owners, keepers and liquidators do in between.
FrozenIsRecoverable ==
    \A v \in BtcVaults :
      /\ btcVault[v].frozen <=> btcVault[v].liquidation_initiated_at > 0
      /\ btcVault[v].frozen =>
           MayFinalize(v, protocol.admin, BTC_LIQUIDATION_MIN_CONFIRMATIONS)

\* Scaled debt and its position exist only together, and no Bitcoin debt is
\* owed by a vault that was never registered or to a pool that does not exist.
BtcDebtHasAPosition ==
    \A v \in BtcVaults :
      /\ v \in btcPositions => btcVault[v].live /\ pool.live
      /\ btcPrincipal[v] > 0 => v \in btcPositions

\* No time the Bitcoin side stores runs ahead of the clock, so that none of
\* its age subtractions is rejected.
BtcClocksBehind ==
    /\ pool.last_update_slot <= slot
    /\ pool.borrow_index >= RAY
    /\ feed[BTC].updated_at <= now
    /\ \A v \in BtcVaults :
         /\ btcVault[v].proof_timestamp <= now
         /\ btcVault[v].liquidation_initiated_at <= now
         /\ attestation[v].attested_at_unix <= now

\* A transaction costs the pool more than rounding only when a borrower closes
\* a loan with the last token of the account: the forgiveness of "repay
\* everything" is bought with everything.
ForgivenessCostsAll ==
    [][\/ PoolValue' > PoolValue - pool'.borrow_index
       \/ \E v \in btcPositions \ btcPositions' :
            tokens[BtcOwnerOf[v]] > 0 /\ tokens'[BtcOwnerOf[v]] = 0]_btcAll

----------------------------------------------------------------------------
(* Refinement *)

BtcBook == INSTANCE LoanBook WITH
    Borrowers <- BtcVaults, owed <- btcPrincipal, book <- pool.total_borrowed,
    index <- pool.borrow_index, cash <- tokens[PoolVault]

\* Bitcoin lending implements the same loan book, two-phase liquidations and
\* the forgiveness of "repay everything" included.
BtcLendsByTheBook == BtcBook!BookSpec
=============================================================================
