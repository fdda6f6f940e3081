----------------------------- MODULE SolLending -----------------------------
(***************************************************************************)
(* Borrowing against custody vaults: borrow_against_collateral,            *)
(* repay_borrow and liquidate_position of instructions/lending.rs,         *)
(* composed with the vaults (Custody) and the pool (Pool).  Transactions   *)
(* of owners, liquidators, price admins, the protocol admin and the clock  *)
(* interleave freely.                                                      *)
(*                                                                         *)
(* A BorrowPosition is the PDA of its vault address: it is not removed     *)
(* when the VaultAccount is closed.  Not modelled: the stored              *)
(* borrow_index_snapshot, borrowed_at, last_updated_at and                 *)
(* health_ciphertext, which no instruction reads.                          *)
(***************************************************************************)
EXTENDS Custody, Pool

CONSTANTS
    COLLATERAL_DECIMALS,
    BorrowAmounts, RepayAmounts     \* LGUSD amounts callers pass

ASSUME SolAssumption ==
    /\ COLLATERAL_DECIMALS \in Nat \ {0}
    /\ BorrowAmounts \subseteq Nat
    /\ RepayAmounts \subseteq Nat

VARIABLES
    positions,             \* vault addresses that have a BorrowPosition
    principal              \* its scaled debt; 0 where there is none

solVars == <<positions, principal>>
vars == <<clockVars, protocol, custodyVars, poolVars, solVars>>

SolType ==
    /\ positions \subseteq Vaults
    /\ principal \in [Vaults -> Nat]

TypeOK == ProtocolType /\ CustodyType /\ PoolType /\ SolType

SolInit == positions = {} /\ principal = [v \in Vaults |-> 0]

Init == ProtocolInit /\ CustodyInit /\ PoolInit /\ SolInit

----------------------------------------------------------------------------

\* Room left in the pool, in raw units.  The code's checked_sub rejects the
\* transaction when interest has pushed the debt above total_liquidity.
Available == pool.total_liquidity - DebtOf(pool.total_borrowed)

BorrowAgainstCollateral(v, signer, amount) ==
    /\ protocol.live /\ pool.live /\ vault[v].live
    /\ signer = OwnerOf[v]
    /\ v \notin positions
    /\ amount > 0
    /\ ~protocol.frozen
    /\ ~vault[v].frozen
    /\ vault[v].proof_status = VERIFIED
    /\ vault[v].deposited_amount > 0
    /\ ProofFresh(v)
    /\ PriceFresh(vault[v].asset_type)
    /\ amount <= MaxBorrow(vault[v].deposited_amount,
                           feed[vault[v].asset_type].price_usd,
                           COLLATERAL_DECIMALS)
    /\ amount <= Available
    /\ LET scaled == ToScaled(amount, Accrued.borrow_index)
       IN  /\ pool' = [Accrued EXCEPT !.total_borrowed = @ + scaled]
           /\ principal' = [principal EXCEPT ![v] = scaled]
    /\ positions' = positions \cup {v}
    /\ Pay(PoolVault, signer, amount)
    /\ UNCHANGED <<clockVars, protocol, custodyVars, feed>>

\* Mutated form: any repayment wipes the whole principal.
RepaidSliceWhole(paid, owed, scaled) == scaled

\* The scaled slice a repayment of `paid` out of `owed` removes from `scaled`.
RepaidSlice(paid, owed, scaled) ==
    IF paid = owed
    THEN scaled
    ELSE Smaller(ToScaled(paid, Accrued.borrow_index), scaled)

\* Mutated form: forgets what the pool is owed.
PoolStillOwed(slice) == Accrued

\* The pool once `slice` scaled units are paid back.
PoolWithout(slice) == [Accrued EXCEPT !.total_borrowed = @ - slice]

\* Mutated form: any repayment closes the position.
PositionsWithout(v, slice) == positions \ {v}

\* Paying everything closes the position.
PositionsAfter(v, slice) ==
    IF principal[v] = slice THEN positions \ {v} ELSE positions

\* Mutated form: the global freeze blocks repayments too.
OwnsLoanUnlessFrozen(v, signer) ==
    pool.live /\ vault[v].live /\ v \in positions /\ signer = OwnerOf[v]
      /\ ~protocol.frozen

\* The instruction loads the VaultAccount, so it needs it to exist; it checks
\* neither frozen flag.
OwnsLoan(v, signer) ==
    pool.live /\ vault[v].live /\ v \in positions /\ signer = OwnerOf[v]

\* What repay_borrow requires; the last two conjuncts are the transfer's and
\* the checked_sub on total_borrowed.
MayRepay(v, signer, amount) ==
    LET owed == DebtOf(principal[v])
        paid == Smaller(amount, owed)
    IN  /\ OwnsLoan(v, signer)
        /\ amount > 0
        /\ owed > 0
        /\ tokens[signer] >= paid
        /\ pool.total_borrowed >= RepaidSlice(paid, owed, principal[v])

RepayBorrow(v, signer, amount) ==
    /\ MayRepay(v, signer, amount)
    /\ LET owed == DebtOf(principal[v])
           paid == Smaller(amount, owed)
           slice == RepaidSlice(paid, owed, principal[v])
       IN  /\ Pay(signer, PoolVault, paid)
           /\ pool' = PoolWithout(slice)
           /\ principal' = [principal EXCEPT ![v] = @ - slice]
           /\ positions' = PositionsAfter(v, slice)
    /\ UNCHANGED <<clockVars, protocol, custodyVars, feed>>

\* Mutated form: pays out of the rent-exempt minimum.
SeizedIgnoringRent(v) ==
    Smaller(CollateralWithBonus(vault[v].deposited_amount), lamports[v])

\* What a liquidator receives: the deposit plus the bonus, capped by the
\* lamports above the rent-exempt minimum.
Seized(v) ==
    Smaller(CollateralWithBonus(vault[v].deposited_amount),
            IF lamports[v] > RENT THEN lamports[v] - RENT ELSE 0)

\* Anyone but the owner pays the whole debt.  The last guard is the
\* checked_sub on deposited_amount: seizing more than the recorded deposit
\* rejects the transaction.  The protocol's collateral total is left alone.
LiquidatePosition(v, liquidator) ==
    /\ protocol.live /\ pool.live /\ vault[v].live
    /\ v \in positions
    /\ ~protocol.frozen
    /\ principal[v] > 0
    /\ liquidator # OwnerOf[v]
    /\ PriceFresh(vault[v].asset_type)
    /\ IsLiquidatable(vault[v].deposited_amount,
                      feed[vault[v].asset_type].price_usd,
                      DebtOf(principal[v]), COLLATERAL_DECIMALS)
    /\ Pay(liquidator, PoolVault, DebtOf(principal[v]))
    /\ Seized(v) > 0
    /\ Seized(v) <= vault[v].deposited_amount
    /\ pool.total_borrowed >= principal[v]
    /\ pool' = PoolWithout(principal[v])
    /\ lamports' = [lamports EXCEPT ![v] = @ - Seized(v)]
    /\ vault' = [vault EXCEPT ![v] =
                    [vault[v] EXCEPT !.deposited_amount = @ - Seized(v),
                                     !.proof_status = PENDING]]
    /\ positions' = positions \ {v}
    /\ principal' = [principal EXCEPT ![v] = 0]
    /\ UNCHANGED <<clockVars, protocol, risk, feed>>

----------------------------------------------------------------------------

LendingStep(v) ==
    \E signer \in Users :
      \/ \E amount \in BorrowAmounts :
           BorrowAgainstCollateral(v, signer, amount)
      \/ \E amount \in RepayAmounts : RepayBorrow(v, signer, amount)
      \/ LiquidatePosition(v, signer)

Next ==
    \/ CustodyNext /\ UNCHANGED <<poolVars, solVars>>
    \/ PoolStep /\ UNCHANGED <<custodyVars, solVars>>
    \/ \E v \in Vaults : LendingStep(v)

Spec == Init /\ [][Next]_vars

----------------------------------------------------------------------------
(* Safety *)

\* pool.total_borrowed is the sum of all scaled principals, whatever order
\* borrowers, repayers and liquidators come in, and across vaults that are
\* closed and registered again, as long as all loans are SOL-side loans
\* (LendGuard's TotalLedger is the whole program's form).  It is also why no
\* repayment or liquidation is rejected by the checked_sub on total_borrowed.
DebtLedger == pool.total_borrowed = SumOver(Vaults, principal)

\* The protocol's collateral total covers every recorded deposit, so the
\* checked_sub on it never stops an owner's withdrawal; liquidations leave it
\* above the sum.
CollateralLedger ==
    SumOver(Vaults, Deposits) <= protocol.total_collateral_verified

\* A principal, a position and the pool's debt exist only together: no scaled
\* debt outlives its position, and no debt precedes the pool.
DebtHasAPosition ==
    \A v \in Vaults : principal[v] > 0 => v \in positions /\ pool.live

\* A registered vault keeps its rent-exempt minimum whatever is seized from
\* it, and collateral is recorded only for registered vaults of an initialised
\* protocol: close_vault never forgets a deposit.
VaultStaysFunded ==
    \A v \in Vaults :
      /\ vault[v].live => protocol.live /\ lamports[v] >= RENT
      /\ vault[v].deposited_amount > 0 => vault[v].live

\* No stored time runs ahead of the clock, so none of the freshness
\* subtractions can fail or go negative, and the borrow index never falls
\* below one.
ClocksBehind ==
    /\ pool.last_update_slot <= slot
    /\ pool.borrow_index >= RAY
    /\ \A v \in Vaults : vault[v].proof_timestamp <= now
    /\ \A a \in PriceAssets : feed[a].updated_at <= now

\* Neither frozen flag ever locks a borrower in: as long as the vault account
\* exists and debt is owed, repay_borrow takes whatever the owner can pay.
RepayNeverFrozenOut ==
    \A v \in positions :
      vault[v].live /\ DebtOf(principal[v]) > 0 =>
        \A amount \in 1..tokens[OwnerOf[v]] : MayRepay(v, OwnerOf[v], amount)

----------------------------------------------------------------------------
(* What a step may never do *)

\* Interest for a slot is charged once, however many transactions land in it,
\* and the index moves only together with last_update_slot.
AccruedOncePerSlot ==
    [][pool'.borrow_index # pool.borrow_index =>
         /\ pool'.borrow_index > pool.borrow_index
         /\ pool.last_update_slot < slot
         /\ pool'.last_update_slot = slot]_vars

\* Rounding between raw and scaled debt never costs the pool a whole index
\* unit in one transaction: a borrow, a partial or full repayment and a
\* liquidation are all paid for, up to that rounding.
RoundingLossBounded == [][PoolValue' > PoolValue - pool'.borrow_index]_vars

\* While the protocol stays frozen no collateral record changes, the pool
\* pays nothing out, and a position disappears only because its owner
\* repaid it.
FrozenMeansStill ==
    [][protocol.frozen /\ protocol'.frozen =>
         /\ Deposits' = Deposits
         /\ tokens'[PoolVault] >= tokens[PoolVault]
         /\ positions' \subseteq positions
         /\ \A v \in positions \ positions' :
              tokens'[OwnerOf[v]] < tokens[OwnerOf[v]]]_vars

----------------------------------------------------------------------------
(* Refinement *)

SolBook == INSTANCE LoanBook WITH
    Borrowers <- Vaults, owed <- principal, book <- pool.total_borrowed,
    index <- pool.borrow_index, cash <- tokens[PoolVault]

\* SOL-side lending implements the loan book: no interleaving of borrowers,
\* repayers, liquidators and vaults that close and register again lends
\* without booking, tops a loan up, or writes one off without cash.
SolLendsByTheBook == SolBook!BookSpec
=============================================================================
