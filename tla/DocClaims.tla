----------------------------- MODULE DocClaims -----------------------------
(***************************************************************************)
(* Promises the repository's documents make that the program does not     *)
(* keep.  Each is checked by a run of its own, which is expected to end    *)
(* with a counterexample; the findings quote the documents.                *)
(***************************************************************************)
EXTENDS MCSolLending

\* LENDGUARD_V2_LENDING_DESIGN 4c: "withdraw_collateral must reject if
\* BorrowPosition.principal > 0".  A borrow needs a deposit, so debt should
\* never be left without one.
DebtIsCollateralised ==
    \A v \in Vaults : principal[v] > 0 => vault[v].deposited_amount > 0

\* SECURITY_AUDIT_CHECKLIST 5.3: "a borrower can always pay debt down".
DebtCanBePaidDown ==
    \A v \in positions :
      DebtOf(principal[v]) > 0 /\ tokens[OwnerOf[v]] > 0
        => ENABLED RepayBorrow(v, OwnerOf[v], 1)

\* PRODUCTION_OPS 2a: repay_borrow accepts any value, and an amount of at
\* least the outstanding debt closes the position.
RepayAllCloses ==
    \A v \in positions :
      LET everything == DebtOf(principal[v]) + 1
      IN  vault[v].live /\ tokens[OwnerOf[v]] >= DebtOf(principal[v])
            => ENABLED RepayBorrow(v, OwnerOf[v], everything)

\* LENDGUARD_V2_LENDING_DESIGN 3b and the liquidation_bonus_bps field: a
\* liquidator of an unhealthy position receives the collateral at a discount.
\* Here the vault holds lamports enough to pay the deposit and the bonus.
BonusIsPayable ==
    \A v \in positions, liquidator \in Users :
      /\ vault[v].live /\ ~protocol.frozen
      /\ principal[v] > 0 /\ liquidator # OwnerOf[v]
      /\ vault[v].deposited_amount > 0
      /\ lamports[v] - RENT >= CollateralWithBonus(vault[v].deposited_amount)
      /\ PriceFresh(vault[v].asset_type)
      /\ IsLiquidatable(vault[v].deposited_amount,
                        feed[vault[v].asset_type].price_usd,
                        DebtOf(principal[v]), COLLATERAL_DECIMALS)
      /\ tokens[liquidator] >= DebtOf(principal[v])
      => ENABLED LiquidatePosition(v, liquidator)
=============================================================================
