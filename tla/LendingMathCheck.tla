-------------------------- MODULE LendingMathCheck --------------------------
(***************************************************************************)
(* What the truncating arithmetic of LendingMath promises, stated over all *)
(* inputs up to a bound: an initial state picks a borrow index, a          *)
(* collateral and a price, and each step counts the amount up by one.      *)
(***************************************************************************)
EXTENDS ClientMath

CONSTANTS MaxAmount, MaxIndex, MaxCollateral, MaxPrice,   \* bounds
          UNIT                      \* collateral base units per whole coin

ASSUME InputAssumption ==
    /\ {MaxAmount, MaxIndex, MaxCollateral, MaxPrice} \subseteq Nat
    /\ UNIT \in Nat \ {0}

VARIABLES amount, index, collateral, price

inputs == <<amount, index, collateral, price>>

Init ==
    /\ amount = 0
    /\ index \in RAY..MaxIndex
    /\ collateral \in 0..MaxCollateral
    /\ price \in 1..MaxPrice

NextAmount ==
    /\ amount < MaxAmount
    /\ amount' = amount + 1
    /\ UNCHANGED <<index, collateral, price>>

Spec == Init /\ [][NextAmount]_inputs

TypeOK ==
    /\ amount \in Nat
    /\ index \in Nat /\ index >= RAY
    /\ collateral \in Nat
    /\ price \in Nat \ {0}

----------------------------------------------------------------------------

\* Recording a loan in scaled units and reading it back never bills the
\* borrower for more than was lent, and forgives less than index/RAY + 1
\* units of it: to_scaled and current_debt both truncate.
RoundTripNeverGrows ==
    LET debt == CurrentDebt(ToScaled(amount, index), index)
    IN  /\ debt <= amount
        /\ (amount - debt) * RAY < index + RAY

\* Paying less than the whole debt of a position with `amount` scaled units
\* always leaves some of them: a partial repayment cannot close a position,
\* and the cap at the principal in repay_borrow never bites.
PartialRepayLeavesDebt ==
    \A paid \in 1..(CurrentDebt(amount, index) - 1) :
      ToScaled(paid, index) < amount

\* A loan within calculate_max_borrow cannot be liquidated in the same slot
\* at the same price, once the gap between LTV and threshold is worth two
\* base units of the borrowed asset; below that, truncating in different
\* orders leaves it at most one unit over.  The clients see it alike.
FreshLoanHealthy ==
    amount <= MaxBorrow(collateral, price, UNIT) =>
      LET scaled == ToScaled(amount, index)
          debt == CurrentDebt(scaled, index)
          gap == CollateralValueUsd(collateral, price, UNIT)
                   * BORROW_ASSET_DECIMALS * (ThresholdBps - LtvBps)
      IN  /\ debt <= LiquidationValue(collateral, price, UNIT) + 1
          /\ gap >= 2 * BASIS_POINTS * PRICE_DECIMALS
               => /\ ~IsLiquidatable(collateral, price, debt, UNIT)
                  /\ ~WebIsLiquidatable(collateral, price,
                                        WebCurrentDebt(scaled, index), UNIT)
                  /\ ~SdkIsLiquidatable(collateral, price,
                                        SdkCurrentDebt(scaled, index), UNIT)

\* Accruing in two steps instead of one, with `amount` scaled units lent out
\* of `collateral` units of liquidity, costs lenders at most one index unit:
\* calling the program often does not switch the interest off.
SplitAccrualHarmless ==
    \A first, second \in 0..(2 * SLOTS_PER_YEAR) :
      LET growth(i, elapsed) == IndexGrowth(amount, collateral, i, elapsed)
          once == growth(index, first + second)
          middle == index + growth(index, first)
      IN  index + once <= middle + growth(middle, second) + 1
=============================================================================
