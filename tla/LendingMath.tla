---------------------------- MODULE LendingMath ----------------------------
(***************************************************************************)
(* The integer arithmetic of instructions/lending.rs.                      *)
(* Every division truncates, exactly where the Rust code truncates; the    *)
(* fixed-point units are CONSTANTS so that small instances exercise the    *)
(* same rounding.  The Rust code computes in checked u128 and narrows to   *)
(* u64; an overflow rejects the transaction, and no bound used here comes  *)
(* near one, so widths are not modelled.                                   *)
(***************************************************************************)
EXTENDS Integers

CONSTANTS
    RAY,                   \* fixed-point one of borrow_index
    BASIS_POINTS,          \* BASIS_POINTS_DENOMINATOR
    PRICE_DECIMALS,        \* fixed-point one of price_usd
    BORROW_ASSET_DECIMALS, \* base units per LGUSD
    SLOTS_PER_YEAR,
    LtvBps, ThresholdBps, BonusBps, BaseRateBps, RateSlopeBps
                           \* the parameters fixed when the pool is created

\* validate_bps: what initialize_lending_pool accepts.  A bonus of at most
\* half the denominator is all the code asks of it.
ValidBps ==
    /\ LtvBps > 0
    /\ LtvBps < BASIS_POINTS
    /\ ThresholdBps > LtvBps
    /\ ThresholdBps <= BASIS_POINTS
    /\ BonusBps <= BASIS_POINTS \div 2

ASSUME UnitAssumption ==
    /\ RAY \in Nat \ {0}
    /\ BASIS_POINTS \in Nat \ {0}
    /\ PRICE_DECIMALS \in Nat \ {0}
    /\ BORROW_ASSET_DECIMALS \in Nat \ {0}
    /\ SLOTS_PER_YEAR \in Nat \ {0}

ASSUME RateAssumption ==
    /\ LtvBps \in Nat
    /\ ThresholdBps \in Nat
    /\ BonusBps \in Nat
    /\ BaseRateBps \in Nat
    /\ RateSlopeBps \in Nat
    /\ ValidBps

Smaller(a, b) == IF a <= b THEN a ELSE b

----------------------------------------------------------------------------
(* Scaled debt *)

\* Mutated form: rounds the debt recorded for a borrower up.
ToScaledRoundsUp(amount, index) == (amount * RAY + index - 1) \div index

ToScaled(amount, index) == (amount * RAY) \div index

CurrentDebt(scaled, index) == (scaled * index) \div RAY

\* Share of the pool that is lent out, capped at 100 %.
Utilisation(borrowed, liquidity, index) ==
    Smaller((CurrentDebt(borrowed, index) * BASIS_POINTS) \div liquidity,
            BASIS_POINTS)

AnnualRate(borrowed, liquidity, index) ==
    BaseRateBps
      + (RateSlopeBps * Utilisation(borrowed, liquidity, index))
          \div BASIS_POINTS

\* Mutated form: divides the time into years before it multiplies.
IndexGrowthByWholeYears(borrowed, liquidity, index, elapsed) ==
    IF borrowed = 0 \/ liquidity = 0
    THEN 0
    ELSE (index * AnnualRate(borrowed, liquidity, index)
            * (elapsed \div SLOTS_PER_YEAR)) \div BASIS_POINTS

\* What accrue_interest adds to borrow_index after `elapsed` slots.
IndexGrowth(borrowed, liquidity, index, elapsed) ==
    IF borrowed = 0 \/ liquidity = 0
    THEN 0
    ELSE (index * AnnualRate(borrowed, liquidity, index) * elapsed)
           \div (SLOTS_PER_YEAR * BASIS_POINTS)

----------------------------------------------------------------------------
(* Collateral.  `unit` is COLLATERAL_DECIMALS for a SOL-side vault.        *)

CollateralValueUsd(collateral, price, unit) == (collateral * price) \div unit

\* Mutated form: lends up to the liquidation threshold.
MaxBorrowAtThreshold(collateral, price, unit) ==
    (((CollateralValueUsd(collateral, price, unit) * ThresholdBps)
        \div BASIS_POINTS) * BORROW_ASSET_DECIMALS) \div PRICE_DECIMALS

MaxBorrow(collateral, price, unit) ==
    LET maxUsd == (CollateralValueUsd(collateral, price, unit) * LtvBps)
                    \div BASIS_POINTS
    IN  (maxUsd * BORROW_ASSET_DECIMALS) \div PRICE_DECIMALS

LiquidationValue(collateral, price, unit) ==
    LET borrowUnits == (CollateralValueUsd(collateral, price, unit)
                          * BORROW_ASSET_DECIMALS) \div PRICE_DECIMALS
    IN  (borrowUnits * ThresholdBps) \div BASIS_POINTS

IsLiquidatable(collateral, price, debt, unit) ==
    debt > LiquidationValue(collateral, price, unit)

CollateralWithBonus(collateral) ==
    (collateral * (BASIS_POINTS + BonusBps)) \div BASIS_POINTS
=============================================================================
