---------------------- MODULE LendingMathCheck_proofs ----------------------
(***************************************************************************)
(* The properties LendingMathCheck checks on small inputs, proved for      *)
(* every value of the constants.                                           *)
(***************************************************************************)
EXTENDS LendingMathCheck, Arithmetic_lemmas

LEMMA MathTypeCorrect == Spec => []TypeOK
<1>1. Init => TypeOK
  BY InputAssumption, UnitAssumption DEF Init, TypeOK
<1>2. TypeOK /\ [NextAmount]_inputs => TypeOK'
  BY DEF TypeOK, NextAmount, inputs
<1> QED
  BY <1>1, <1>2, PTL DEF Spec

\* No borrower is ever billed for more than was lent, and the part forgiven by
\* rounding is below index/RAY + 1 units: to_scaled, current_debt.
THEOREM RoundTrip == Spec => []RoundTripNeverGrows
<1>1. TypeOK => RoundTripNeverGrows
  <2> SUFFICES ASSUME TypeOK PROVE RoundTripNeverGrows
    OBVIOUS
  <2>1. amount \in Nat /\ index \in Nat \ {0}
    BY UnitAssumption DEF TypeOK
  <2> QED
    BY <2>1, RoundTripBounds DEF RoundTripNeverGrows
<1> QED
  BY <1>1, MathTypeCorrect, PTL

\* A partial repayment never closes a position: repay_borrow and
\* repay_btc_borrow.
THEOREM PartialRepay == Spec => []PartialRepayLeavesDebt
<1>1. TypeOK => PartialRepayLeavesDebt
  <2> SUFFICES ASSUME TypeOK,
                      NEW paid \in 1..(CurrentDebt(amount, index) - 1)
               PROVE  ToScaled(paid, index) < amount
    BY DEF PartialRepayLeavesDebt
  <2>1. amount \in Nat /\ index \in Nat \ {0}
    BY UnitAssumption DEF TypeOK
  <2>2. CurrentDebt(amount, index) \in Nat
    BY <2>1, CurrentDebtIsNat
  <2>3. paid \in Nat /\ paid < CurrentDebt(amount, index)
    BY <2>2
  <2> QED
    BY <2>1, <2>3, PartialRepayBound
<1> QED
  BY <1>1, MathTypeCorrect, PTL

----------------------------------------------------------------------------
(* Limits of a loan *)

\* With the collateral's value fixed, what may be lent exceeds what triggers a
\* liquidation by at most one unit, and falls short of it once the gap between
\* the two percentages is worth two units.
LEMMA LimitsCompared ==
    ASSUME NEW value \in Nat
    PROVE  LET lent == (((value * LtvBps) \div BASIS_POINTS)
                          * BORROW_ASSET_DECIMALS) \div PRICE_DECIMALS
               units == (value * BORROW_ASSET_DECIMALS) \div PRICE_DECIMALS
               limit == (units * ThresholdBps) \div BASIS_POINTS
               gap == value * BORROW_ASSET_DECIMALS * (ThresholdBps - LtvBps)
           IN  /\ lent \in Nat /\ limit \in Nat
               /\ lent <= limit + 1
               /\ gap >= 2 * BASIS_POINTS * PRICE_DECIMALS => lent <= limit
<1> DEFINE usd == (value * LtvBps) \div BASIS_POINTS
           lent == (usd * BORROW_ASSET_DECIMALS) \div PRICE_DECIMALS
           worth == value * BORROW_ASSET_DECIMALS
           units == worth \div PRICE_DECIMALS
           limit == (units * ThresholdBps) \div BASIS_POINTS
<1>1. /\ BASIS_POINTS \in Nat \ {0} /\ PRICE_DECIMALS \in Nat \ {0}
      /\ BORROW_ASSET_DECIMALS \in Nat \ {0}
      /\ LtvBps \in Nat /\ ThresholdBps \in Nat
      /\ LtvBps < ThresholdBps /\ ThresholdBps <= BASIS_POINTS
  BY UnitAssumption, RateAssumption DEF ValidBps
<1>2. /\ usd \in Nat /\ BASIS_POINTS * usd <= value * LtvBps
  BY <1>1, TimesIsNat, DivBounds
<1>3. /\ lent \in Nat
      /\ PRICE_DECIMALS * lent <= usd * BORROW_ASSET_DECIMALS
  <2> HIDE DEF usd
  <2> QED
    BY <1>1, <1>2, TimesIsNat, DivBounds
<1>4. /\ worth \in Nat /\ units \in Nat
      /\ worth < PRICE_DECIMALS * units + PRICE_DECIMALS
  BY <1>1, TimesIsNat, DivBounds
<1>5. /\ limit \in Nat
      /\ units * ThresholdBps < BASIS_POINTS * limit + BASIS_POINTS
  <2> HIDE DEF units
  <2> QED
    BY <1>1, <1>4, TimesIsNat, DivBounds
<1> HIDE DEF usd, lent, units, limit
\* Lent, valued before either truncation.
<1>6. BASIS_POINTS * PRICE_DECIMALS * lent <= worth * LtvBps
  <2>1. BASIS_POINTS * (PRICE_DECIMALS * lent)
          <= BASIS_POINTS * (usd * BORROW_ASSET_DECIMALS)
    BY <1>1, <1>2, <1>3, TimesIsNat, TimesMonotone
  <2>2. (BASIS_POINTS * usd) * BORROW_ASSET_DECIMALS
          <= (value * LtvBps) * BORROW_ASSET_DECIMALS
    BY <1>1, <1>2, TimesIsNat, TimesMonotone
  <2> QED
    BY <1>1, <1>2, <1>3, <2>1, <2>2
<1>7. worth * LtvBps <= PRICE_DECIMALS * ((units + 1) * LtvBps)
  <2>1. worth <= PRICE_DECIMALS * (units + 1)
    BY <1>1, <1>4, TimesIsNat
  <2>2. worth * LtvBps <= (PRICE_DECIMALS * (units + 1)) * LtvBps
    BY <1>1, <1>4, <2>1, TimesIsNat, TimesMonotone
  <2> QED
    BY <1>1, <1>4, <2>2
<1>8. lent <= limit + 1
  <2>1. PRICE_DECIMALS * (BASIS_POINTS * lent)
          <= PRICE_DECIMALS * ((units + 1) * LtvBps)
    BY <1>1, <1>3, <1>4, <1>6, <1>7
  <2>2. BASIS_POINTS * lent <= (units + 1) * LtvBps
    BY <1>1, <1>3, <1>4, <2>1, TimesIsNat, TimesCancel
  <2>3. units * LtvBps <= units * ThresholdBps
    BY <1>1, <1>4, TimesMonotone
  <2>4. BASIS_POINTS * lent < BASIS_POINTS * (limit + 2)
    BY <1>1, <1>3, <1>4, <1>5, <2>2, <2>3
  <2> QED
    BY <1>1, <1>3, <1>5, <2>4
<1>9. ASSUME worth * (ThresholdBps - LtvBps) >= 2 * BASIS_POINTS * PRICE_DECIMALS
      PROVE  lent <= limit
  <2>1. worth * ThresholdBps
          >= PRICE_DECIMALS * (BASIS_POINTS * (lent + 2))
    BY <1>1, <1>3, <1>4, <1>6, <1>9
  <2>2. worth * ThresholdBps <= PRICE_DECIMALS * ((units + 1) * ThresholdBps)
    <3>1. worth <= PRICE_DECIMALS * (units + 1)
      BY <1>1, <1>4, TimesIsNat
    <3>2. worth * ThresholdBps <= (PRICE_DECIMALS * (units + 1)) * ThresholdBps
      BY <1>1, <1>4, <3>1, TimesIsNat, TimesMonotone
    <3> QED
      BY <1>1, <1>4, <3>2
  <2>3. BASIS_POINTS * (lent + 2) <= (units + 1) * ThresholdBps
    <3> DEFINE low == BASIS_POINTS * (lent + 2)
               high == (units + 1) * ThresholdBps
    <3>1. low \in Nat /\ high \in Nat /\ worth * ThresholdBps \in Nat
      BY <1>1, <1>3, <1>4, TimesIsNat
    <3>2. PRICE_DECIMALS * low <= PRICE_DECIMALS * high
      <4> HIDE DEF worth
      <4>1. PRICE_DECIMALS * low \in Nat /\ PRICE_DECIMALS * high \in Nat
        BY <1>1, <3>1, TimesIsNat
      <4> QED
        BY <2>1, <2>2, <3>1, <4>1
    <3> HIDE DEF low, high
    <3>3. low <= high
      BY <1>1, <3>1, <3>2, TimesCancel
    <3> QED
      BY <3>3 DEF low, high
  <2>4. BASIS_POINTS * lent < BASIS_POINTS * (limit + 1)
    BY <1>1, <1>3, <1>4, <1>5, <2>3
  <2> QED
    BY <1>1, <1>3, <1>5, <2>4
<1> QED
  BY <1>3, <1>5, <1>8, <1>9 DEF usd, lent, units, limit

\* The clients' copies of current_debt and of the liquidation predicate, in
\* lending-client.ts and accounts.ts, decide as the program does.
LEMMA ClientsJudgeAlike ==
    /\ \A s, i : WebCurrentDebt(s, i) = CurrentDebt(s, i)
    /\ \A s, i : SdkCurrentDebt(s, i) = CurrentDebt(s, i)
    /\ \A c, p, d, u : WebIsLiquidatable(c, p, d, u) = IsLiquidatable(c, p, d, u)
    /\ \A c, p, d, u : SdkIsLiquidatable(c, p, d, u) = IsLiquidatable(c, p, d, u)
  BY DEF WebCurrentDebt, SdkCurrentDebt, CurrentDebt, WebIsLiquidatable,
         SdkIsLiquidatable, IsLiquidatable, LiquidationValue, CollateralValueUsd

\* A loan within calculate_max_borrow is not liquidatable at once when the gap
\* between LTV and threshold is worth two base units; otherwise the different
\* orders of truncation leave it at most one unit over.
THEOREM FreshLoan == Spec => []FreshLoanHealthy
<1>1. TypeOK => FreshLoanHealthy
  <2> DEFINE value == CollateralValueUsd(collateral, price, UNIT)
             debt == CurrentDebt(ToScaled(amount, index), index)
             limit == LiquidationValue(collateral, price, UNIT)
             gap == value * BORROW_ASSET_DECIMALS * (ThresholdBps - LtvBps)
  <2> SUFFICES ASSUME TypeOK, amount <= MaxBorrow(collateral, price, UNIT)
               PROVE  /\ debt <= limit + 1
                      /\ gap >= 2 * BASIS_POINTS * PRICE_DECIMALS
                           => ~(debt > limit)
    BY ClientsJudgeAlike DEF FreshLoanHealthy, IsLiquidatable
  <2>1. amount \in Nat /\ index \in Nat \ {0}
    BY UnitAssumption DEF TypeOK
  <2>2. debt \in Nat /\ debt <= amount
    BY <2>1, RoundTripBounds, ToScaledIsNat, CurrentDebtIsNat
  <2>3. value \in Nat
    BY DivBounds, TimesIsNat, InputAssumption DEF TypeOK, CollateralValueUsd
  <2>4. /\ MaxBorrow(collateral, price, UNIT) \in Nat /\ limit \in Nat
        /\ MaxBorrow(collateral, price, UNIT) <= limit + 1
        /\ gap >= 2 * BASIS_POINTS * PRICE_DECIMALS
             => MaxBorrow(collateral, price, UNIT) <= limit
    <3> HIDE DEF debt
    <3> QED
      BY <2>3, LimitsCompared DEF MaxBorrow, LiquidationValue
  <2> HIDE DEF value, debt, limit, gap
  <2> QED
    BY <2>1, <2>2, <2>4
<1> QED
  BY <1>1, MathTypeCorrect, PTL

----------------------------------------------------------------------------
(* Interest in several steps *)

\* The rate is the higher, the more the loans have grown.
LEMMA RateGrows ==
    ASSUME NEW b \in Nat, NEW l \in Nat \ {0}, NEW i \in Nat, NEW j \in Nat,
           i <= j
    PROVE  AnnualRate(b, l, i) <= AnnualRate(b, l, j)
<1>1. CurrentDebt(b, i) <= CurrentDebt(b, j)
  BY UnitAssumption, TimesIsNat, TimesMonotone, DivMonotone DEF CurrentDebt
<1>2. Utilisation(b, l, i) <= Utilisation(b, l, j)
  <2> DEFINE d == CurrentDebt(b, i)
             e == CurrentDebt(b, j)
  <2>1. d \in Nat /\ e \in Nat
    BY CurrentDebtIsNat
  <2> HIDE DEF d, e
  <2>2. d * BASIS_POINTS \in Nat /\ e * BASIS_POINTS \in Nat
        /\ d * BASIS_POINTS <= e * BASIS_POINTS
    BY <1>1, <2>1, UnitAssumption, TimesIsNat, TimesMonotone DEF d, e
  <2>3. /\ (d * BASIS_POINTS) \div l \in Nat
        /\ (e * BASIS_POINTS) \div l \in Nat
        /\ (d * BASIS_POINTS) \div l <= (e * BASIS_POINTS) \div l
    BY <2>2, DivMonotone, DivBounds
  <2> QED
    BY <2>3, UnitAssumption DEF Utilisation, Smaller, d, e
<1>3. /\ RateSlopeBps * Utilisation(b, l, i) \in Nat
      /\ RateSlopeBps * Utilisation(b, l, j) \in Nat
      /\ RateSlopeBps * Utilisation(b, l, i)
           <= RateSlopeBps * Utilisation(b, l, j)
  BY <1>2, UtilisationIsNat, RateAssumption, TimesIsNat, TimesMonotone
<1>4. /\ (RateSlopeBps * Utilisation(b, l, i)) \div BASIS_POINTS \in Nat
      /\ (RateSlopeBps * Utilisation(b, l, j)) \div BASIS_POINTS \in Nat
      /\ (RateSlopeBps * Utilisation(b, l, i)) \div BASIS_POINTS
           <= (RateSlopeBps * Utilisation(b, l, j)) \div BASIS_POINTS
  BY <1>3, UnitAssumption, DivMonotone, DivBounds
<1> QED
  BY <1>4, RateAssumption DEF AnnualRate

\* Truncating two summands loses at most one unit more than truncating the sum.
LEMMA SumTruncated ==
    ASSUME NEW n \in Nat, NEW m \in Nat, NEW d \in Nat \ {0}
    PROVE  (n + m) \div d <= (n \div d) + (m \div d) + 1
<1>1. /\ n \div d \in Nat /\ n < d * (n \div d) + d
      /\ m \div d \in Nat /\ m < d * (m \div d) + d
      /\ (n + m) \div d \in Nat /\ d * ((n + m) \div d) <= n + m
  BY DivBounds
<1>2. d * ((n + m) \div d) < d * ((n \div d) + (m \div d) + 2)
  BY <1>1
<1> QED
  BY <1>1, <1>2

\* Accruing twice instead of once costs at most one index unit, whatever the
\* slots between: accrue_interest, called by every borrow and repayment.
THEOREM SplitAccrual == Spec => []SplitAccrualHarmless
<1> DEFINE growth(i, elapsed) == IndexGrowth(amount, collateral, i, elapsed)
<1>1. ASSUME TypeOK, NEW first \in Nat, NEW second \in Nat
      PROVE  index + growth(index, first + second)
               <= (index + growth(index, first))
                    + growth(index + growth(index, first), second) + 1
  <2> DEFINE gain == growth(index, first)
             middle == index + gain
             year == SLOTS_PER_YEAR * BASIS_POINTS
  <2>1. amount \in Nat /\ index \in Nat /\ collateral \in Nat
    BY <1>1 DEF TypeOK
  <2>2. gain \in Nat /\ middle \in Nat /\ index <= middle
    <3>1. gain \in Nat
      BY <1>1, <2>1, IndexGrowthIsNat
    <3> HIDE DEF gain
    <3> QED
      BY <2>1, <3>1
  <2>3. CASE amount = 0 \/ collateral = 0
    BY <2>1, <2>3 DEF IndexGrowth
  <2>4. CASE ~(amount = 0 \/ collateral = 0)
    <3> DEFINE rate == AnnualRate(amount, collateral, index)
               later == AnnualRate(amount, collateral, middle)
               owed == index * rate
    <3>1. year \in Nat \ {0}
      BY UnitAssumption
    <3>2. /\ growth(index, first + second) = (owed * (first + second)) \div year
          /\ gain = (owed * first) \div year
          /\ growth(middle, second) = (middle * later * second) \div year
      BY <2>4 DEF IndexGrowth
    <3> HIDE DEF gain, middle, year
    <3>3. rate \in Nat /\ later \in Nat /\ rate <= later
      BY <2>1, <2>2, <2>4, AnnualRateIsNat, RateGrows
    <3> HIDE DEF rate, later
    <3>4. owed \in Nat /\ middle * later \in Nat /\ owed <= middle * later
      <4>1. index * rate <= middle * rate /\ middle * rate <= middle * later
        BY <2>1, <2>2, <3>3, TimesMonotone
      <4>2. /\ index * rate \in Nat /\ middle * rate \in Nat
            /\ middle * later \in Nat
        BY <2>1, <2>2, <3>3, TimesIsNat
      <4> QED
        BY <4>1, <4>2
    <3> DEFINE grown == middle * later
    <3> HIDE DEF owed, grown
    <3>5. /\ owed * first \in Nat /\ owed * second \in Nat
          /\ grown * second \in Nat
          /\ owed * second <= grown * second
          /\ owed * (first + second) = owed * first + owed * second
      BY <1>1, <3>4, TimesIsNat, TimesMonotone DEF grown
    <3>6. /\ (owed * (first + second)) \div year
                <= gain + ((owed * second) \div year) + 1
          /\ (owed * second) \div year <= (grown * second) \div year
      BY <3>1, <3>2, <3>5, SumTruncated, DivMonotone
    <3>7. /\ (owed * (first + second)) \div year \in Nat
          /\ (owed * second) \div year \in Nat
          /\ (grown * second) \div year \in Nat
      BY <3>1, <3>5, DivBounds
    <3>8. growth(index, first + second) <= gain + growth(middle, second) + 1
      BY <2>2, <3>2, <3>6, <3>7 DEF grown
    <3> QED
      BY <2>1, <2>2, <3>2, <3>7, <3>8 DEF middle, gain, grown
  <2> QED
    BY <2>3, <2>4
<1>2. TypeOK => SplitAccrualHarmless
  <2>1. 0..(2 * SLOTS_PER_YEAR) \subseteq Nat
    BY UnitAssumption
  <2> QED
    BY <1>1, <2>1 DEF SplitAccrualHarmless
<1> QED
  BY <1>2, MathTypeCorrect, PTL
=============================================================================
