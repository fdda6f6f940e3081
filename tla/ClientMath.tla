----------------------------- MODULE ClientMath -----------------------------
(***************************************************************************)
(* The copies of the program's arithmetic that the web application and the *)
(* SDK carry, in bigints: what they show as a debt, and which positions    *)
(* they take for liquidatable.  Bigints do not overflow; their division    *)
(* truncates, which for these operands is \div.                            *)
(***************************************************************************)
EXTENDS LendingMath

WebCurrentDebt(scaledPrincipal, borrowIndex) ==
    (scaledPrincipal * borrowIndex) \div RAY

\* isLiquidatable for lamports, isBtcLiquidatable for satoshis.
WebIsLiquidatable(deposited, priceUsd, debt, unit) ==
    LET value == (((deposited * priceUsd) \div unit) * BORROW_ASSET_DECIMALS)
                   \div PRICE_DECIMALS
    IN  debt > (value * ThresholdBps) \div BASIS_POINTS

SdkCurrentDebt(scaledPrincipal, borrowIndex) ==
    (scaledPrincipal * borrowIndex) \div RAY

SdkIsLiquidatable(deposited, priceUsd, debt, unit) ==
    LET value == (((deposited * priceUsd) \div unit) * BORROW_ASSET_DECIMALS)
                   \div PRICE_DECIMALS
    IN  debt > (value * ThresholdBps) \div BASIS_POINTS
=============================================================================
