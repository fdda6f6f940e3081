---------------------------- MODULE MCLendGuard ----------------------------
(* A SOL vault and a Bitcoin vault, both Alice's, on one pool. *)
EXTENDS LendGuard

CONSTANTS alice, bob, v1, b1, SOL

AliceOwnsSol == [v \in Vaults |-> alice]
AliceOwnsBtc == [v \in BtcVaults |-> alice]

\* The pool can serve both; Bob can liquidate either of them.
PoolAndBob == [h \in Holders |-> IF h = PoolVault THEN 4
                                 ELSE IF h = bob THEN 3 ELSE 0]
=============================================================================
