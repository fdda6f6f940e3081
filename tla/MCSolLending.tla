---------------------------- MODULE MCSolLending ----------------------------
(* Instances of SolLending for TLC. *)
EXTENDS SolLending

CONSTANTS alice, bob, v1, SOL

\* Alice owns the only vault; Bob is everyone else: admin and liquidator.
OneOwner == [v \in Vaults |-> alice]
ThreeTokens == [h \in Holders |-> IF h = PoolVault THEN 2
                                  ELSE IF h = bob THEN 2 ELSE 0]
=============================================================================
