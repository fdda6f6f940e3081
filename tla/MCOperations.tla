---------------------------- MODULE MCOperations ----------------------------
(* An instance of Operations for TLC. *)
EXTENDS Operations

CONSTANTS alice, bob, b1, ETH

\* Alice owns the vault; Bob is the admin and the liquidator.
AliceOwnsIt == [v \in BtcVaults |-> alice]
BobHasFour == [h \in Holders |-> IF h = bob THEN 4 ELSE 0]
PricedAtTwo == [a \in PriceAssets |-> 2]
HighAndLow == {[a \in PriceAssets |-> p] : p \in {1, 2}}
BtcFirst == <<BTC, ETH>>
=============================================================================
