---------------------------- MODULE MCBtcDaemons ----------------------------
(* An instance of BtcDaemons for TLC. *)
EXTENDS BtcDaemons

CONSTANTS alice, bob, b1

\* Alice owns the vault; Bob is everyone else: admin, keeper and liquidator.
AliceOwnsIt == [v \in BtcVaults |-> alice]
PoolAndBob == [h \in Holders |-> IF h = bob THEN 4 ELSE IF h = alice THEN 0
                                 ELSE 2]
=============================================================================
