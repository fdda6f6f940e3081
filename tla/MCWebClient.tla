---------------------------- MODULE MCWebClient ----------------------------
(* An instance of WebClient for TLC. *)
EXTENDS WebClient

CONSTANTS alice, bob, v1, v2, v3, theirs, b1, theirBtc, SOL

\* Alice is the visitor, Bob everyone else.
BobOwnsTheirs == [v \in Vaults |-> IF v = theirs THEN bob ELSE alice]
BobOwnsTheirBtc == [v \in BtcVaults |-> IF v = theirBtc THEN bob ELSE alice]
ThreeIds == <<v1, v2, v3>>

\* The panel finds no collateral in one key and more than enough in the other.
KeyBytes == [v \in BtcVaults |-> IF v = theirBtc THEN 0 ELSE 13]

BothHaveThree == [h \in Holders |-> IF h = PoolVault THEN 4 ELSE 3]

\* Bob owes no more than half of what his vault is worth.  On the Bitcoin market
\* Alice sets the prices, on the other one Bob.
Markets ==
    {[asset |-> BTC, deposit |-> 3, liquidity |-> 4, loan |-> 2, price |-> 4,
      feedAdmin |-> alice],
     [asset |-> SOL, deposit |-> 2, liquidity |-> 4, loan |-> 2, price |-> 2,
      feedAdmin |-> bob]}
=============================================================================
